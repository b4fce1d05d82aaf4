----------------------------- MODULE KheapProofs -----------------------------
(***************************************************************************)
(* The blocks of the kernel heap tile it, the blocks in use are those that *)
(* clients hold, and free neighbours are joined, for every sequence of     *)
(* kmalloc, kfree and krealloc, all sizes of blocks, chunks and the heap.  *)
(***************************************************************************)
EXTENDS Kheap, WellFoundedInduction, TLAPS

-----------------------------------------------------------------------------
(* Numbers.                                                                *)

\* A set of naturals has a least member.
LEMMA Least ==
  ASSUME NEW S, S \subseteq Nat, S # {}
  PROVE  \E x \in S : \A y \in S : x <= y
  <1> DEFINE R == OpToRel(<, Nat)
  <1>1. IsWellFoundedOn(R, Nat)
    BY NatLessThanWellFounded
  <1>2. \A x, y \in Nat : <<y, x>> \in R <=> y < x
    BY DEF OpToRel
  <1> HIDE DEF R
  <1>3. PICK x \in S : \A y \in S : ~(<<y, x>> \in R)
    BY <1>1, WFMin
  <1>4. x \in Nat
    BY <1>3
  <1>5. ASSUME NEW y \in S PROVE x <= y
    <2>1. y \in Nat /\ ~(y < x)
      BY <1>2, <1>3, <1>4
    <2> QED
      BY <2>1, <1>4
  <1> QED
    BY <1>3, <1>5

\* A product is a multiple.
LEMMA Times ==
  ASSUME NEW k \in Nat, NEW a \in Nat \ {0}
  PROVE  (a * k) % a = 0 /\ a * k \in Nat
  OBVIOUS

\* What ALIGN_UP gives.
LEMMA AlignUp ==
  ASSUME NEW x \in Nat, NEW a \in Nat \ {0}
  PROVE  /\ ALIGN_UP(x, a) \in Nat /\ ALIGN_UP(x, a) % a = 0
         /\ x <= ALIGN_UP(x, a)
  <1> DEFINE q == (x + a - 1) \div a
  <1>1. q \in Nat /\ x + a - 1 < a * q + a
    OBVIOUS
  <1>2. ALIGN_UP(x, a) = a * q
    BY <1>1 DEF ALIGN_UP
  <1> HIDE DEF q
  <1>3. a * q \in Nat /\ (a * q) % a = 0
    BY <1>1, Times
  <1>4. x <= a * q
    BY <1>1, <1>3
  <1> QED
    BY <1>2, <1>3, <1>4

\* The quotient of a multiple.
LEMMA Quotient ==
  ASSUME NEW x \in Nat, NEW a \in Nat \ {0}, x % a = 0
  PROVE  \E k \in Nat : x = a * k
  <1>1. x \div a \in Nat /\ x = a * (x \div a)
    OBVIOUS
  <1> QED
    BY <1>1

\* Sums of multiples, and multiples of a multiple, are multiples.
LEMMA Multiples ==
  ASSUME NEW x \in Nat, NEW y \in Nat, NEW a \in Nat \ {0}, x % a = 0
  PROVE  /\ y % a = 0 => (x + y) % a = 0
         /\ x # 0 /\ y % x = 0 => y % a = 0
  <1>1. PICK p \in Nat : x = a * p
    BY Quotient
  <1>2. ASSUME y % a = 0 PROVE (x + y) % a = 0
    <2>1. PICK q \in Nat : y = a * q
      BY <1>2, Quotient
    <2>2. p + q \in Nat /\ x + y = a * (p + q)
      BY <1>1, <2>1
    <2> QED
      BY <2>2, Times
  <1>3. ASSUME x # 0, y % x = 0 PROVE y % a = 0
    <2>1. PICK q \in Nat : y = x * q
      BY <1>3, Quotient
    <2>2. p * q \in Nat /\ y = a * (p * q)
      BY <1>1, <2>1
    <2> QED
      BY <2>2, Times
  <1> QED
    BY <1>2, <1>3

-----------------------------------------------------------------------------
(* The blocks.                                                             *)

Blk == [magic : {"FREE", "USED"}, size : Nat, next : Nat \cup {NULL}, prev : Nat \cup {NULL}]

End(B, a) == a + HDR_SIZE + B[a].size

\* The headers B, at the addresses D, tile what lies below cur: Tiled, and
\* what makes it inductive.  prev leads back along next, blocks do not overlap
\* and one of them is the last.
Wf(B, D, cur) ==
  /\ cur \in Nat /\ cur <= HEAP_SIZE /\ cur % CHUNK = 0
  /\ D \subseteq Nat /\ B \in [D -> Blk]
  /\ 0 \in D /\ B[0].prev = NULL
  /\ \E a \in D : B[a].next = NULL
  /\ \A a \in D :
       /\ a % ALIGN = 0 /\ End(B, a) <= cur
       /\ B[a].next = NULL => End(B, a) = cur
       /\ B[a].next # NULL => B[a].next = End(B, a) /\ B[a].next \in D /\ B[B[a].next].prev = a
       /\ B[a].prev # NULL => B[a].prev \in D /\ B[B[a].prev].next = a
  /\ \A a, c \in D : a < c => End(B, a) <= c

\* Free neighbours meet only at the begin of a chunk, pairs that begin in X or
\* end in Y apart.
Co(B, D, X, Y) ==
  \A a \in D : B[a].magic = "FREE" /\ B[a].next # NULL /\ a \notin X /\ B[a].next \notin Y
               /\ B[B[a].next].magic = "FREE"
    => B[a].next % CHUNK = 0

\* A block is cut in two.
LEMMA SplitWf ==
  ASSUME NEW B, NEW D, NEW cur, Wf(B, D, cur), Co(B, D, {}, {}),
         NEW b \in D, B[b].magic = "FREE",
         NEW need \in Nat, need % ALIGN = 0, B[b].size >= need + HDR_SIZE + MIN_ALLOC,
         NEW nb, nb = b + HDR_SIZE + need, NEW old, old = B[b].next,
         NEW T \in [D \cup {nb} -> Blk],
         T[nb] = Header("FREE", B[b].size - need - HDR_SIZE, old, b),
         T[b] = Header("USED", need, nb, B[b].prev),
         old # NULL => T[old] = Header(B[old].magic, B[old].size, B[old].next, nb),
         \A a \in D : a # b /\ a # old => T[a] = B[a]
  PROVE  nb \notin D /\ Wf(T, D \cup {nb}, cur) /\ Co(T, D \cup {nb}, {}, {})
  <1>0. NULL \notin Nat
    BY DEF NULL
  <1>1. /\ HDR_SIZE \in Nat \ {0} /\ MIN_ALLOC \in Nat \ {0} /\ ALIGN \in Nat \ {0} /\ CHUNK \in Nat \ {0}
        /\ HDR_SIZE % ALIGN = 0
    BY KheapConstants
  <1>2. /\ D \subseteq Nat /\ B \in [D -> Blk] /\ cur \in Nat /\ b \in Nat
        /\ \A a \in D : B[a].size \in Nat /\ a \in Nat
    BY DEF Wf, Blk
  <1>3. nb \in Nat /\ b < nb /\ nb + HDR_SIZE <= End(B, b)
    BY <1>1, <1>2 DEF End
  <1>4. nb \notin D
    BY <1>1, <1>2, <1>3 DEF Wf, End
  <1>5. ASSUME old # NULL PROVE old \in D /\ old = End(B, b) /\ old # b /\ old > 0 /\ B[old].prev = b
    <2>1. old \in D /\ old = End(B, b) /\ B[old].prev = b
      BY <1>5, Zenon DEF Wf
    <2> QED
      BY <2>1, <1>1, <1>2 DEF End
  <1>6. nb % ALIGN = 0
    <2>1. b % ALIGN = 0
      BY DEF Wf
    <2>2. (b + HDR_SIZE) % ALIGN = 0
      BY <2>1, <1>1, <1>2, Multiples, Zenon
    <2>3. b + HDR_SIZE \in Nat
      BY <1>1, <1>2
    <2> QED
      BY <2>2, <2>3, <1>1, Multiples
  <1>7. /\ T[b].magic = "USED" /\ T[b].size = need /\ T[b].next = nb /\ T[b].prev = B[b].prev
        /\ T[nb].magic = "FREE" /\ T[nb].size = B[b].size - need - HDR_SIZE
        /\ T[nb].next = old /\ T[nb].prev = b
        /\ old # NULL => /\ T[old].magic = B[old].magic /\ T[old].size = B[old].size
                         /\ T[old].next = B[old].next /\ T[old].prev = nb
    BY DEF Header
  <1>8. \A a \in D : a # b =>
          /\ T[a].magic = B[a].magic /\ T[a].size = B[a].size /\ T[a].next = B[a].next
          /\ a # old => T[a].prev = B[a].prev
    BY <1>0, <1>2, <1>7
  <1>9. /\ End(T, b) = nb /\ End(T, nb) = End(B, b)
        /\ \A a \in D : a # b => End(T, a) = End(B, a)
    BY <1>1, <1>2, <1>3, <1>7, <1>8 DEF End
  <1>10. Wf(T, D \cup {nb}, cur)
    <2>1. /\ cur \in Nat /\ cur <= HEAP_SIZE /\ cur % CHUNK = 0
          /\ D \cup {nb} \subseteq Nat /\ T \in [D \cup {nb} -> Blk]
      BY <1>2, <1>3 DEF Wf
    <2>2. 0 \in D \cup {nb} /\ T[0].prev = NULL
      <3>1. 0 \in D /\ B[0].prev = NULL
        BY DEF Wf
      <3>2. 0 # old
        BY <3>1, <1>0, <1>5
      <3> QED
        BY <3>1, <3>2, <1>7, <1>8
    <2>3. \E a \in D \cup {nb} : T[a].next = NULL
      BY <1>7, <1>8 DEF Wf
    <2>4. ASSUME NEW a \in D \cup {nb}
          PROVE  /\ a % ALIGN = 0 /\ End(T, a) <= cur
                 /\ T[a].next = NULL => End(T, a) = cur
      <3>1. CASE a = nb
        <4>1. /\ End(B, b) <= cur
              /\ old = NULL => End(B, b) = cur
          BY DEF Wf
        <4> QED
          BY <4>1, <3>1, <1>6, <1>7, <1>9
      <3>2. CASE a = b
        <4>1. b % ALIGN = 0 /\ End(B, b) <= cur /\ End(B, b) \in Nat
          BY <1>1, <1>2 DEF Wf, End
        <4> QED
          BY <4>1, <3>2, <1>0, <1>1, <1>2, <1>3, <1>7, <1>9
      <3>3. CASE a \in D /\ a # b
        <4>1. /\ a % ALIGN = 0 /\ End(B, a) <= cur
              /\ B[a].next = NULL => End(B, a) = cur
          BY <3>3 DEF Wf
        <4> QED
          BY <4>1, <3>3, <1>8, <1>9
      <3> QED
        BY <3>1, <3>2, <3>3
    <2>5. ASSUME NEW a \in D \cup {nb}, T[a].next # NULL
          PROVE  /\ T[a].next = End(T, a) /\ T[a].next \in D \cup {nb}
                 /\ T[T[a].next].prev = a
      <3>1. CASE a = nb
        BY <3>1, <2>5, <1>5, <1>7, <1>9
      <3>2. CASE a = b
        BY <3>2, <1>7, <1>9
      <3>3. CASE a \in D /\ a # b
        <4>0. T[a].next = B[a].next
          BY <3>3, <1>8
        <4>1. /\ T[a].next = End(B, a) /\ T[a].next \in D /\ B[T[a].next].prev = a
          BY <4>0, <3>3, <2>5, Zenon DEF Wf
        <4>2. T[a].next # old
          BY <4>1, <3>3, <2>5, <1>5
        <4>3. T[T[a].next].prev = a
          BY <4>1, <4>2, <1>7, <1>8
        <4> QED
          BY <4>1, <4>3, <3>3, <1>9
      <3> QED
        BY <3>1, <3>2, <3>3
    <2>6. ASSUME NEW a \in D \cup {nb}, T[a].prev # NULL
          PROVE  T[a].prev \in D \cup {nb} /\ T[T[a].prev].next = a
      <3>1. CASE a = nb
        BY <3>1, <1>7
      <3>2. CASE a = old
        <4>1. old # NULL
          BY <3>2, <1>0, <1>2, <1>3
        <4> QED
          BY <4>1, <3>2, <1>7, Zenon
      <3>3. CASE a \in D /\ a # old
        <4>1. T[a].prev \in D /\ B[T[a].prev].next = a
          BY <3>3, <2>6, <1>7, <1>8 DEF Wf
        <4>2. T[a].prev # b
          BY <4>1, <3>3
        <4>3. T[T[a].prev].next = B[T[a].prev].next
          BY <4>1, <4>2, <1>8, Zenon
        <4> QED
          BY <4>1, <4>3
      <3> QED
        BY <3>1, <3>2, <3>3
    <2>7. ASSUME NEW a \in D \cup {nb}, NEW c \in D \cup {nb}, a < c
          PROVE  End(T, a) <= c
      <3>1. CASE a = nb
        BY <3>1, <2>7, <1>1, <1>2, <1>3, <1>9 DEF Wf, End
      <3>2. CASE a = b
        BY <3>2, <2>7, <1>1, <1>2, <1>3, <1>9 DEF Wf, End
      <3>3. CASE a \in D /\ a # b
        <4>1. CASE c \in D
          BY <4>1, <3>3, <2>7, <1>9 DEF Wf
        <4>2. CASE c = nb
          <5>1. a < b
            BY <4>2, <3>3, <2>7, <1>1, <1>2, <1>3 DEF Wf, End
          <5>2. End(B, a) <= b /\ End(B, a) \in Nat
            BY <5>1, <3>3, <1>1, <1>2 DEF Wf, End
          <5> QED
            BY <5>2, <4>2, <3>3, <1>2, <1>3, <1>9
        <4> QED
          BY <4>1, <4>2
      <3> QED
        BY <3>1, <3>2, <3>3
    <2> QED
      BY <2>1, <2>2, <2>3, <2>4, <2>5, <2>6, <2>7 DEF Wf
  <1>11. Co(T, D \cup {nb}, {}, {})
    <2>1. ASSUME NEW a \in D \cup {nb}, T[a].magic = "FREE", T[a].next # NULL,
                 T[T[a].next].magic = "FREE"
          PROVE  T[a].next % CHUNK = 0
      <3>1. CASE a = nb
        BY <3>1, <2>1, <1>5, <1>7 DEF Co
      <3>2. CASE a \in D /\ a # b
        <4>0. T[a].next = B[a].next /\ B[a].magic = "FREE"
          BY <3>2, <2>1, <1>8
        <4>1. T[a].next \in D
          BY <4>0, <3>2, <2>1, Zenon DEF Wf
        <4>2. B[B[a].next].magic = "FREE"
          BY <4>0, <4>1, <2>1, <1>7, <1>8
        <4> QED
          BY <4>0, <4>1, <4>2, <3>2, <2>1 DEF Co
      <3> QED
        BY <3>1, <3>2, <2>1, <1>7
    <2> QED
      BY <2>1 DEF Co
  <1> QED
    BY <1>4, <1>10, <1>11

\* A block takes over the one after it.
LEMMA AbsorbWf ==
  ASSUME NEW B, NEW D, NEW cur, Wf(B, D, cur), NEW X, NEW Y, Co(B, D, X, Y),
         NEW b \in D, B[b].magic = "FREE", NEW x, x = B[b].next, x # NULL, B[x].magic = "FREE",
         NEW n, n = B[x].next, x \notin X, n \notin Y,
         NEW T \in [D \ {x} -> Blk],
         T[b] = Header("FREE", B[b].size + HDR_SIZE + B[x].size, n, B[b].prev),
         n # NULL => T[n] = Header(B[n].magic, B[n].size, B[n].next, b),
         \A a \in D : a # b /\ a # x /\ a # n => T[a] = B[a]
  PROVE  Wf(T, D \ {x}, cur) /\ Co(T, D \ {x}, X \ {b}, Y \ {x}) /\ n # b /\ x # b /\ x \in D
  <1>0. NULL \notin Nat
    BY DEF NULL
  <1>1. /\ HDR_SIZE \in Nat \ {0} /\ ALIGN \in Nat \ {0} /\ CHUNK \in Nat \ {0}
    BY KheapConstants
  <1>2. /\ D \subseteq Nat /\ B \in [D -> Blk] /\ cur \in Nat /\ b \in Nat
        /\ \A a \in D : B[a].size \in Nat /\ a \in Nat /\ End(B, a) \in Nat /\ a < End(B, a)
    BY <1>1 DEF Wf, Blk, End
  <1>3. x \in D /\ x = End(B, b) /\ B[x].prev = b /\ x # b
    <2>1. x \in D /\ x = End(B, b) /\ B[x].prev = b
      BY Zenon DEF Wf
    <2> QED
      BY <2>1, <1>2
  <1>4. ASSUME n # NULL PROVE n \in D /\ n = End(B, x) /\ n # b /\ n # x /\ n > 0 /\ B[n].prev = x
    <2>1. n \in D /\ n = End(B, x) /\ B[n].prev = x
      BY <1>3, <1>4, Zenon DEF Wf
    <2> QED
      BY <2>1, <1>2, <1>3
  <1>5. n # b /\ n # x
    BY <1>0, <1>2, <1>3, <1>4
  <1>7. /\ T[b].magic = "FREE" /\ T[b].size = B[b].size + HDR_SIZE + B[x].size
        /\ T[b].next = n /\ T[b].prev = B[b].prev
        /\ n # NULL => /\ T[n].magic = B[n].magic /\ T[n].size = B[n].size
                       /\ T[n].next = B[n].next /\ T[n].prev = b
    BY DEF Header
  <1>8. \A a \in D \ {x} : a # b =>
          /\ T[a].magic = B[a].magic /\ T[a].size = B[a].size /\ T[a].next = B[a].next
          /\ a # n => T[a].prev = B[a].prev
    BY <1>0, <1>2, <1>7
  <1>9. /\ End(T, b) = End(B, x)
        /\ \A a \in D \ {x} : a # b => End(T, a) = End(B, a)
    BY <1>1, <1>2, <1>3, <1>7, <1>8 DEF End
  <1>10. Wf(T, D \ {x}, cur)
    <2>1. /\ cur \in Nat /\ cur <= HEAP_SIZE /\ cur % CHUNK = 0
          /\ D \ {x} \subseteq Nat /\ T \in [D \ {x} -> Blk]
      BY <1>2 DEF Wf
    <2>2. 0 \in D \ {x} /\ T[0].prev = NULL
      <3>1. 0 \in D /\ B[0].prev = NULL
        BY DEF Wf
      <3>2. 0 # x /\ 0 # n
        BY <3>1, <1>0, <1>2, <1>3, <1>4
      <3> QED
        BY <3>1, <3>2, <1>7, <1>8
    <2>3. \E a \in D \ {x} : T[a].next = NULL
      <3>1. PICK a \in D : B[a].next = NULL
        BY DEF Wf
      <3>2. CASE a = x
        BY <3>1, <3>2, <1>3, <1>7
      <3>3. CASE a # x
        BY <3>1, <3>3, <1>7, <1>8
      <3> QED
        BY <3>2, <3>3
    <2>4. ASSUME NEW a \in D \ {x}
          PROVE  /\ a % ALIGN = 0 /\ End(T, a) <= cur
                 /\ T[a].next = NULL => End(T, a) = cur
      <3>1. CASE a = b
        <4>1. /\ b % ALIGN = 0 /\ End(B, x) <= cur
              /\ n = NULL => End(B, x) = cur
          BY <1>3 DEF Wf
        <4> QED
          BY <4>1, <3>1, <1>7, <1>9
      <3>2. CASE a # b
        <4>1. /\ a % ALIGN = 0 /\ End(B, a) <= cur
              /\ B[a].next = NULL => End(B, a) = cur
          BY DEF Wf
        <4> QED
          BY <4>1, <3>2, <1>8, <1>9
      <3> QED
        BY <3>1, <3>2
    <2>5. ASSUME NEW a \in D \ {x}, T[a].next # NULL
          PROVE  /\ T[a].next = End(T, a) /\ T[a].next \in D \ {x}
                 /\ T[T[a].next].prev = a
      <3>1. CASE a = b
        BY <3>1, <2>5, <1>4, <1>7, <1>9
      <3>2. CASE a # b
        <4>0. T[a].next = B[a].next
          BY <3>2, <1>8
        <4>1. T[a].next = End(B, a) /\ T[a].next \in D /\ B[T[a].next].prev = a
          BY <4>0, <2>5, Zenon DEF Wf
        <4>2. T[a].next # x /\ T[a].next # n
          BY <4>1, <3>2, <2>5, <1>3, <1>4
        <4>3. T[T[a].next].prev = a
          BY <4>1, <4>2, <1>7, <1>8
        <4> QED
          BY <4>1, <4>2, <4>3, <3>2, <1>9
      <3> QED
        BY <3>1, <3>2
    <2>6. ASSUME NEW a \in D \ {x}, T[a].prev # NULL
          PROVE  T[a].prev \in D \ {x} /\ T[T[a].prev].next = a
      <3>1. CASE a = n
        <4>1. n # NULL
          BY <3>1, <1>0, <1>2
        <4> QED
          BY <4>1, <3>1, <1>3, <1>7
      <3>2. CASE a # n
        <4>1. T[a].prev = B[a].prev
          BY <3>2, <1>7, <1>8
        <4>2. T[a].prev \in D /\ B[T[a].prev].next = a
          BY <4>1, <2>6, Zenon DEF Wf
        <4>3. T[a].prev # b /\ T[a].prev # x
          BY <4>2, <3>2, <1>3
        <4>4. T[T[a].prev].next = B[T[a].prev].next
          BY <4>2, <4>3, <1>8, Zenon
        <4> QED
          BY <4>2, <4>3, <4>4
      <3> QED
        BY <3>1, <3>2
    <2>7. ASSUME NEW a \in D \ {x}, NEW c \in D \ {x}, a < c
          PROVE  End(T, a) <= c
      <3>1. CASE a = b
        <4>1. End(B, b) <= c
          BY <3>1, <2>7 DEF Wf
        <4>2. x < c
          BY <4>1, <1>2, <1>3
        <4> QED
          BY <4>2, <3>1, <1>3, <1>9 DEF Wf
      <3>2. CASE a # b
        BY <3>2, <2>7, <1>9 DEF Wf
      <3> QED
        BY <3>1, <3>2
    <2> QED
      BY <2>1, <2>2, <2>3, <2>4, <2>5, <2>6, <2>7 DEF Wf
  <1>11. Co(T, D \ {x}, X \ {b}, Y \ {x})
    <2>1. ASSUME NEW a \in D \ {x}, T[a].magic = "FREE", T[a].next # NULL,
                 a \notin X \ {b}, T[a].next \notin Y \ {x}, T[T[a].next].magic = "FREE"
          PROVE  T[a].next % CHUNK = 0
      <3>1. CASE a = b
        <4>1. T[a].next = n /\ B[n].magic = "FREE"
          BY <3>1, <2>1, <1>7
        <4> QED
          BY <4>1, <2>1, <1>3, <1>4 DEF Co
      <3>2. CASE a # b
        <4>0. T[a].next = B[a].next /\ B[a].magic = "FREE"
          BY <3>2, <2>1, <1>8
        <4>1. T[a].next \in D /\ B[T[a].next].prev = a
          BY <4>0, <2>1, Zenon DEF Wf
        <4>2. T[a].next # x
          BY <4>1, <3>2, <1>3
        <4>3. B[B[a].next].magic = "FREE"
          BY <4>0, <4>1, <4>2, <2>1, <1>7, <1>8
        <4> QED
          BY <4>0, <4>2, <4>3, <3>2, <2>1 DEF Co
      <3> QED
        BY <3>1, <3>2
    <2> QED
      BY <2>1 DEF Co
  <1> QED
    BY <1>3, <1>5, <1>10, <1>11

\* A chunk is added behind the last block.
LEMMA ExtendWf ==
  ASSUME NEW B, NEW D, NEW cur, Wf(B, D, cur), Co(B, D, {}, {}),
         NEW ext \in Nat, ext % CHUNK = 0, ext >= HDR_SIZE, cur + ext <= HEAP_SIZE,
         NEW tail \in D, B[tail].next = NULL,
         NEW T \in [D \cup {cur} -> Blk],
         T[cur] = Header("FREE", ext - HDR_SIZE, NULL, tail),
         T[tail] = Header(B[tail].magic, B[tail].size, cur, B[tail].prev),
         \A a \in D : a # tail => T[a] = B[a]
  PROVE  cur \notin D /\ Wf(T, D \cup {cur}, cur + ext) /\ Co(T, D \cup {cur}, {}, {})
  <1>0. NULL \notin Nat
    BY DEF NULL
  <1>1. /\ HDR_SIZE \in Nat \ {0} /\ ALIGN \in Nat \ {0} /\ CHUNK \in Nat \ {0}
        /\ CHUNK % ALIGN = 0 /\ HEAP_SIZE \in Nat
    BY KheapConstants
  <1>2. /\ D \subseteq Nat /\ B \in [D -> Blk] /\ cur \in Nat /\ cur % CHUNK = 0
        /\ \A a \in D : B[a].size \in Nat /\ a \in Nat /\ End(B, a) \in Nat /\ a < End(B, a)
        /\ \A a \in D : End(B, a) <= cur
    <2>1. \A a \in D : End(B, a) <= cur
      BY DEF Wf
    <2>2. D \subseteq Nat /\ B \in [D -> Blk] /\ cur \in Nat /\ cur % CHUNK = 0
      BY DEF Wf
    <2> QED
      BY <2>1, <2>2, <1>1 DEF Blk, End
  <1>3. cur \notin D
    BY <1>2
  <1>4. End(B, tail) = cur
    BY DEF Wf
  <1>5. \A a \in D : B[a].next = NULL => a = tail
    <2>1. ASSUME NEW a \in D, B[a].next = NULL PROVE a = tail
      <3>1. End(B, a) = cur
        BY <2>1 DEF Wf
      <3>2. ~(a < tail) /\ ~(tail < a)
        BY <3>1, <1>2, <1>4 DEF Wf
      <3> QED
        BY <3>2, <1>2
    <2> QED
      BY <2>1
  <1>6. cur % ALIGN = 0 /\ (cur + ext) % CHUNK = 0
    BY <1>1, <1>2, Multiples
  <1>7. /\ T[cur].magic = "FREE" /\ T[cur].size = ext - HDR_SIZE
        /\ T[cur].next = NULL /\ T[cur].prev = tail
        /\ T[tail].magic = B[tail].magic /\ T[tail].size = B[tail].size
        /\ T[tail].next = cur /\ T[tail].prev = B[tail].prev
    BY DEF Header
  <1>8. \A a \in D :
          /\ T[a].magic = B[a].magic /\ T[a].size = B[a].size /\ T[a].prev = B[a].prev
          /\ a # tail => T[a].next = B[a].next
    BY <1>7
  <1>9. End(T, cur) = cur + ext /\ \A a \in D : End(T, a) = End(B, a)
    BY <1>1, <1>2, <1>7, <1>8 DEF End
  <1>10. Wf(T, D \cup {cur}, cur + ext)
    <2>1. /\ cur + ext \in Nat /\ cur + ext <= HEAP_SIZE /\ (cur + ext) % CHUNK = 0
          /\ D \cup {cur} \subseteq Nat /\ T \in [D \cup {cur} -> Blk]
      BY <1>2, <1>6
    <2>2. 0 \in D \cup {cur} /\ T[0].prev = NULL
      BY <1>8 DEF Wf
    <2>3. \E a \in D \cup {cur} : T[a].next = NULL
      BY <1>7
    <2>4. ASSUME NEW a \in D \cup {cur}
          PROVE  /\ a % ALIGN = 0 /\ End(T, a) <= cur + ext
                 /\ T[a].next = NULL => End(T, a) = cur + ext
      <3>1. CASE a = cur
        BY <3>1, <1>2, <1>6, <1>9
      <3>2. CASE a \in D
        <4>1. a % ALIGN = 0
          BY <3>2 DEF Wf
        <4>2. T[a].next # NULL
          BY <3>2, <1>0, <1>2, <1>5, <1>7, <1>8
        <4> QED
          BY <4>1, <4>2, <3>2, <1>2, <1>9
      <3> QED
        BY <3>1, <3>2
    <2>5. ASSUME NEW a \in D \cup {cur}, T[a].next # NULL
          PROVE  /\ T[a].next = End(T, a) /\ T[a].next \in D \cup {cur}
                 /\ T[T[a].next].prev = a
      <3>1. CASE a = tail
        BY <3>1, <1>4, <1>7, <1>9
      <3>2. CASE a # tail
        <4>0. a \in D /\ T[a].next = B[a].next
          BY <3>2, <2>5, <1>7, <1>8
        <4>1. T[a].next = End(B, a) /\ T[a].next \in D /\ B[T[a].next].prev = a
          BY <4>0, <2>5, Zenon DEF Wf
        <4> QED
          BY <4>0, <4>1, <1>8, <1>9
      <3> QED
        BY <3>1, <3>2
    <2>6. ASSUME NEW a \in D \cup {cur}, T[a].prev # NULL
          PROVE  T[a].prev \in D \cup {cur} /\ T[T[a].prev].next = a
      <3>1. CASE a = cur
        BY <3>1, <1>7
      <3>2. CASE a \in D
        <4>1. T[a].prev = B[a].prev
          BY <3>2, <1>8
        <4>2. T[a].prev \in D /\ B[T[a].prev].next = a
          BY <4>1, <3>2, <2>6, Zenon DEF Wf
        <4>3. T[a].prev # tail
          BY <4>2, <3>2, <1>0, <1>2
        <4>4. T[T[a].prev].next = B[T[a].prev].next
          BY <4>2, <4>3, <1>8, Zenon
        <4> QED
          BY <4>2, <4>4
      <3> QED
        BY <3>1, <3>2
    <2>7. ASSUME NEW a \in D \cup {cur}, NEW c \in D \cup {cur}, a < c
          PROVE  End(T, a) <= c
      <3>1. CASE a = cur
        BY <3>1, <2>7, <1>2
      <3>2. CASE a \in D /\ c = cur
        BY <3>2, <1>2, <1>9
      <3>3. CASE a \in D /\ c \in D
        BY <3>3, <2>7, <1>9 DEF Wf
      <3> QED
        BY <3>1, <3>2, <3>3
    <2> QED
      BY <2>1, <2>2, <2>3, <2>4, <2>5, <2>6, <2>7 DEF Wf
  <1>11. Co(T, D \cup {cur}, {}, {})
    <2>1. ASSUME NEW a \in D \cup {cur}, T[a].magic = "FREE", T[a].next # NULL,
                 T[T[a].next].magic = "FREE"
          PROVE  T[a].next % CHUNK = 0
      <3>1. CASE a = tail
        BY <3>1, <1>2, <1>7
      <3>2. CASE a # tail
        <4>0. a \in D /\ T[a].next = B[a].next /\ B[a].magic = "FREE"
          BY <3>2, <2>1, <1>7, <1>8
        <4>1. T[a].next \in D
          BY <4>0, <2>1, Zenon DEF Wf
        <4>2. B[B[a].next].magic = "FREE"
          BY <4>0, <4>1, <2>1, <1>8
        <4> QED
          BY <4>0, <4>2, <2>1 DEF Co
      <3> QED
        BY <3>1, <3>2
    <2> QED
      BY <2>1 DEF Co
  <1> QED
    BY <1>3, <1>10, <1>11

\* A block changes its mark.
LEMMA MarkWf ==
  ASSUME NEW B, NEW D, NEW cur, Wf(B, D, cur), Co(B, D, {}, {}), NEW b \in D,
         NEW T \in [D -> Blk],
         T[b].size = B[b].size /\ T[b].next = B[b].next /\ T[b].prev = B[b].prev,
         \A a \in D : a # b => T[a] = B[a]
  PROVE  /\ Wf(T, D, cur) /\ Co(T, D, {b}, {b})
         /\ T[b].magic = "USED" => Co(T, D, {}, {})
  <1>1. \A a \in D : T[a].size = B[a].size /\ T[a].next = B[a].next /\ T[a].prev = B[a].prev
    OBVIOUS
  <1>2. \A a \in D : End(T, a) = End(B, a)
    BY <1>1 DEF End
  <1>3. Wf(T, D, cur)
    <2>1. /\ cur \in Nat /\ cur <= HEAP_SIZE /\ cur % CHUNK = 0
          /\ D \subseteq Nat /\ T \in [D -> Blk]
          /\ 0 \in D /\ T[0].prev = NULL /\ \E a \in D : T[a].next = NULL
      BY <1>1 DEF Wf
    <2>2. ASSUME NEW a \in D
          PROVE  /\ a % ALIGN = 0 /\ End(T, a) <= cur
                 /\ T[a].next = NULL => End(T, a) = cur
      BY <1>1, <1>2 DEF Wf
    <2>3. ASSUME NEW a \in D, T[a].next # NULL
          PROVE  T[a].next = End(T, a) /\ T[a].next \in D /\ T[T[a].next].prev = a
      <3>1. B[a].next = End(B, a) /\ B[a].next \in D /\ B[B[a].next].prev = a
        BY <2>3, <1>1 DEF Wf
      <3> QED
        BY <3>1, <1>1, <1>2
    <2>4. ASSUME NEW a \in D, T[a].prev # NULL
          PROVE  T[a].prev \in D /\ T[T[a].prev].next = a
      <3>1. B[a].prev \in D /\ B[B[a].prev].next = a
        BY <2>4, <1>1 DEF Wf
      <3> QED
        BY <3>1, <1>1
    <2>5. \A a, c \in D : a < c => End(T, a) <= c
      BY <1>2 DEF Wf
    <2> QED
      BY <2>1, <2>2, <2>3, <2>4, <2>5 DEF Wf
  <1>4. ASSUME NEW a \in D, T[a].magic = "FREE", T[a].next # NULL, T[T[a].next].magic = "FREE",
               a # b /\ T[a].next # b
        PROVE  T[a].next % CHUNK = 0
    <2>1. T[a].next = B[a].next /\ T[a].next \in D /\ B[a].magic = "FREE"
      BY <1>1, <1>3, <1>4 DEF Wf
    <2>2. B[B[a].next].magic = "FREE"
      BY <2>1, <1>4
    <2> QED
      BY <2>1, <2>2, <1>4 DEF Co
  <1> QED
    BY <1>3, <1>4 DEF Co

-----------------------------------------------------------------------------
(* What the operators of Kheap do.                                         *)

\* Writing a field of a header.
LEMMA Fields ==
  ASSUME NEW r \in Blk, NEW v
  PROVE  /\ r = Header(r.magic, r.size, r.next, r.prev)
         /\ [r EXCEPT !.magic = v] = Header(v, r.size, r.next, r.prev)
         /\ [r EXCEPT !.size = v]  = Header(r.magic, v, r.next, r.prev)
         /\ [r EXCEPT !.next = v]  = Header(r.magic, r.size, v, r.prev)
         /\ [r EXCEPT !.prev = v]  = Header(r.magic, r.size, r.next, v)
  BY DEF Blk, Header

\* A free block that is large enough is split and marked.
LEMMA TakenIs ==
  ASSUME NEW B, NEW D, NEW cur, Wf(B, D, cur), Co(B, D, {}, {}),
         NEW b \in D, B[b].magic = "FREE",
         NEW need \in Nat, need % ALIGN = 0, B[b].size >= need,
         NEW T, T = Taken(B, b, need)
  PROVE  \E E : /\ Wf(T, E, cur) /\ Co(T, E, {}, {}) /\ D \subseteq E
                /\ T[b].magic = "USED" /\ T[b].size >= need
                /\ \A a \in D : a # b => T[a].magic = B[a].magic /\ T[a].size = B[a].size
                /\ \A a \in E \ D : T[a].magic = "FREE"
  <1>1. /\ HDR_SIZE \in Nat \ {0} /\ MIN_ALLOC \in Nat \ {0}
    BY KheapConstants
  <1>2. D \subseteq Nat /\ B \in [D -> Blk] /\ B[b].size \in Nat /\ b \in Nat /\ DOMAIN B = D
    BY DEF Wf, Blk
  <1>3. CASE B[b].size < need + HDR_SIZE + MIN_ALLOC
    <2>1. T = [B EXCEPT ![b].magic = "USED"]
      BY <1>3 DEF Taken, split_block
    <2>2. T \in [D -> Blk] /\ T[b] = [B[b] EXCEPT !.magic = "USED"] /\ \A a \in D : a # b => T[a] = B[a]
      BY <2>1, <1>2 DEF Blk
    <2>3. T[b].magic = "USED" /\ T[b].size = B[b].size /\ T[b].next = B[b].next /\ T[b].prev = B[b].prev
      BY <2>2, <1>2 DEF Blk
    <2>4. Wf(T, D, cur) /\ Co(T, D, {}, {})
      <3>1. T \in [D -> Blk] /\ \A a \in D : a # b => T[a] = B[a]
        BY <2>2
      <3>2. T \in [D -> Blk]
        BY <3>1
      <3>3. T[b].size = B[b].size /\ T[b].next = B[b].next /\ T[b].prev = B[b].prev
        BY <2>3
      <3>4. \A a \in D : a # b => T[a] = B[a]
        BY <3>1
      <3>5. Wf(T, D, cur)
        BY <3>2, <3>3, <3>4, MarkWf
      <3>6. Co(T, D, {b}, {b}) /\ (T[b].magic = "USED" => Co(T, D, {}, {}))
        BY <3>2, <3>3, <3>4, MarkWf
      <3> QED
        BY <3>5, <3>6, <2>3
    <2> WITNESS D
    <2> QED
      BY <2>2, <2>3, <2>4
  <1>4. CASE ~(B[b].size < need + HDR_SIZE + MIN_ALLOC)
    <2> DEFINE nb  == b + HDR_SIZE + need
               old == B[b].next
               E   == D \cup {nb}
               cut == [a \in E |-> IF a = nb THEN Header("FREE", B[b].size - need - HDR_SIZE, old, b)
                                   ELSE B[a]]
               P   == SetPrev(cut, old, nb)
    <2>1. T = [[P EXCEPT ![b].next = nb, ![b].size = need] EXCEPT ![b].magic = "USED"]
      BY <1>2, <1>4 DEF Taken, split_block
    <2>2. B[b].size >= need + HDR_SIZE + MIN_ALLOC /\ nb \in Nat /\ nb # b
      BY <1>1, <1>2, <1>4
    <2>3. nb \notin D
      BY <2>2, <1>1, <1>2 DEF Wf, End
    <2>4. old \in Nat \cup {NULL} /\ (old # NULL => old \in D /\ old # b)
      <3>1. old \in Nat \cup {NULL}
        BY <1>2 DEF Blk
      <3>2. old # NULL => old \in D /\ old = End(B, b)
        BY DEF Wf
      <3> QED
        BY <3>1, <3>2, <1>1, <1>2 DEF End
    <2>5. B[b].size - need - HDR_SIZE \in Nat
      BY <2>2, <1>1, <1>2
    <2>6. /\ cut \in [E -> Blk] /\ cut[nb] = Header("FREE", B[b].size - need - HDR_SIZE, old, b)
          /\ \A a \in D : cut[a] = B[a]
      <3>1. Header("FREE", B[b].size - need - HDR_SIZE, old, b) \in Blk
        BY <2>4, <2>5, <1>2 DEF Header, Blk
      <3> QED
        BY <3>1, <2>3, <1>2
    <2> HIDE DEF nb, old, cut
    <2>7. /\ P \in [E -> Blk] /\ P[nb] = cut[nb] /\ P[b] = B[b]
          /\ \A a \in D : a # old => P[a] = B[a]
          /\ old # NULL => P[old] = [B[old] EXCEPT !.prev = nb]
      <3>1. CASE old = NULL
        BY <3>1, <2>6 DEF SetPrev
      <3>2. CASE old # NULL
        <4>1. P = [cut EXCEPT ![old] = [cut[old] EXCEPT !.prev = nb]]
          BY <3>2 DEF SetPrev
        <4>2. cut[old] \in Blk /\ [cut[old] EXCEPT !.prev = nb] \in Blk
          BY <3>2, <2>2, <2>4, <2>6 DEF Blk
        <4> QED
          BY <4>1, <4>2, <3>2, <2>3, <2>4, <2>6
      <3> QED
        BY <3>1, <3>2
    <2> HIDE DEF P
    <2>8. T = [P EXCEPT ![b] = [magic |-> "USED", size |-> need, next |-> nb, prev |-> B[b].prev]]
      <3>1. B[b] \in Blk /\ b \in E
        BY <1>2
      <3>2. [[[B[b] EXCEPT !.next = nb] EXCEPT !.size = need] EXCEPT !.magic = "USED"]
              = [magic |-> "USED", size |-> need, next |-> nb, prev |-> B[b].prev]
        <4>1. [B[b] EXCEPT !.next = nb] = Header(B[b].magic, B[b].size, nb, B[b].prev)
          BY <3>1, Fields
        <4>2. [Header(B[b].magic, B[b].size, nb, B[b].prev) EXCEPT !.size = need]
                = Header(B[b].magic, need, nb, B[b].prev)
          BY DEF Header
        <4>3. [Header(B[b].magic, need, nb, B[b].prev) EXCEPT !.magic = "USED"]
                = Header("USED", need, nb, B[b].prev)
          BY DEF Header
        <4> QED
          BY <4>1, <4>2, <4>3 DEF Header
      <3> QED
        BY <3>1, <3>2, <2>1, <2>7
    <2>9. /\ T \in [E -> Blk] /\ T[nb] = Header("FREE", B[b].size - need - HDR_SIZE, old, b)
          /\ T[b] = Header("USED", need, nb, B[b].prev)
          /\ \A a \in D : a # b /\ a # old => T[a] = B[a]
      <3>1. [magic |-> "USED", size |-> need, next |-> nb, prev |-> B[b].prev] \in Blk
        BY <2>2, <1>2 DEF Blk
      <3> QED
        BY <3>1, <2>2, <2>6, <2>7, <2>8 DEF Header
    <2>10. old # NULL => T[old] = Header(B[old].magic, B[old].size, B[old].next, nb)
      BY <2>4, <2>7, <2>8, <1>2 DEF Header, Blk
    <2>11. Wf(T, E, cur) /\ Co(T, E, {}, {})
      <3>1. nb = b + HDR_SIZE + need /\ old = B[b].next
        BY DEF nb, old
      <3> QED
        BY <3>1, <2>2, <2>9, <2>10, SplitWf
    <2>12. T[b].magic = "USED" /\ T[b].size = need /\ T[nb].magic = "FREE"
      BY <2>9 DEF Header
    <2>13. \A a \in D : a # b => T[a].magic = B[a].magic /\ T[a].size = B[a].size
      <3>1. \A a \in D : a # b /\ a # old => T[a].magic = B[a].magic /\ T[a].size = B[a].size
        BY <2>9
      <3>2. old # NULL => T[old].magic = B[old].magic /\ T[old].size = B[old].size
        BY <2>10 DEF Header
      <3>3. \A a \in D : a = old => old # NULL
        BY <1>2 DEF NULL
      <3> QED
        BY <3>1, <3>2, <3>3
    <2> WITNESS E
    <2> QED
      BY <2>11, <2>12, <2>13
  <1> QED
    BY <1>3, <1>4

\* The blocks at E are marked as they were and, b apart, as large.
Same(T, B, E, b) == \A a \in E : T[a].magic = B[a].magic /\ (a # b => T[a].size = B[a].size)

\* T is what is left when the free block at b takes over the one at x, with
\* the one at n behind it.
Joined(B, D, cur, X, Y, b, x, n, T) ==
  /\ Wf(B, D, cur) /\ Co(B, D, X, Y)
  /\ b \in D /\ B[b].magic = "FREE" /\ x = B[b].next /\ x # NULL /\ B[x].magic = "FREE"
  /\ n = B[x].next /\ x \notin X /\ n \notin Y
  /\ T = Absorb(B, b)

\* A free block takes over the free block after it.
LEMMA AbsorbIs ==
  ASSUME NEW B, NEW D, NEW cur, NEW X, NEW Y, NEW b, NEW x, NEW n, NEW T,
         Joined(B, D, cur, X, Y, b, x, n, T)
  PROVE  /\ x \in D /\ x # b
         /\ Wf(T, D \ {x}, cur) /\ Co(T, D \ {x}, X \ {b}, Y \ {x})
         /\ Same(T, B, D \ {x}, b)
  <1> SUFFICES ASSUME Wf(B, D, cur), Co(B, D, X, Y),
                      b \in D, B[b].magic = "FREE", x = B[b].next, x # NULL, B[x].magic = "FREE",
                      n = B[x].next, x \notin X, n \notin Y, T = Absorb(B, b)
               PROVE  /\ x \in D /\ x # b
                      /\ Wf(T, D \ {x}, cur) /\ Co(T, D \ {x}, X \ {b}, Y \ {x})
                      /\ Same(T, B, D \ {x}, b)
    BY DEF Joined
  <1>0. NULL \notin Nat
    BY DEF NULL
  <1>1. HDR_SIZE \in Nat \ {0}
    BY KheapConstants
  <1>2. D \subseteq Nat /\ B \in [D -> Blk] /\ DOMAIN B = D /\ \A a \in D : B[a] \in Blk /\ B[a].size \in Nat
    BY DEF Wf, Blk
  <1>3. x \in D /\ x = End(B, b)
    BY Zenon DEF Wf
  <1>4. x # b
    BY <1>1, <1>2, <1>3 DEF End
  <1>5. n # NULL => n \in D /\ n = End(B, x)
    BY <1>3, Zenon DEF Wf
  <1>6. n # NULL => n # b /\ n # x
    BY <1>1, <1>2, <1>3, <1>5 DEF End
  <1> DEFINE G == [B EXCEPT ![b].size = @ + HDR_SIZE + B[x].size, ![b].next = n]
             S == SetPrev(G, n, b)
             H == Header("FREE", B[b].size + HDR_SIZE + B[x].size, n, B[b].prev)
  <1>7. G = [B EXCEPT ![b] = H]
    <2>1. [B[b] EXCEPT !.size = B[b].size + HDR_SIZE + B[x].size]
            = Header("FREE", B[b].size + HDR_SIZE + B[x].size, B[b].next, B[b].prev)
      BY <1>2, Fields
    <2>2. [Header("FREE", B[b].size + HDR_SIZE + B[x].size, B[b].next, B[b].prev) EXCEPT !.next = n] = H
      BY DEF Header
    <2> QED
      BY <2>1, <2>2, <1>2
  <1>8. H \in Blk
    BY <1>1, <1>2, <1>3, <1>5 DEF Header, Blk
  <1>9. T = [a \in D \ {x} |-> S[a]]
    BY <1>2 DEF Absorb
  <1> HIDE DEF G
  <1>10. /\ G \in [D -> Blk] /\ G[b] = H /\ \A a \in D : a # b => G[a] = B[a]
    BY <1>2, <1>7, <1>8
  <1>11. /\ S \in [D -> Blk] /\ S[b] = H
         /\ \A a \in D : a # b /\ a # n => S[a] = B[a]
         /\ n # NULL => S[n] = Header(B[n].magic, B[n].size, B[n].next, b)
    <2>1. CASE n = NULL
      BY <2>1, <1>10 DEF SetPrev
    <2>2. CASE n # NULL
      <3>1. S = [G EXCEPT ![n] = [G[n] EXCEPT !.prev = b]]
        BY <2>2 DEF SetPrev
      <3>2. [G[n] EXCEPT !.prev = b] = Header(B[n].magic, B[n].size, B[n].next, b)
        <4>1. G[n] = B[n] /\ B[n] \in Blk
          BY <2>2, <1>2, <1>5, <1>6, <1>10
        <4>2. [B[n] EXCEPT !.prev = b] = Header(B[n].magic, B[n].size, B[n].next, b)
          BY <4>1, Fields
        <4> QED
          BY <4>1, <4>2
      <3>3. Header(B[n].magic, B[n].size, B[n].next, b) \in Blk
        BY <2>2, <1>2, <1>5 DEF Header, Blk
      <3> DEFINE N == Header(B[n].magic, B[n].size, B[n].next, b)
      <3>4. S = [G EXCEPT ![n] = N] /\ N \in Blk
        BY <3>1, <3>2, <3>3
      <3> HIDE DEF N, S, H
      <3>5. /\ S \in [D -> Blk] /\ S[b] = H /\ S[n] = N
            /\ \A a \in D : a # b /\ a # n => S[a] = B[a]
        BY <3>4, <2>2, <1>5, <1>6, <1>10
      <3> QED
        BY <3>5 DEF N
    <2> QED
      BY <2>1, <2>2
  <1> HIDE DEF S, H
  <1>12. /\ T \in [D \ {x} -> Blk] /\ T[b] = H
         /\ \A a \in D : a # b /\ a # x /\ a # n => T[a] = B[a]
         /\ n # NULL => T[n] = Header(B[n].magic, B[n].size, B[n].next, b)
    BY <1>4, <1>5, <1>6, <1>9, <1>11
  <1>13. Wf(T, D \ {x}, cur) /\ Co(T, D \ {x}, X \ {b}, Y \ {x})
    <2>1. T \in [D \ {x} -> Blk]
      BY <1>12
    <2>2. T[b] = Header("FREE", B[b].size + HDR_SIZE + B[x].size, n, B[b].prev)
      BY <1>12 DEF H
    <2>3. n # NULL => T[n] = Header(B[n].magic, B[n].size, B[n].next, b)
      BY <1>12
    <2>4. \A a \in D : a # b /\ a # x /\ a # n => T[a] = B[a]
      BY <1>12
    <2> QED
      BY <2>1, <2>2, <2>3, <2>4, AbsorbWf
  <1>14. T[b].magic = B[b].magic /\ T[b].prev = B[b].prev
    BY <1>12 DEF H, Header
  <1>15. ASSUME NEW a \in D \ {x}, a # b PROVE T[a].magic = B[a].magic /\ T[a].size = B[a].size
    <2>1. CASE a # n
      BY <2>1, <1>12, <1>15
    <2>2. CASE a = n
      <3>1. n # NULL
        BY <2>2, <1>0, <1>2
      <3> QED
        BY <3>1, <2>2, <1>12 DEF Header
    <2> QED
      BY <2>1, <2>2
  <1> QED
    BY <1>3, <1>4, <1>13, <1>14, <1>15 DEF Same

\* The heap grows by a free block at its end.
LEMMA ExtendedIs ==
  ASSUME NEW B, NEW D, Wf(B, D, heap_cur), Co(B, D, {}, {}),
         NEW ext \in Nat, ext % CHUNK = 0, ext >= HDR_SIZE, heap_cur + ext <= HEAP_SIZE,
         NEW T, T = Extended(B, ext)
  PROVE  /\ heap_cur \notin D
         /\ Wf(T, D \cup {heap_cur}, heap_cur + ext) /\ Co(T, D \cup {heap_cur}, {}, {})
         /\ T[heap_cur].magic = "FREE" /\ T[heap_cur].size = ext - HDR_SIZE
         /\ \A a \in D : T[a].magic = B[a].magic /\ T[a].size = B[a].size
  <1>1. HDR_SIZE \in Nat \ {0}
    BY KheapConstants
  <1>2. /\ D \subseteq Nat /\ B \in [D -> Blk] /\ DOMAIN B = D /\ \A a \in D : B[a] \in Blk /\ B[a].size \in Nat
        /\ heap_cur \in Nat
    BY DEF Wf, Blk
  <1> DEFINE tail == LastBlock(B)
  <1>3. tail \in D /\ B[tail].next = NULL
    <2>1. \E a \in D : B[a].next = NULL
      BY DEF Wf
    <2> QED
      BY <2>1, <1>2 DEF LastBlock
  <1>4. heap_cur \notin D
    <2>1. \A a \in D : End(B, a) <= heap_cur
      BY DEF Wf
    <2> QED
      BY <2>1, <1>1, <1>2 DEF End
  <1>5. T = [a \in D \cup {heap_cur} |->
               IF a = heap_cur THEN Header("FREE", ext - HDR_SIZE, NULL, tail)
               ELSE IF a = tail THEN [B[a] EXCEPT !.next = heap_cur] ELSE B[a]]
    BY <1>2 DEF Extended
  <1> HIDE DEF tail
  <1>6. [B[tail] EXCEPT !.next = heap_cur] = Header(B[tail].magic, B[tail].size, heap_cur, B[tail].prev)
    BY <1>2, <1>3, Fields
  <1>7. /\ T[heap_cur] = Header("FREE", ext - HDR_SIZE, NULL, tail)
        /\ T[tail] = Header(B[tail].magic, B[tail].size, heap_cur, B[tail].prev)
        /\ \A a \in D : a # tail => T[a] = B[a]
    BY <1>3, <1>4, <1>5, <1>6
  <1>8. T \in [D \cup {heap_cur} -> Blk]
    <2>1. Header("FREE", ext - HDR_SIZE, NULL, tail) \in Blk
      BY <1>1, <1>2, <1>3 DEF Header, Blk
    <2>2. Header(B[tail].magic, B[tail].size, heap_cur, B[tail].prev) \in Blk
      BY <1>2, <1>3 DEF Header, Blk
    <2>3. \A a \in D \cup {heap_cur} : T[a] \in Blk
      BY <2>1, <2>2, <1>2, <1>7
    <2> QED
      BY <2>3, <1>5
  <1>9. Wf(T, D \cup {heap_cur}, heap_cur + ext) /\ Co(T, D \cup {heap_cur}, {}, {})
    BY <1>3, <1>7, <1>8, ExtendWf
  <1>10. /\ T[heap_cur].magic = "FREE" /\ T[heap_cur].size = ext - HDR_SIZE
         /\ T[tail].magic = B[tail].magic /\ T[tail].size = B[tail].size
    BY <1>7 DEF Header
  <1> QED
    BY <1>4, <1>7, <1>9, <1>10

\* First fit finds a block that is free and large enough, if there is one.
LEMMA FirstFitIs ==
  ASSUME NEW B, NEW D, D \subseteq Nat, B \in [D -> Blk], NEW size \in Nat, NEW b, b = FirstFit(B, size)
  PROVE  /\ b # NULL => b \in D /\ B[b].magic = "FREE" /\ B[b].size >= size
         /\ (\E a \in D : B[a].magic = "FREE" /\ B[a].size >= size) => b # NULL
  <1> DEFINE fits == {a \in D : B[a].magic = "FREE" /\ B[a].size >= size}
  <1>1. b = IF fits = {} THEN NULL ELSE CHOOSE a \in fits : \A x \in fits : a <= x
    BY DEF FirstFit
  <1>2. CASE fits = {}
    BY <1>1, <1>2
  <1>3. CASE fits # {}
    <2>1. fits \subseteq Nat
      OBVIOUS
    <2> HIDE DEF fits
    <2>2. b \in fits
      BY <2>1, <1>1, <1>3, Least
    <2>3. b # NULL
      BY <2>1, <2>2 DEF NULL
    <2> QED
      BY <2>2, <2>3 DEF fits
  <1> QED
    BY <1>2, <1>3

-----------------------------------------------------------------------------
(* What the clients hold.                                                  *)

\* The pointers in h lead to the blocks in use, one each.
Holds(B, D, h) ==
  /\ DOMAIN h \subseteq Int
  /\ \A p \in DOMAIN h : /\ h[p] \in Nat /\ p - HDR_SIZE \in D
                         /\ B[p - HDR_SIZE].magic = "USED" /\ B[p - HDR_SIZE].size >= h[p]
  /\ \A a \in D : B[a].magic = "USED" => a + HDR_SIZE \in DOMAIN h

\* The inductive invariant.
Full(B, D, cur, h) == Wf(B, D, cur) /\ Co(B, D, {}, {}) /\ Holds(B, D, h)

\* Blocks in use that are left alone are held as they were.
LEMMA HoldsKept ==
  ASSUME NEW B, NEW D, NEW h, Holds(B, D, h), NEW T, NEW E,
         \A a \in D : B[a].magic = "USED" => a \in E /\ T[a].magic = "USED" /\ T[a].size = B[a].size,
         \A a \in E : T[a].magic = "USED" => a \in D /\ B[a].magic = "USED"
  PROVE  Holds(T, E, h)
  BY DEF Holds

\* A fitting free block is handed out.
LEMMA TakenFull ==
  ASSUME NEW B, NEW D, NEW cur, NEW h, Full(B, D, cur, h),
         NEW b \in D, B[b].magic = "FREE",
         NEW need \in Nat, need % ALIGN = 0, B[b].size >= need, NEW n \in Nat, n <= need,
         NEW T, T = Taken(B, b, need), NEW p, p = b + HDR_SIZE
  PROVE  /\ \E E : Full(T, E, cur, Hold(h, p, n))
         /\ p \notin DOMAIN h /\ p \in Nat
  <1>1. HDR_SIZE \in Nat \ {0}
    BY KheapConstants
  <1>2. Wf(B, D, cur) /\ Co(B, D, {}, {}) /\ Holds(B, D, h)
    BY DEF Full
  <1>3. D \subseteq Nat /\ \A a \in D : B[a] \in Blk
    BY <1>2 DEF Wf
  <1>4. p \in Nat /\ p # NULL /\ p - HDR_SIZE = b
    BY <1>1, <1>3 DEF NULL
  <1>5. p \notin DOMAIN h
    BY <1>2, <1>4 DEF Holds
  <1>6. PICK E : /\ Wf(T, E, cur) /\ Co(T, E, {}, {}) /\ D \subseteq E
                 /\ T[b].magic = "USED" /\ T[b].size >= need
                 /\ \A a \in D : a # b => T[a].magic = B[a].magic /\ T[a].size = B[a].size
                 /\ \A a \in E \ D : T[a].magic = "FREE"
    BY <1>2, TakenIs
  <1>7. E \subseteq Nat /\ T[b].size \in Nat
    <2>1. E \subseteq Nat /\ T \in [E -> Blk]
      BY <1>6, Zenon DEF Wf
    <2> QED
      BY <2>1, <1>6 DEF Blk
  <1> DEFINE g == Hold(h, p, n)
  <1>8. DOMAIN g = DOMAIN h \cup {p} /\ g[p] = n /\ \A q \in DOMAIN h : q # p => g[q] = h[q]
    BY <1>4 DEF Hold
  <1> HIDE DEF g
  <1>9. Holds(T, E, g)
    <2>1. DOMAIN g \subseteq Int
      BY <1>2, <1>4, <1>8 DEF Holds
    <2>2. ASSUME NEW q \in DOMAIN g
          PROVE  /\ g[q] \in Nat /\ q - HDR_SIZE \in E
                 /\ T[q - HDR_SIZE].magic = "USED" /\ T[q - HDR_SIZE].size >= g[q]
      <3>1. CASE q = p
        BY <3>1, <1>4, <1>6, <1>7, <1>8
      <3>2. CASE q # p
        <4>1. /\ q \in DOMAIN h /\ g[q] = h[q] /\ h[q] \in Nat /\ q - HDR_SIZE \in D
              /\ B[q - HDR_SIZE].magic = "USED" /\ B[q - HDR_SIZE].size >= h[q]
          BY <3>2, <1>2, <1>8 DEF Holds
        <4>2. q - HDR_SIZE # b
          BY <4>1
        <4> QED
          BY <4>1, <4>2, <1>6
      <3> QED
        BY <3>1, <3>2
    <2>3. ASSUME NEW a \in E, T[a].magic = "USED" PROVE a + HDR_SIZE \in DOMAIN g
      <3>1. CASE a = b
        BY <3>1, <1>8
      <3>2. CASE a # b
        <4>1. a \in D /\ B[a].magic = "USED"
          BY <3>2, <2>3, <1>6
        <4> QED
          BY <4>1, <1>2, <1>8 DEF Holds
      <3> QED
        BY <3>1, <3>2
    <2> QED
      BY <2>1, <2>2, <2>3 DEF Holds
  <1> QED
    BY <1>4, <1>5, <1>6, <1>9 DEF Full, g

\* kmalloc keeps the invariant and returns a pointer nobody holds.
LEMMA MallocFull ==
  ASSUME NEW B, NEW D, NEW h, Full(B, D, heap_cur, h), NEW n \in Nat,
         NEW r, r = kmalloc(B, n)
  PROVE  /\ \E E : Full(r.B, E, r.cur, Hold(h, r.ptr, n))
         /\ r.ptr # NULL => r.ptr \notin DOMAIN h /\ r.ptr \in Nat
  <1>1. HDR_SIZE \in Nat \ {0} /\ ALIGN \in Nat \ {0} /\ CHUNK \in Nat \ {0} /\ HEAP_SIZE \in Nat
    BY KheapConstants
  <1>2. Wf(B, D, heap_cur) /\ Co(B, D, {}, {}) /\ Holds(B, D, h)
    BY DEF Full
  <1>3. D \subseteq Nat /\ B \in [D -> Blk] /\ heap_cur \in Nat
    BY <1>2 DEF Wf
  <1> DEFINE size == ALIGN_UP(n, ALIGN)
             b    == FirstFit(B, size)
             ext  == ALIGN_UP(size + HDR_SIZE, CHUNK)
             more == Extended(B, ext)
             nb   == FirstFit(more, size)
             N    == D \cup {heap_cur}
  <1>4. size \in Nat /\ size % ALIGN = 0 /\ size >= n
    BY <1>1, AlignUp
  <1>5. ext \in Nat /\ ext % CHUNK = 0 /\ ext >= size + HDR_SIZE
    <2> HIDE DEF size
    <2>1. size + HDR_SIZE \in Nat
      BY <1>1, <1>4
    <2> QED
      BY <2>1, <1>1, AlignUp
  <1>6. r = IF n = 0 THEN [B |-> B, cur |-> heap_cur, ptr |-> NULL]
            ELSE IF b # NULL
            THEN [B |-> Taken(B, b, size), cur |-> heap_cur, ptr |-> b + HDR_SIZE]
            ELSE IF heap_cur + ext > HEAP_SIZE
            THEN [B |-> B, cur |-> heap_cur, ptr |-> NULL]
            ELSE [B |-> Taken(more, nb, size), cur |-> heap_cur + ext,
                  ptr |-> nb + HDR_SIZE]
    BY DEF kmalloc
  <1> HIDE DEF size, ext
  <1>7. b # NULL => b \in D /\ B[b].magic = "FREE" /\ B[b].size >= size
    BY <1>3, <1>4, FirstFitIs
  <1> HIDE DEF b
  <1>8. CASE n = 0 \/ (b = NULL /\ heap_cur + ext > HEAP_SIZE)
    <2>1. r = [B |-> B, cur |-> heap_cur, ptr |-> NULL]
      BY <1>6, <1>8
    <2>2. Hold(h, r.ptr, n) = h
      BY <2>1 DEF Hold
    <2> QED
      BY <2>1, <2>2
  <1>9. CASE n # 0 /\ b # NULL
    <2>1. r.B = Taken(B, b, size) /\ r.cur = heap_cur /\ r.ptr = b + HDR_SIZE
      BY <1>6, <1>9
    <2>2. b \in D /\ B[b].magic = "FREE" /\ B[b].size >= size
      BY <1>7, <1>9
    <2> QED
      BY <2>1, <2>2, <1>4, TakenFull
  <1>10. CASE n # 0 /\ b = NULL /\ ~(heap_cur + ext > HEAP_SIZE)
    <2>1. r.B = Taken(more, nb, size) /\ r.cur = heap_cur + ext /\ r.ptr = nb + HDR_SIZE
      BY <1>6, <1>10
    <2>2. ext >= HDR_SIZE /\ heap_cur + ext <= HEAP_SIZE /\ ext - HDR_SIZE >= size
      BY <1>1, <1>3, <1>4, <1>5, <1>10
    <2>3. /\ heap_cur \notin D
          /\ Wf(more, N, heap_cur + ext) /\ Co(more, N, {}, {})
          /\ more[heap_cur].magic = "FREE" /\ more[heap_cur].size = ext - HDR_SIZE
          /\ \A a \in D : more[a].magic = B[a].magic /\ more[a].size = B[a].size
      <3>1. more = Extended(B, ext)
        OBVIOUS
      <3>2. /\ ext \in Nat /\ ext % CHUNK = 0 /\ ext >= HDR_SIZE /\ heap_cur + ext <= HEAP_SIZE
        BY <2>2, <1>5
      <3> HIDE DEF more
      <3>3. heap_cur \notin D /\ Wf(more, D \cup {heap_cur}, heap_cur + ext)
        BY <3>1, <3>2, <1>2, ExtendedIs
      <3>4. Co(more, D \cup {heap_cur}, {}, {})
        BY <3>1, <3>2, <1>2, ExtendedIs
      <3>5. more[heap_cur].magic = "FREE" /\ more[heap_cur].size = ext - HDR_SIZE
        BY <3>1, <3>2, <1>2, ExtendedIs
      <3>6. \A a \in D : more[a].magic = B[a].magic /\ more[a].size = B[a].size
        BY <3>1, <3>2, <3>3, <3>4, <1>2, ExtendedIs
      <3> QED
        BY <3>3, <3>4, <3>5, <3>6
    <2> HIDE DEF more
    <2>4. Holds(more, N, h)
      <3>1. \A a \in D : B[a].magic = "USED" => a \in N /\ more[a].magic = "USED" /\ more[a].size = B[a].size
        BY <2>3
      <3>2. \A a \in N : more[a].magic = "USED" => a \in D /\ B[a].magic = "USED"
        BY <2>3
      <3> HIDE DEF N
      <3> QED
        BY <3>1, <3>2, <1>2, HoldsKept
    <2>5. Full(more, N, heap_cur + ext, h)
      BY <2>3, <2>4 DEF Full
    <2>6. nb \in N /\ more[nb].magic = "FREE" /\ more[nb].size >= size
      <3>1. N \subseteq Nat /\ more \in [N -> Blk]
        BY <2>3, Zenon DEF Wf
      <3>2. \E a \in N : more[a].magic = "FREE" /\ more[a].size >= size
        BY <2>2, <2>3
      <3> HIDE DEF N
      <3> QED
        BY <3>1, <3>2, <1>4, FirstFitIs
    <2> HIDE DEF nb, N
    <2> QED
      BY <2>1, <2>5, <2>6, <1>4, TakenFull
  <1> QED
    BY <1>8, <1>9, <1>10

\* next leads to higher addresses.
LEMMA NextsAhead ==
  ASSUME NEW B, NEW D, NEW cur, Wf(B, D, cur), HDR_SIZE \in Nat \ {0}, NEW b \in D
  PROVE  /\ B[b].next # b
         /\ B[b].next # NULL => B[b].next \in D /\ B[B[b].next].next # b
  <1>1. D \subseteq Nat /\ \A a \in D : B[a].size \in Nat
    BY DEF Wf, Blk
  <1>2. \A a \in D : B[a].next # NULL => B[a].next = End(B, a) /\ B[a].next \in D
    BY Zenon DEF Wf
  <1>3. \A a \in D : End(B, a) \in Nat /\ a < End(B, a)
    BY <1>1 DEF End
  <1>4. \A a \in D : B[a].next # NULL => B[a].next \in D /\ a < B[a].next
    BY <1>2, <1>3
  <1>5. b # NULL
    BY <1>1 DEF NULL
  <1>6. B[b].next # b
    BY <1>1, <1>4, <1>5
  <1>7. ASSUME B[b].next # NULL PROVE B[B[b].next].next # b
    <2> DEFINE x == B[b].next
    <2>1. x \in D /\ b < x
      BY <1>4, <1>7
    <2>2. B[x].next # NULL => x < B[x].next /\ B[x].next \in D
      BY <2>1, <1>4
    <2> HIDE DEF x
    <2>3. B[x].next # b
      BY <2>1, <2>2, <1>1, <1>5
    <2> QED
      BY <2>3 DEF x
  <1> QED
    BY <1>4, <1>6, <1>7

\* kfree of a pointer that is held keeps the invariant.
LEMMA FreeFull ==
  ASSUME NEW B, NEW D, NEW cur, NEW h, Full(B, D, cur, h), NEW p \in DOMAIN h,
         NEW T, T = kfree(B, p)
  PROVE  \E E : Full(T, E, cur, Drop(h, p))
  <1>0. NULL \notin Nat
    BY DEF NULL
  <1>1. HDR_SIZE \in Nat \ {0}
    BY KheapConstants
  <1>2. Wf(B, D, cur) /\ Co(B, D, {}, {}) /\ Holds(B, D, h)
    BY DEF Full
  <1>3. D \subseteq Nat /\ B \in [D -> Blk] /\ DOMAIN B = D
    BY <1>2 DEF Wf
  <1> DEFINE b  == p - HDR_SIZE
             B1 == [B EXCEPT ![b].magic = "FREE"]
             B2 == IF B1[b].next # NULL /\ B1[B1[b].next].magic = "FREE"
                   THEN Absorb(B1, b) ELSE B1
             g  == Drop(h, p)
  <1>4. T = IF B2[b].prev # NULL /\ B2[B2[b].prev].magic = "FREE"
            THEN Absorb(B2, B2[b].prev) ELSE B2
    BY DEF kfree
  <1>5. b \in D /\ b \in Nat /\ p \in Int /\ b + HDR_SIZE = p
    BY <1>1, <1>2, <1>3 DEF Holds
  <1>6. DOMAIN g = DOMAIN h \ {p} /\ \A q \in DOMAIN g : g[q] = h[q]
    BY DEF Drop
  <1> HIDE DEF b, g
  \* The block is marked free.
  <1>7. /\ B1 \in [D -> Blk] /\ B1[b] = Header("FREE", B[b].size, B[b].next, B[b].prev)
        /\ \A a \in D : a # b => B1[a] = B[a]
    <2>1. B[b] \in Blk
      BY <1>3, <1>5
    <2>2. B1 = [B EXCEPT ![b] = [B[b] EXCEPT !.magic = "FREE"]]
      OBVIOUS
    <2>3. [B[b] EXCEPT !.magic = "FREE"] = Header("FREE", B[b].size, B[b].next, B[b].prev)
      BY <2>1, Fields
    <2>4. Header("FREE", B[b].size, B[b].next, B[b].prev) \in Blk
      BY <2>1 DEF Blk, Header
    <2> HIDE DEF B1
    <2> QED
      BY <2>2, <2>3, <2>4, <1>3, <1>5
  <1>8. B1[b].magic = "FREE" /\ B1[b].size = B[b].size /\ B1[b].next = B[b].next /\ B1[b].prev = B[b].prev
    BY <1>7 DEF Header
  <1> HIDE DEF B1
  <1>9. Wf(B1, D, cur) /\ Co(B1, D, {b}, {b})
    <2>1. B1 \in [D -> Blk] /\ \A a \in D : a # b => B1[a] = B[a]
      BY <1>7
    <2>2. B1 \in [D -> Blk]
      BY <2>1
    <2>3. \A a \in D : a # b => B1[a] = B[a]
      BY <2>1
    <2>4. B1[b].size = B[b].size /\ B1[b].next = B[b].next /\ B1[b].prev = B[b].prev
      BY <1>8
    <2> QED
      BY <2>2, <2>3, <2>4, <1>2, <1>5, MarkWf
  <1>10. Holds(B1, D, g)
    <2>1. ASSUME NEW q \in DOMAIN g
          PROVE  /\ q \in Int /\ g[q] \in Nat /\ q - HDR_SIZE \in D
                 /\ B1[q - HDR_SIZE].magic = "USED" /\ B1[q - HDR_SIZE].size >= g[q]
      <3>1. /\ q \in DOMAIN h /\ q # p /\ q \in Int /\ g[q] = h[q] /\ h[q] \in Nat /\ q - HDR_SIZE \in D
            /\ B[q - HDR_SIZE].magic = "USED" /\ B[q - HDR_SIZE].size >= h[q]
        BY <1>2, <1>6 DEF Holds
      <3>2. q - HDR_SIZE # b
        BY <3>1, <1>1, <1>5
      <3> QED
        BY <3>1, <3>2, <1>7
    <2>2. ASSUME NEW a \in D, B1[a].magic = "USED" PROVE a + HDR_SIZE \in DOMAIN g
      <3>1. a # b /\ B[a].magic = "USED"
        BY <2>2, <1>7, <1>8
      <3>2. a + HDR_SIZE \in DOMAIN h /\ a + HDR_SIZE # p
        BY <3>1, <1>1, <1>2, <1>3, <1>5 DEF Holds
      <3> QED
        BY <3>2, <1>6
    <2> QED
      BY <2>1, <2>2 DEF Holds
  \* It takes over the next block if that is free.
  <1>11. \E E : /\ b \in E /\ Wf(B2, E, cur) /\ Co(B2, E, {}, {b}) /\ Holds(B2, E, g)
                /\ B2[b].magic = "FREE"
    <2>1. CASE B1[b].next # NULL /\ B1[B1[b].next].magic = "FREE"
      <3> DEFINE x == B1[b].next
                 n == B1[x].next
      <3>1. B2 = Absorb(B1, b)
        BY <2>1
      <3>2. x # b /\ n # b /\ x \in D
        BY <2>1, <1>5, <1>9, <1>1, NextsAhead
      <3> HIDE DEF B2
      <3>3. /\ x \in D /\ x # b
            /\ Wf(B2, D \ {x}, cur) /\ Co(B2, D \ {x}, {b} \ {b}, {b} \ {x})
            /\ \A a \in D \ {x} : B2[a].magic = B1[a].magic /\ (a # b => B2[a].size = B1[a].size)
        <4>1. x = B1[b].next /\ x # NULL /\ B1[x].magic = "FREE" /\ n = B1[x].next /\ x \notin {b} /\ n \notin {b}
          BY <2>1, <3>2
        <4> DEFINE Z == {b}
        <4>2. x \notin Z /\ n \notin Z /\ Co(B1, D, Z, Z)
          BY <4>1, <1>9
        <4> HIDE DEF x, n, Z
        <4>3. x \in D /\ x # b
          BY <3>2
        <4>4. Joined(B1, D, cur, Z, Z, b, x, n, B2)
          BY <4>1, <4>2, <3>1, <1>5, <1>8, <1>9 DEF Joined
        <4>5. Wf(B2, D \ {x}, cur) /\ Co(B2, D \ {x}, Z \ {b}, Z \ {x})
          BY <4>4, AbsorbIs
        <4>6. Same(B2, B1, D \ {x}, b)
          BY <4>4, AbsorbIs
        <4> QED
          BY <4>3, <4>5, <4>6 DEF Z, Same
      <3>4. {b} \ {b} = {} /\ {b} \ {x} = {b} /\ b \in D \ {x}
        BY <3>2, <1>5
      <3>5. Co(B2, D \ {x}, {}, {b}) /\ B2[b].magic = "FREE"
        BY <3>3, <3>4, <1>8
      <3>6. Holds(B2, D \ {x}, g)
        <4>1. B1[x].magic = "FREE"
          BY <2>1
        <4> HIDE DEF x
        <4> DEFINE E == D \ {x}
        <4>2. \A a \in D : B1[a].magic = "USED" => a \in E /\ B2[a].magic = "USED" /\ B2[a].size = B1[a].size
          BY <4>1, <3>3, <1>8
        <4>3. \A a \in E : B2[a].magic = "USED" => a \in D /\ B1[a].magic = "USED"
          BY <3>3
        <4> HIDE DEF E
        <4>4. Holds(B2, E, g)
          BY <4>2, <4>3, <1>10, HoldsKept
        <4> QED
          BY <4>4 DEF E
      <3> HIDE DEF x
      <3> QED
        BY <3>3, <3>4, <3>5, <3>6
    <2>2. CASE ~(B1[b].next # NULL /\ B1[B1[b].next].magic = "FREE")
      <3>1. B2 = B1
        BY <2>2
      <3> HIDE DEF B2
      <3>2. Co(B1, D, {}, {b})
        BY <2>2, <1>9 DEF Co
      <3> QED
        BY <3>1, <3>2, <1>5, <1>8, <1>9, <1>10
    <2> QED
      BY <2>1, <2>2
  <1> HIDE DEF B2
  <1>12. PICK E : /\ b \in E /\ Wf(B2, E, cur) /\ Co(B2, E, {}, {b}) /\ Holds(B2, E, g)
                  /\ B2[b].magic = "FREE"
    BY <1>11
  \* The block before takes it over if that is free.
  <1>13. CASE B2[b].prev # NULL /\ B2[B2[b].prev].magic = "FREE"
    <2> DEFINE q == B2[b].prev
               n == B2[b].next
    <2>1. T = Absorb(B2, q) /\ q # NULL /\ B2[q].magic = "FREE"
      BY <1>4, <1>13
    <2>2. q \in E /\ B2[q].next = b
      BY <1>12, <1>13, Zenon DEF Wf
    <2>3. n # b /\ b # NULL
      <3>1. b # NULL
        BY <1>0, <1>5
      <3> QED
        BY <3>1, <1>1, <1>12, NextsAhead
    <2> HIDE DEF q
    <2>4. /\ b # q /\ Wf(T, E \ {b}, cur) /\ Co(T, E \ {b}, {} \ {q}, {b} \ {b})
          /\ \A a \in E \ {b} : T[a].magic = B2[a].magic /\ (a # q => T[a].size = B2[a].size)
      <3>1. n = B2[b].next /\ b \notin {} /\ n \notin {b}
        BY <2>3
      <3> DEFINE Z == {b}
                 O == {}
      <3>2. b \notin O /\ n \notin Z /\ Co(B2, E, O, Z)
        BY <3>1, <1>12
      <3> HIDE DEF n, Z, O
      <3>3. Joined(B2, E, cur, O, Z, q, b, n, T)
        BY <3>1, <3>2, <2>1, <2>2, <2>3, <1>12 DEF Joined
      <3>4. b # q
        BY <3>3, AbsorbIs
      <3>5. Wf(T, E \ {b}, cur) /\ Co(T, E \ {b}, O \ {q}, Z \ {b})
        BY <3>3, AbsorbIs
      <3>6. Same(T, B2, E \ {b}, q)
        BY <3>3, AbsorbIs
      <3> QED
        BY <3>4, <3>5, <3>6 DEF Z, O, Same
    <2>5. Co(T, E \ {b}, {}, {})
      <3>1. {} \ {q} = {} /\ {b} \ {b} = {}
        OBVIOUS
      <3> QED
        BY <3>1, <2>4
    <2> DEFINE F == E \ {b}
    <2>6. Holds(T, F, g)
      <3>1. \A a \in E : B2[a].magic = "USED" => a \in F /\ T[a].magic = "USED" /\ T[a].size = B2[a].size
        BY <2>1, <2>4, <1>12
      <3>2. \A a \in F : T[a].magic = "USED" => a \in E /\ B2[a].magic = "USED"
        BY <2>4
      <3> HIDE DEF F
      <3> QED
        BY <3>1, <3>2, <1>12, HoldsKept
    <2> WITNESS F
    <2> QED
      BY <2>4, <2>5, <2>6 DEF Full, g
  <1>14. CASE ~(B2[b].prev # NULL /\ B2[B2[b].prev].magic = "FREE")
    <2>1. T = B2
      BY <1>4, <1>14
    <2>2. Co(B2, E, {}, {})
      <3> SUFFICES ASSUME NEW a \in E, B2[a].magic = "FREE", B2[a].next # NULL,
                          B2[B2[a].next].magic = "FREE"
                   PROVE  B2[a].next % CHUNK = 0
        BY DEF Co
      <3>1. B2[B2[a].next].prev = a
        BY <1>12, Zenon DEF Wf
      <3>2. a # NULL
        BY <1>0, <1>12 DEF Wf
      <3>3. B2[a].next # b
        BY <3>1, <3>2, <1>14
      <3> QED
        BY <3>3, <1>12 DEF Co
    <2> WITNESS E
    <2> QED
      BY <2>1, <2>2, <1>12 DEF Full, g
  <1> QED
    BY <1>13, <1>14

-----------------------------------------------------------------------------
(* The theorems.                                                           *)

IInv == wrapped = {} => \E D : Full(blk, D, heap_cur, ptrs)

\* kmalloc_init leaves one free block.
LEMMA InitIInv ==
  ASSUME HeapInit
  PROVE  IInv
  <1>1. /\ HDR_SIZE \in Nat \ {0} /\ ALIGN \in Nat \ {0} /\ CHUNK \in Nat \ {0} /\ HEAP_SIZE \in Nat
        /\ HDR_SIZE < CHUNK /\ CHUNK <= HEAP_SIZE
    BY KheapConstants
  <1>2. 0 % ALIGN = 0 /\ CHUNK % CHUNK = 0
    BY <1>1
  <1>3. blk = [a \in {0} |-> Header("FREE", CHUNK - HDR_SIZE, NULL, NULL)] /\ heap_cur = CHUNK
    BY DEF HeapInit, heap_start
  <1>4. Header("FREE", CHUNK - HDR_SIZE, NULL, NULL) \in Blk
    BY <1>1 DEF Header, Blk
  <1>5. blk \in [{0} -> Blk] /\ blk[0] = Header("FREE", CHUNK - HDR_SIZE, NULL, NULL)
    BY <1>3, <1>4
  <1>6. blk[0].magic = "FREE" /\ blk[0].size = CHUNK - HDR_SIZE /\ blk[0].next = NULL /\ blk[0].prev = NULL
    BY <1>5 DEF Header
  <1>7. End(blk, 0) = heap_cur
    BY <1>1, <1>3, <1>6 DEF End
  <1>8. Wf(blk, {0}, heap_cur)
    BY <1>1, <1>2, <1>3, <1>5, <1>6, <1>7 DEF Wf
  <1>9. Co(blk, {0}, {}, {})
    BY <1>6 DEF Co
  <1>10. Holds(blk, {0}, ptrs)
    BY <1>6 DEF Holds, HeapInit
  <1> QED
    BY <1>8, <1>9, <1>10 DEF IInv, Full

\* Every call keeps it.
LEMMA NextIInv ==
  ASSUME IInv, [HeapNext]_heapVars
  PROVE  IInv'
  <1>0. HDR_SIZE \in Nat \ {0} /\ Sizes \subseteq Nat
    BY KheapConstants
  <1>w. SUFFICES ASSUME wrapped' = {} PROVE \E E : Full(blk', E, heap_cur', ptrs')
    BY DEF IInv
  <1>v. wrapped = {} /\ \A n \in Sizes : ~alloc_wraps(n)
    BY <1>w DEF HeapNext, heapVars, alloc, alloc_wraps, free, krealloc
  <1>1. PICK D : Full(blk, D, heap_cur, ptrs)
    BY <1>v DEF IInv
  <1>2. Holds(blk, D, ptrs)
    BY <1>1 DEF Full
  <1>3. ASSUME NEW n \in Sizes, alloc(n) PROVE \E E : Full(blk', E, heap_cur', ptrs')
    <2> DEFINE r == kmalloc(blk, n)
    <2>1. blk' = r.B /\ heap_cur' = r.cur /\ ptrs' = Hold(ptrs, r.ptr, n)
      BY <1>3 DEF alloc
    <2>2. r = kmalloc(blk, n) /\ n \in Nat
      BY <1>0
    <2> HIDE DEF r
    <2>3. \E E : Full(r.B, E, r.cur, Hold(ptrs, r.ptr, n))
      BY <2>2, <1>1, MallocFull
    <2> QED
      BY <2>1, <2>3
  <1>4. ASSUME NEW p \in DOMAIN ptrs, free(p) PROVE \E E : Full(blk', E, heap_cur', ptrs')
    <2>1. blk' = kfree(blk, p) /\ ptrs' = Drop(ptrs, p) /\ heap_cur' = heap_cur
      BY <1>4 DEF free
    <2> DEFINE T == kfree(blk, p)
    <2>2. T = kfree(blk, p)
      OBVIOUS
    <2> HIDE DEF T
    <2>3. \E E : Full(T, E, heap_cur, Drop(ptrs, p))
      BY <2>2, <1>1, FreeFull
    <2> QED
      BY <2>1, <2>2, <2>3
  <1>5. ASSUME NEW p \in DOMAIN ptrs, NEW n \in Sizes \ {0}, krealloc(p, n)
        PROVE  \E E : Full(blk', E, heap_cur', ptrs')
    <2> DEFINE r == kmalloc(blk, n)
    <2>1. CASE blk[p - HDR_SIZE].size >= n
      <3>1. ptrs' = [ptrs EXCEPT ![p] = n] /\ blk' = blk /\ heap_cur' = heap_cur
        BY <2>1, <1>5 DEF krealloc
      <3>2. DOMAIN ptrs' = DOMAIN ptrs /\ ptrs'[p] = n /\ \A q \in DOMAIN ptrs : q # p => ptrs'[q] = ptrs[q]
        BY <3>1
      <3>3. Holds(blk, D, ptrs')
        BY <3>2, <2>1, <1>0, <1>2 DEF Holds
      <3> QED
        BY <3>1, <3>3, <1>1 DEF Full
    <2>2. CASE ~(blk[p - HDR_SIZE].size >= n) /\ r.ptr = NULL
      <3>1. ptrs' = ptrs /\ blk' = blk /\ heap_cur' = heap_cur
        BY <2>2, <1>5 DEF krealloc
      <3> QED
        BY <3>1, <1>1
    <2>3. CASE ~(blk[p - HDR_SIZE].size >= n) /\ r.ptr # NULL
      <3>1. blk' = kfree(r.B, p) /\ heap_cur' = r.cur /\ ptrs' = Hold(Drop(ptrs, p), r.ptr, n)
        BY <2>3, <1>5 DEF krealloc
      <3>2. r = kmalloc(blk, n) /\ n \in Nat
        BY <1>0
      <3> HIDE DEF r
      <3>3. PICK E : Full(r.B, E, r.cur, Hold(ptrs, r.ptr, n))
        BY <3>2, <1>1, MallocFull
      <3>4. r.ptr \notin DOMAIN ptrs
        BY <3>2, <2>3, <1>1, MallocFull
      <3> DEFINE h == Hold(ptrs, r.ptr, n)
                 T == kfree(r.B, p)
      <3>5. p \in DOMAIN h /\ T = kfree(r.B, p) /\ Full(r.B, E, r.cur, h)
        BY <3>3, <2>3 DEF Hold
      <3>6. Hold(Drop(ptrs, p), r.ptr, n) = Drop(h, p)
        <4> DEFINE L == Hold(Drop(ptrs, p), r.ptr, n)
                   R == Drop(h, p)
        <4>1. L = [x \in (DOMAIN ptrs \ {p}) \cup {r.ptr} |-> IF x = r.ptr THEN n ELSE Drop(ptrs, p)[x]]
          BY <2>3 DEF Hold, Drop
        <4>2. h = [x \in DOMAIN ptrs \cup {r.ptr} |-> IF x = r.ptr THEN n ELSE ptrs[x]]
          BY <2>3 DEF Hold
        <4>3. R = [x \in (DOMAIN ptrs \cup {r.ptr}) \ {p} |-> h[x]]
          BY <4>2 DEF Drop
        <4>4. (DOMAIN ptrs \cup {r.ptr}) \ {p} = (DOMAIN ptrs \ {p}) \cup {r.ptr}
          BY <3>4
        <4>5. \A x \in DOMAIN ptrs \ {p} : Drop(ptrs, p)[x] = ptrs[x]
          BY DEF Drop
        <4> HIDE DEF h
        <4>6. \A x \in (DOMAIN ptrs \ {p}) \cup {r.ptr} :
                h[x] = IF x = r.ptr THEN n ELSE Drop(ptrs, p)[x]
          BY <4>2, <4>5
        <4>7. R = [x \in (DOMAIN ptrs \ {p}) \cup {r.ptr} |-> IF x = r.ptr THEN n ELSE Drop(ptrs, p)[x]]
          BY <4>3, <4>4, <4>6
        <4> QED
          BY <4>1, <4>7
      <3> HIDE DEF h, T
      <3>7. \E F : Full(T, F, r.cur, Drop(h, p))
        BY <3>5, FreeFull
      <3> QED
        BY <3>1, <3>5, <3>6, <3>7
    <2> QED
      BY <2>1, <2>2, <2>3
  <1>6. CASE UNCHANGED heapVars
    BY <1>1, <1>6 DEF heapVars
  <1> QED
    BY <1>v, <1>3, <1>4, <1>5, <1>6 DEF HeapNext

\* The invariant holds in every reachable state.
LEMMA AlwaysIInv == HeapSpec => []IInv
  <1>1. HeapInit => IInv
    BY InitIInv
  <1>2. IInv /\ [HeapNext]_heapVars => IInv'
    BY NextIInv
  <1> QED
    BY <1>1, <1>2, PTL DEF HeapSpec

\* Whatever kmalloc, kfree and krealloc calls are made, the blocks tile the
\* heap: split_block, the joins of kfree and the extension of kmalloc lose no
\* memory, overlap no blocks and keep the two links of the list consistent.
THEOREM KheapTiled == HeapSpec => []Tiled
  <1>1. ASSUME IInv PROVE Tiled
    <2> SUFFICES ASSUME wrapped = {} PROVE Tiled
      BY DEF Tiled
    <2>0. /\ HDR_SIZE \in Nat \ {0} /\ HEAP_SIZE \in Nat
      BY KheapConstants
    <2>1. PICK D : Full(blk, D, heap_cur, ptrs)
      BY <1>1 DEF IInv
    <2>2. Wf(blk, D, heap_cur)
      BY <2>1 DEF Full
    <2>3. D \subseteq Nat /\ blk \in [D -> Blk] /\ heap_cur \in Nat /\ heap_cur <= HEAP_SIZE
      BY <2>2 DEF Wf
    <2>4. DOMAIN blk = D
      BY <2>3
    <2>5. 0 \in D /\ blk[0].prev = NULL
      BY <2>2 DEF Wf
    <2>6. ASSUME NEW a \in D
          PROVE  /\ a % ALIGN = 0 /\ End(blk, a) <= heap_cur
                 /\ blk[a].next = NULL => End(blk, a) = heap_cur
      BY <2>2 DEF Wf
    <2>7. ASSUME NEW a \in D, blk[a].next # NULL
          PROVE  blk[a].next = End(blk, a) /\ blk[a].next \in D /\ blk[blk[a].next].prev = a
      BY <2>2, <2>7, Zenon DEF Wf
    <2>8. ASSUME NEW a \in D, blk[a].prev # NULL PROVE blk[a].prev \in D
      BY <2>2, <2>8, Zenon DEF Wf
    <2>9. ASSUME NEW a \in D
          PROVE  /\ a \in 0 .. HEAP_SIZE
                 /\ blk[a] \in [magic : {"FREE", "USED"}, size : 0 .. HEAP_SIZE,
                                next : D \cup {NULL}, prev : D \cup {NULL}]
      <3>1. blk[a] \in Blk /\ a \in Nat
        BY <2>3
      <3>2. blk[a].size \in Nat /\ blk[a].magic \in {"FREE", "USED"}
        BY <3>1 DEF Blk
      <3>3. a + HDR_SIZE + blk[a].size <= heap_cur
        BY <2>6 DEF End
      <3>4. a \in 0 .. HEAP_SIZE /\ blk[a].size \in 0 .. HEAP_SIZE
        BY <3>1, <3>2, <3>3, <2>0, <2>3
      <3>5. blk[a].next \in D \cup {NULL} /\ blk[a].prev \in D \cup {NULL}
        BY <2>7, <2>8
      <3> QED
        BY <3>1, <3>2, <3>4, <3>5 DEF Blk
    <2>10. HeapTypeOK
      BY <2>3, <2>0, <2>4, <2>6, <2>9 DEF HeapTypeOK
    <2> QED
      BY <2>4, <2>5, <2>6, <2>7, <2>10 DEF Tiled, heap_start, End
  <1> QED
    BY <1>1, AlwaysIInv, PTL

\* A block is marked used exactly as long as a client holds it, and it is as
\* large as was asked for: kmalloc returns no block twice, kfree of one block
\* gives away no other, krealloc loses neither.
THEOREM KheapHeldIsUsed == HeapSpec => []HeldIsUsed
  <1>1. ASSUME IInv PROVE HeldIsUsed
    <2> SUFFICES ASSUME wrapped = {} PROVE HeldIsUsed
      BY DEF HeldIsUsed
    <2>0. HDR_SIZE \in Nat
      BY KheapConstants
    <2>1. PICK D : Full(blk, D, heap_cur, ptrs)
      BY <1>1 DEF IInv
    <2>2. D \subseteq Nat /\ DOMAIN blk = D /\ Holds(blk, D, ptrs)
      BY <2>1 DEF Full, Wf
    <2>3. ASSUME NEW p \in DOMAIN ptrs
          PROVE  /\ \E a \in {x \in D : blk[x].magic = "USED"} : p = a + HDR_SIZE
                 /\ blk[p - HDR_SIZE].size >= ptrs[p]
      <3>1. /\ p \in Int /\ p - HDR_SIZE \in D /\ blk[p - HDR_SIZE].magic = "USED"
            /\ blk[p - HDR_SIZE].size >= ptrs[p]
        BY <2>2 DEF Holds
      <3>2. p = (p - HDR_SIZE) + HDR_SIZE
        BY <3>1, <2>0
      <3> QED
        BY <3>1, <3>2
    <2>4. \A a \in {x \in D : blk[x].magic = "USED"} : a + HDR_SIZE \in DOMAIN ptrs
      BY <2>2 DEF Holds
    <2> QED
      BY <2>2, <2>3, <2>4 DEF HeldIsUsed
  <1> QED
    BY <1>1, AlwaysIInv, PTL

\* kfree leaves no two free neighbours, except where a later chunk of the heap
\* begins.
THEOREM KheapCoalesced == HeapSpec => []Coalesced
  <1>1. ASSUME IInv PROVE Coalesced
    <2> SUFFICES ASSUME wrapped = {} PROVE Coalesced
      BY DEF Coalesced
    <2>1. PICK D : Full(blk, D, heap_cur, ptrs)
      BY <1>1 DEF IInv
    <2>2. DOMAIN blk = D /\ Co(blk, D, {}, {})
      BY <2>1 DEF Full, Wf
    <2> QED
      BY <2>2 DEF Co, Coalesced
  <1> QED
    BY <1>1, AlwaysIInv, PTL

=============================================================================
