--------------------------- MODULE RamFileProofs ----------------------------
(***************************************************************************)
(* A file of ramfs is the sequence of bytes of FileBytes, for any number   *)
(* of open files, any counts, sizes, offsets and flags, any width of       *)
(* size_t and any order of calls.                                          *)
(***************************************************************************)
EXTENDS RamFile, SequenceTheorems, TLAPS

\* The larger of two numbers.
LEMMA MaxTwo ==
  ASSUME NEW a \in Int, NEW b \in Int
  PROVE  Max({a, b}) = IF a >= b THEN a ELSE b
  <1> DEFINE m == IF a >= b THEN a ELSE b
  <1>1. m \in {a, b} /\ \A y \in {a, b} : m >= y
    OBVIOUS
  <1>2. \A x \in {a, b} : (\A y \in {a, b} : x >= y) => x = m
    OBVIOUS
  <1> QED
    BY <1>1, <1>2, Zenon DEF Max

\* The smaller of two numbers.
LEMMA MinTwo ==
  ASSUME NEW a \in Int, NEW b \in Int
  PROVE  Min({a, b}) = IF a <= b THEN a ELSE b
  <1> DEFINE m == IF a <= b THEN a ELSE b
  <1>1. m \in {a, b} /\ \A y \in {a, b} : m <= y
    OBVIOUS
  <1>2. \A x \in {a, b} : (\A y \in {a, b} : x <= y) => x = m
    OBVIOUS
  <1> QED
    BY <1>1, <1>2, Zenon DEF Min

\* What the memory of a file may hold.
D == Byte \cup {0}

\* A function on 1 .. n is a sequence of length n.
LEMMA FunSeq ==
  ASSUME NEW S, NEW n \in Nat, NEW s \in [1 .. n -> S]
  PROVE  s \in Seq(S) /\ Len(s) = n
  OBVIOUS

\* krealloc and memset: the old bytes, then zeros.
LEMMA GrownIs ==
  ASSUME data \in Seq(D), NEW n \in Nat
  PROVE  /\ grown(n) \in Seq(D) /\ Len(grown(n)) = n
         /\ \A k \in 1 .. n : grown(n)[k] = IF k <= capacity THEN data[k] ELSE 0
  <1>1. grown(n) \in [1 .. n -> D]
    BY DEF grown, capacity, D
  <1>2. \A k \in 1 .. n : grown(n)[k] = IF k <= capacity THEN data[k] ELSE 0
    BY DEF grown
  <1> QED
    BY <1>1, <1>2, FunSeq

-----------------------------------------------------------------------------
(* The inductive invariant: types, and nothing but zeros beyond the        *)
(* largest size that the file has had.                                     *)

IInv ==
  /\ TypeOK
  /\ cut = {} => \A k \in high + 1 .. capacity : data[k] = 0

\* What fits in size_t is not cut.
LEMMA Uncut ==
  ASSUME NEW n \in 0 .. WORD - 1
  PROVE  n % WORD = n
  <1>1. WORD \in Nat /\ WORD > 0
    BY RamFileConstants
  <1> QED
    BY <1>1

\* A new file satisfies the invariant.
LEMMA InitIInv == Init => IInv
  BY RamFileConstants DEF Init, IInv, TypeOK, capacity

\* What ramfs_write leaves, at p = pos and end = p + count, if end is not cut.
LEMMA WriteIs ==
  ASSUME IInv, NEW f \in File, NEW count \in COUNTS, NEW b \in Byte, ramfs_write(f, count, b),
         cut' = {}
  PROVE  \E p \in {f_pos[f], i_size} :
           /\ p \in Nat /\ count \in 0 .. HEAP
           /\ data' \in Seq(D) /\ Len(data') >= p + count /\ Len(data') >= Len(data)
           /\ Len(data') <= HEAP
           /\ \A k \in 1 .. Len(data') :
                data'[k] = IF k \in p + 1 .. p + count THEN b
                           ELSE IF k <= Len(data) THEN data[k] ELSE 0
           /\ f_pos' = [f_pos EXCEPT ![f] = p + count]
           /\ i_size' = IF i_size >= p + count THEN i_size ELSE p + count
           /\ high' = IF high >= p + count THEN high ELSE p + count
           /\ got' = <<>> /\ f_flags' = f_flags
  <1> DEFINE p      == start(f)
             end    == p + count
             newcap == Max({end, capacity * 2 + GROW})
             room   == IF end > capacity THEN grown(newcap) ELSE data
  <1>0. cut = {}
    BY DEF ramfs_write
  <1>1. /\ data \in Seq(D) /\ capacity \in Nat /\ capacity = Len(data) /\ capacity <= HEAP
        /\ i_size \in Nat /\ high \in Nat /\ f_pos[f] \in Nat
        /\ HEAP \in Nat /\ GROW \in Nat /\ WORD \in Nat /\ 2 * HEAP + GROW < WORD /\ count \in Nat
    BY <1>0, RamFileConstants DEF IInv, TypeOK, capacity, D
  <1>2. p \in {f_pos[f], i_size} /\ p \in Nat
    BY <1>1 DEF start
  <1> HIDE DEF p
  <1>3. end \in Nat /\ p <= end /\ count <= end
    BY <1>1, <1>2
  <1>4. end < WORD
    <2>1. cut' = IF end >= WORD THEN {end} ELSE {}
      BY DEF ramfs_write, p
    <2> HIDE DEF end
    <2> QED
      BY <2>1, <1>1, <1>3
  <1>5. end % WORD = end /\ p % WORD = p
    <2> HIDE DEF end
    <2>1. end \in 0 .. WORD - 1 /\ p \in 0 .. WORD - 1
      BY <1>1, <1>2, <1>3, <1>4
    <2> QED
      BY <2>1, Uncut
  <1>6. /\ newcap = IF end >= capacity * 2 + GROW THEN end ELSE capacity * 2 + GROW
        /\ newcap \in 0 .. WORD - 1
    <2> HIDE DEF end
    <2>1. newcap = IF end >= capacity * 2 + GROW THEN end ELSE capacity * 2 + GROW
      BY <1>1, <1>3, MaxTwo
    <2>2. capacity * 2 + GROW \in 0 .. WORD - 1
      BY <1>1
    <2> QED
      BY <2>1, <2>2, <1>1, <1>3, <1>4
  <1>7. newcap % WORD = newcap
    <2> HIDE DEF newcap
    <2> QED
      BY <1>6, Uncut
  <1>8. /\ end > capacity => newcap <= HEAP
        /\ data' = [k \in 1 .. Len(room) |-> IF k \in p + 1 .. p + count THEN b ELSE room[k]]
        /\ f_pos' = [f_pos EXCEPT ![f] = end]
        /\ i_size' = Max({i_size, end}) /\ high' = Max({high, end})
        /\ got' = <<>> /\ f_flags' = f_flags
    BY <1>5, <1>7 DEF ramfs_write, p
  <1> HIDE DEF newcap
  <1>9. end = p + count
    OBVIOUS
  <1> HIDE DEF end
  <1>10. /\ room \in Seq(D) /\ Len(room) >= end /\ Len(room) >= Len(data) /\ Len(room) <= HEAP
         /\ \A k \in 1 .. Len(room) : room[k] = IF k <= Len(data) THEN data[k] ELSE 0
    <2>1. CASE end > capacity
      <3>1. newcap \in Nat /\ newcap >= end /\ newcap >= capacity
        BY <1>1, <1>3, <1>6, <2>1
      <3>2. /\ grown(newcap) \in Seq(D) /\ Len(grown(newcap)) = newcap
            /\ \A k \in 1 .. newcap : grown(newcap)[k] = IF k <= capacity THEN data[k] ELSE 0
        BY <3>1, <1>1, GrownIs
      <3> QED
        BY <3>1, <3>2, <1>1, <1>8, <2>1
    <2>2. CASE ~(end > capacity)
      BY <2>2, <1>1, <1>3
    <2> QED
      BY <2>1, <2>2
  <1> HIDE DEF room
  <1>11. data' \in [1 .. Len(room) -> D]
    BY <1>8, <1>10 DEF D
  <1>12. data' \in Seq(D) /\ Len(data') = Len(room)
    BY <1>10, <1>11, FunSeq
  <1>13. \A k \in 1 .. Len(data') :
          data'[k] = IF k \in p + 1 .. p + count THEN b ELSE IF k <= Len(data) THEN data[k] ELSE 0
    BY <1>8, <1>10, <1>12
  <1>14. /\ i_size' = IF i_size >= end THEN i_size ELSE end
         /\ high' = IF high >= end THEN high ELSE end
    BY <1>1, <1>8, <1>3, MaxTwo
  <1>15. count \in 0 .. HEAP
    BY <1>1, <1>3, <1>10
  <1> QED
    <2> p \in {f_pos[f], i_size}
      BY <1>2
    <2> WITNESS p \in {f_pos[f], i_size}
    <2> QED
      BY <1>2, <1>8, <1>9, <1>10, <1>12, <1>13, <1>14, <1>15

\* What ramfs_truncate leaves: nothing new, or a file of n bytes, unless n is
\* negative and cut.
LEMMA TruncateIs ==
  ASSUME IInv, NEW a \in SIZES, NEW n, n = signed(a), ramfs_truncate(n), cut' = {},
         ~UNCHANGED <<data, i_size, high>>
  PROVE  /\ n \in 0 .. HEAP /\ i_size' = n
         /\ data' \in Seq(D) /\ Len(data') >= n /\ Len(data') <= HEAP
         /\ high' = IF n = 0 THEN 0 ELSE IF high >= n THEN high ELSE n
         /\ n = 0 => data' = <<>>
         /\ n # 0 => /\ Len(data') >= Len(data)
                     /\ \A k \in 1 .. Len(data') : data'[k] = IF k <= Len(data) THEN data[k] ELSE 0
         /\ got' = <<>> /\ f_pos' = f_pos /\ f_flags' = f_flags
  <1>0. cut = {}
    BY DEF ramfs_truncate
  <1>1. /\ data \in Seq(D) /\ capacity \in Nat /\ capacity = Len(data) /\ capacity <= HEAP
        /\ high \in Nat /\ HEAP \in Nat /\ GROW \in Nat /\ WORD \in Nat /\ WORD > 0
        /\ 2 * HEAP + GROW < WORD /\ a \in 0 .. WORD - 1
    BY <1>0, RamFileConstants DEF IInv, TypeOK, capacity, D
  <1>2. /\ n % WORD > capacity => n % WORD <= HEAP
        /\ data' = IF n = 0 THEN <<>> ELSE IF n % WORD > capacity THEN grown(n % WORD) ELSE data
        /\ i_size' = n
        /\ high' = IF n = 0 THEN 0 ELSE Max({high, n})
        /\ got' = <<>> /\ f_pos' = f_pos /\ f_flags' = f_flags
    BY DEF ramfs_truncate
  <1>3. n \in 0 .. HEAP /\ n % WORD = n
    <2>1. CASE 2 * a < WORD
      <3>1. n = a /\ n % WORD = n
        BY <2>1, <1>1, Uncut DEF signed
      <3> QED
        BY <3>1, <1>1, <1>2
    <2>2. CASE ~(2 * a < WORD)
      <3>1. n = a - WORD
        BY <2>2 DEF signed
      <3>2. n % WORD = a
        BY <3>1, <1>1
      <3> QED
        BY <3>2, <2>2, <1>1, <1>2
    <2> QED
      BY <2>1, <2>2
  <1>4. high' = IF n = 0 THEN 0 ELSE IF high >= n THEN high ELSE n
    BY <1>1, <1>2, <1>3, MaxTwo
  <1>5. CASE n = 0
    BY <1>1, <1>2, <1>3, <1>4, <1>5
  <1>6. CASE n # 0 /\ n > capacity
    <2>1. /\ grown(n) \in Seq(D) /\ Len(grown(n)) = n
          /\ \A k \in 1 .. n : grown(n)[k] = IF k <= capacity THEN data[k] ELSE 0
      BY <1>1, <1>3, GrownIs
    <2> QED
      BY <2>1, <1>1, <1>2, <1>3, <1>4, <1>6
  <1>7. CASE n # 0 /\ ~(n > capacity)
    BY <1>1, <1>2, <1>3, <1>4, <1>7
  <1> QED
    BY <1>5, <1>6, <1>7

\* What ramfs_read returns and leaves, n being the bytes it copies.
LEMMA ReadIs ==
  ASSUME IInv, NEW f \in File, NEW count \in COUNTS, ramfs_read(f, count)
  PROVE  \E n \in 0 .. HEAP :
           /\ n > 0 => f_pos[f] + n <= i_size
           /\ got' = SubSeq(data, f_pos[f] + 1, f_pos[f] + n)
           /\ got' \in Seq(D) /\ Len(got') = n
           /\ f_pos' = [f_pos EXCEPT ![f] = @ + n]
           /\ UNCHANGED <<data, i_size, f_flags, high, cut>>
  <1> DEFINE pos == f_pos[f]
             m   == IF pos >= i_size THEN 0 ELSE Min({count, i_size - pos})
             n   == IF capacity = 0 THEN 0 ELSE m
  <1>0. cut = {}
    BY DEF ramfs_read
  <1>1. /\ data \in Seq(D) /\ capacity = Len(data) /\ Len(data) \in Nat /\ HEAP \in Nat
        /\ i_size \in 0 .. HEAP /\ i_size <= Len(data) /\ pos \in Nat /\ count \in Nat
        /\ f_pos \in [File -> 0 .. MAX_POS]
    BY <1>0, RamFileConstants DEF IInv, TypeOK, capacity, D
  <1>2. /\ got' = IF capacity = 0 THEN <<>> ELSE SubSeq(data, pos + 1, pos + m)
        /\ f_pos' = [f_pos EXCEPT ![f] = IF capacity = 0 THEN @ ELSE @ + m]
        /\ UNCHANGED <<data, i_size, f_flags, high, cut>>
    BY DEF ramfs_read
  <1>3. m \in 0 .. HEAP /\ (m > 0 => pos + m <= i_size)
    <2>1. CASE pos >= i_size
      BY <2>1, <1>1
    <2>2. CASE ~(pos >= i_size)
      <3>1. m = IF count <= i_size - pos THEN count ELSE i_size - pos
        BY <2>2, <1>1, MinTwo
      <3> QED
        BY <3>1, <2>2, <1>1
    <2> QED
      BY <2>1, <2>2
  <1> HIDE DEF m
  <1>4. n \in 0 .. HEAP /\ (n > 0 => pos + n <= i_size)
    BY <1>1, <1>3
  <1>5. n = 0 => SubSeq(data, pos + 1, pos + n) = <<>>
    BY <1>1, SubSeqEmpty
  <1>6. got' = SubSeq(data, pos + 1, pos + n)
    BY <1>2, <1>5
  <1>7. f_pos' = [f_pos EXCEPT ![f] = @ + n]
    <2>1. f_pos[f] + n = IF capacity = 0 THEN f_pos[f] ELSE f_pos[f] + m
      BY <1>1, <1>3
    <2> QED
      BY <2>1, <1>2
  <1> HIDE DEF n
  <1>8. got' \in Seq(D) /\ Len(got') = n
    <2>1. \A i \in pos + 1 .. pos + n : data[i] \in D
      BY <1>1, <1>4
    <2> QED
      BY <2>1, <1>1, <1>4, <1>6, SubSeqProperties
  <1> QED
    BY <1>2, <1>4, <1>6, <1>7, <1>8

\* vfs_lseek moves the position, and nothing else.
LEMMA SeekIs ==
  ASSUME IInv, NEW f \in File, NEW from \in {"SEEK_SET", "SEEK_CUR", "SEEK_END"}, NEW a \in OFFSETS,
         NEW off, off = signed(a), vfs_lseek(f, from, off)
  PROVE  \E p \in 0 .. MAX_POS :
            /\ f_pos' = [f_pos EXCEPT ![f] = p]
            /\ got' = <<>> /\ UNCHANGED <<data, i_size, f_flags, high, cut>>
  <1> DEFINE base == CASE from = "SEEK_SET" -> 0
                       [] from = "SEEK_CUR" -> f_pos[f]
                       [] from = "SEEK_END" -> i_size
  <1>0. cut = {}
    BY DEF vfs_lseek
  <1>1. i_size \in Nat /\ f_pos[f] \in Nat /\ MAX_POS \in Nat /\ off \in Int
    BY <1>0, RamFileConstants DEF IInv, TypeOK, signed
  <1>2. base \in Nat
    BY <1>1
  <1>3. /\ base + off <= MAX_POS
        /\ f_pos' = [f_pos EXCEPT ![f] = Max({base + off, 0})]
        /\ got' = <<>> /\ UNCHANGED <<data, i_size, f_flags, high, cut>>
    BY Zenon DEF vfs_lseek
  <1> HIDE DEF base
  <1>4. Max({base + off, 0}) \in 0 .. MAX_POS
    <2>1. base + off \in Int /\ base + off <= MAX_POS
      BY <1>1, <1>2, <1>3
    <2>2. Max({base + off, 0}) = IF base + off >= 0 THEN base + off ELSE 0
      BY <2>1, MaxTwo
    <2> QED
      BY <2>1, <2>2, <1>1
  <1> QED
    BY <1>3, <1>4

\* No call is followed once something was cut.
LEMMA NotCut ==
  ASSUME [Next]_vars, cut' = {}
  PROVE  cut = {}
  BY Zenon DEF Next, vars, ramfs_read, ramfs_write, ramfs_write_nomem, ramfs_truncate,
               fcntl_setfl, vfs_lseek

\* Every call keeps the invariant.
LEMMA NextIInv == IInv /\ [Next]_vars => IInv'
  <1> SUFFICES ASSUME IInv, [Next]_vars, cut' = {} PROVE IInv'
    BY DEF IInv, TypeOK
  <1>z. cut = {}
    BY NotCut
  <1> USE RamFileConstants
  <1>0. /\ data \in Seq(D) /\ capacity = Len(data) /\ Len(data) \in Nat
        /\ HEAP \in Nat /\ MAX_POS \in Nat /\ HEAP <= MAX_POS
        /\ high \in Nat /\ high <= Len(data) /\ Len(data) <= HEAP /\ i_size \in 0 .. high
        /\ f_pos \in [File -> 0 .. MAX_POS] /\ got \in Seq(D)
        /\ f_flags \in [File -> Flags]
        /\ \A k \in high + 1 .. Len(data) : data[k] = 0
    BY <1>z DEF IInv, TypeOK, capacity, D
  <1>a. <<>> \in Seq(D)
    OBVIOUS
  <1>b. ASSUME /\ data' \in Seq(D) /\ high' \in Nat /\ high' <= Len(data') /\ Len(data') <= HEAP
               /\ i_size' \in 0 .. high' /\ f_pos' \in [File -> 0 .. MAX_POS] /\ got' \in Seq(D)
               /\ f_flags' \in [File -> Flags]
               /\ \A k \in high' + 1 .. Len(data') : data'[k] = 0
        PROVE  IInv'
    BY <1>b DEF IInv, TypeOK, capacity, D
  <1>1. ASSUME NEW f \in File, NEW n \in COUNTS, ramfs_read(f, n)
        PROVE  IInv'
    <2>1. PICK m \in 0 .. HEAP :
            /\ m > 0 => f_pos[f] + m <= i_size
            /\ got' \in Seq(D)
            /\ f_pos' = [f_pos EXCEPT ![f] = @ + m]
            /\ UNCHANGED <<data, i_size, f_flags, high, cut>>
      BY <1>1, ReadIs
    <2>2. f_pos' \in [File -> 0 .. MAX_POS]
      BY <2>1, <1>0
    <2> QED
      BY <2>1, <2>2, <1>0, <1>b
  <1>2. ASSUME NEW f \in File, NEW n \in COUNTS, NEW b \in Byte, ramfs_write(f, n, b)
        PROVE  IInv'
    <2>1. PICK p \in {f_pos[f], i_size} :
           /\ p \in Nat /\ n \in 0 .. HEAP
           /\ data' \in Seq(D) /\ Len(data') >= p + n /\ Len(data') >= Len(data)
           /\ Len(data') <= HEAP
           /\ \A k \in 1 .. Len(data') :
                data'[k] = IF k \in p + 1 .. p + n THEN b
                           ELSE IF k <= Len(data) THEN data[k] ELSE 0
           /\ f_pos' = [f_pos EXCEPT ![f] = p + n]
           /\ i_size' = IF i_size >= p + n THEN i_size ELSE p + n
           /\ high' = IF high >= p + n THEN high ELSE p + n
           /\ got' = <<>> /\ f_flags' = f_flags
      BY <1>2, WriteIs
    <2>2. f_pos' \in [File -> 0 .. MAX_POS]
      BY <2>1, <1>0
    <2>3. /\ high' \in Nat /\ high' <= Len(data') /\ i_size' \in 0 .. high'
          /\ high' >= high /\ high' >= p + n
      BY <2>1, <1>0
    <2>4. ASSUME NEW k \in high' + 1 .. Len(data') PROVE data'[k] = 0
      <3>1. k \in 1 .. Len(data') /\ k \notin p + 1 .. p + n /\ k > high
        BY <2>1, <2>3, <1>0
      <3> QED
        BY <3>1, <2>1, <1>0
    <2> QED
      BY <2>1, <2>2, <2>3, <2>4, <1>0, <1>a, <1>b
  <1>3. ASSUME NEW f \in File, NEW n \in COUNTS, ramfs_write_nomem(f, n)
        PROVE  IInv'
    <2>1. /\ f_pos' = [f_pos EXCEPT ![f] = start(f)]
          /\ got' = <<>> /\ UNCHANGED <<data, i_size, f_flags, high, cut>>
      BY <1>3 DEF ramfs_write_nomem, start
    <2>2. f_pos' \in [File -> 0 .. MAX_POS]
      BY <2>1, <1>0 DEF start
    <2> QED
      BY <2>1, <2>2, <1>0, <1>a, <1>b
  <1>4. ASSUME NEW a \in SIZES, NEW n, n = signed(a), ramfs_truncate(n)
        PROVE  IInv'
    <2>1. CASE UNCHANGED <<data, i_size, high>>
      <3>1. got' = <<>> /\ f_pos' = f_pos /\ f_flags' = f_flags
        BY <1>4 DEF ramfs_truncate
      <3> QED
        BY <2>1, <3>1, <1>0, <1>a, <1>b
    <2>2. CASE ~UNCHANGED <<data, i_size, high>>
      <3>1. /\ n \in 0 .. HEAP /\ i_size' = n
            /\ data' \in Seq(D) /\ Len(data') >= n /\ Len(data') <= HEAP
            /\ high' = IF n = 0 THEN 0 ELSE IF high >= n THEN high ELSE n
            /\ n = 0 => data' = <<>>
            /\ n # 0 => /\ Len(data') >= Len(data)
                        /\ \A k \in 1 .. Len(data') : data'[k] = IF k <= Len(data) THEN data[k] ELSE 0
            /\ got' = <<>> /\ f_pos' = f_pos /\ f_flags' = f_flags
        BY <2>2, <1>4, TruncateIs
      <3>2. high' \in Nat /\ high' <= Len(data') /\ i_size' \in 0 .. high'
        BY <3>1, <1>0
      <3>3. ASSUME NEW k \in high' + 1 .. Len(data') PROVE data'[k] = 0
        <4>1. n # 0
          BY <3>1
        <4>2. k \in 1 .. Len(data') /\ k > high
          BY <4>1, <3>1, <1>0
        <4> QED
          BY <4>1, <4>2, <3>1, <1>0
      <3> QED
        BY <3>1, <3>2, <3>3, <1>0, <1>a, <1>b
    <2> QED
      BY <2>1, <2>2
  <1>5. ASSUME NEW f \in File, NEW fl \in Flags, fcntl_setfl(f, fl)
        PROVE  IInv'
    <2>1. f_flags' \in [File -> Flags]
      BY <1>5, <1>0 DEF fcntl_setfl
    <2> QED
      BY <2>1, <1>5, <1>0, <1>a, <1>b DEF fcntl_setfl
  <1>6. ASSUME NEW f \in File, NEW from \in {"SEEK_SET", "SEEK_CUR", "SEEK_END"}, NEW a \in OFFSETS,
               NEW off, off = signed(a), vfs_lseek(f, from, off)
        PROVE  IInv'
    <2>1. \E p \in 0 .. MAX_POS :
            /\ f_pos' = [f_pos EXCEPT ![f] = p]
            /\ got' = <<>> /\ UNCHANGED <<data, i_size, f_flags, high, cut>>
      BY <1>6, <1>0, SeekIs
    <2>2. f_pos' \in [File -> 0 .. MAX_POS]
      BY <2>1, <1>0
    <2> QED
      BY <2>1, <2>2, <1>0, <1>a, <1>b
  <1>7. CASE UNCHANGED vars
    BY <1>7, <1>0, <1>b DEF vars
  <1> QED
    BY <1>1, <1>2, <1>3, <1>4, <1>5, <1>6, <1>7 DEF Next

-----------------------------------------------------------------------------
(* Every step is one of FileBytes, or none.                                *)

\* The first n bytes of s.
LEMMA PrefixIs ==
  ASSUME NEW s \in Seq(D), NEW n \in 0 .. Len(s)
  PROVE  /\ SubSeq(s, 1, n) \in [1 .. n -> D] /\ Len(SubSeq(s, 1, n)) = n
         /\ \A k \in 1 .. n : SubSeq(s, 1, n)[k] = s[k]
  <1> DEFINE t == SubSeq(s, 1, n)
  <1>1. n \in Nat /\ \A k \in 1 .. n : s[k] \in D
    OBVIOUS
  <1>2. /\ t \in Seq(D)
        /\ Len(t) = IF 1 <= n THEN n - 1 + 1 ELSE 0
        /\ \A k \in 1 .. n - 1 + 1 : t[k] = s[1 + k - 1]
    BY <1>1, SubSeqProperties
  <1> HIDE DEF t
  <1>3. Len(t) = n /\ \A k \in 1 .. n : k \in 1 .. n - 1 + 1 /\ 1 + k - 1 = k
    BY <1>1, <1>2
  <1>4. t \in [1 .. n -> D] /\ \A k \in 1 .. n : t[k] = s[k]
    BY <1>1, <1>2, <1>3
  <1> QED
    BY <1>3, <1>4 DEF t

\* A call whose end or size is cut is out of the range of FileBytes.
LEMMA OutOfRange ==
  ASSUME [Next]_vars, cut' # {}
  PROVE  Bytes!Next \/ UNCHANGED Bytes!vars
  <1>1. ASSUME NEW f \in File, NEW n \in COUNTS, NEW b \in Byte, ramfs_write(f, n, b)
        PROVE  \A m \in cut' : m >= WORD
    <2> DEFINE end == start(f) + n
    <2>1. cut' = IF end >= WORD THEN {end} ELSE {}
      BY <1>1 DEF ramfs_write
    <2> HIDE DEF end
    <2> QED
      BY <2>1
  <1>2. ASSUME NEW n, ramfs_truncate(n)
        PROVE  \A m \in cut' : m < 0
    <2>1. cut' = {n} /\ n < 0
      BY <1>2 DEF ramfs_truncate
    <2> QED
      BY <2>1
  <1>3. CASE Next
    <2>1. \A m \in cut' : m < 0 \/ m >= WORD
      <3>1. ASSUME NEW f \in File, NEW n \in COUNTS, ramfs_read(f, n) PROVE FALSE
        BY <3>1 DEF ramfs_read
      <3>2. ASSUME NEW f \in File, NEW n \in COUNTS, ramfs_write_nomem(f, n) PROVE FALSE
        BY <3>2 DEF ramfs_write_nomem
      <3>3. ASSUME NEW f \in File, NEW fl \in Flags, fcntl_setfl(f, fl) PROVE FALSE
        BY <3>3 DEF fcntl_setfl
      <3>4. ASSUME NEW f \in File, NEW from, NEW off, vfs_lseek(f, from, off) PROVE FALSE
        BY <3>4, Zenon DEF vfs_lseek
      <3> QED
        BY <1>1, <1>2, <1>3, <3>1, <3>2, <3>3, <3>4, Zenon DEF Next
    <2> QED
      BY <2>1 DEF Bytes!Next, Bytes!OutOfRange
  <1>4. CASE UNCHANGED vars
    BY <1>4 DEF vars, Bytes!vars, contents, capacity
  <1> QED
    BY <1>3, <1>4

\* Every call is a step of FileBytes on the first i_size bytes.
LEMMA RefinesStep == IInv /\ IInv' /\ [Next]_vars => [Bytes!Next]_(Bytes!vars)
  <1> DEFINE B == SubSeq(data, 1, i_size)
  <1> SUFFICES ASSUME IInv, IInv', [Next]_vars, cut' = {}
               PROVE  Bytes!Next \/ UNCHANGED Bytes!vars
    BY OutOfRange
  <1> USE RamFileConstants
  <1>z. cut = {} /\ contents = B /\ contents' = B'
    BY NotCut DEF contents
  <1>0. /\ data \in Seq(D) /\ Len(data) \in Nat /\ HEAP \in Nat /\ MAX_POS \in Nat /\ HEAP <= MAX_POS
        /\ high \in Nat /\ high <= Len(data) /\ Len(data) <= HEAP /\ i_size \in 0 .. high
        /\ f_pos \in [File -> 0 .. MAX_POS]
        /\ \A k \in high + 1 .. Len(data) : data[k] = 0
    BY <1>z DEF IInv, TypeOK, capacity, D
  <1>a. /\ data' \in Seq(D) /\ Len(data') \in Nat /\ i_size' \in 0 .. Len(data')
    BY DEF IInv, TypeOK, capacity, D
  <1>b. B \in [1 .. i_size -> D] /\ Len(B) = i_size /\ \A k \in 1 .. i_size : B[k] = data[k]
    BY <1>0, PrefixIs
  <1>c. B' \in [1 .. i_size' -> D] /\ \A k \in 1 .. i_size' : B'[k] = data'[k]
    BY <1>a, PrefixIs
  <1>1. ASSUME NEW f \in File, NEW n \in COUNTS, ramfs_read(f, n)
        PROVE  Bytes!Next
    <2>1. PICK m \in 0 .. HEAP :
            /\ m > 0 => f_pos[f] + m <= i_size
            /\ got' = SubSeq(data, f_pos[f] + 1, f_pos[f] + m)
            /\ got' \in Seq(D) /\ Len(got') = m
            /\ f_pos' = [f_pos EXCEPT ![f] = @ + m]
            /\ UNCHANGED <<data, i_size, f_flags, high, cut>>
      BY <1>1, ReadIs
    <2> DEFINE to == IF f_pos[f] + m < Len(B) THEN f_pos[f] + m ELSE Len(B)
    <2>2. got' = SubSeq(B, f_pos[f] + 1, to)
      <3>1. CASE m = 0
        <4>1. got' = <<>>
          BY <3>1, <2>1, <1>0, SubSeqEmpty
        <4>2. to \in Int /\ to < f_pos[f] + 1
          BY <3>1, <1>0, <1>b
        <4>3. f_pos[f] + 1 \in Int
          BY <1>0
        <4> HIDE DEF to, B
        <4>4. SubSeq(B, f_pos[f] + 1, to) = <<>>
          BY <4>2, <4>3, SubSeqEmpty
        <4> QED
          BY <4>1, <4>4
      <3>2. CASE m > 0
        <4> HIDE DEF B
        <4>1. to = f_pos[f] + m
          BY <3>2, <2>1, <1>0, <1>b
        <4>2. \A k \in f_pos[f] + 1 .. to : B[k] = data[k] /\ B[k] \in D
          <5>1. f_pos[f] \in Nat /\ to <= i_size /\ to \in Int /\ i_size \in Nat
            BY <3>2, <4>1, <2>1, <1>0
          <5> HIDE DEF to
          <5>2. \A k \in f_pos[f] + 1 .. to : k \in 1 .. i_size
            BY <5>1
          <5>3. \A k \in 1 .. i_size : B[k] = data[k] /\ B[k] \in D
            BY <1>b
          <5> QED
            BY <5>2, <5>3
        <4>3. /\ SubSeq(B, f_pos[f] + 1, to) \in Seq(D) /\ Len(SubSeq(B, f_pos[f] + 1, to)) = m
              /\ \A k \in 1 .. m : SubSeq(B, f_pos[f] + 1, to)[k] = B[f_pos[f] + 1 + k - 1]
          <5>1. to - (f_pos[f] + 1) + 1 = m /\ f_pos[f] + 1 \in Int /\ to \in Int
            BY <4>1, <1>0
          <5>2. \A k \in f_pos[f] + 1 .. to : B[k] \in D
            BY <4>2
          <5>3. f_pos[f] + 1 <= to
            BY <4>1, <3>2, <1>0
          <5> HIDE DEF to
          <5> DEFINE from == f_pos[f] + 1
          <5> HIDE DEF from
          <5>4. from \in Int /\ to \in Int /\ \A k \in from .. to : B[k] \in D
            BY <5>1, <5>2 DEF from
          <5>5. /\ SubSeq(B, from, to) \in Seq(D)
                /\ Len(SubSeq(B, from, to)) = IF from <= to THEN to - from + 1 ELSE 0
                /\ \A i \in 1 .. to - from + 1 : SubSeq(B, from, to)[i] = B[from + i - 1]
            BY <5>4, SubSeqProperties
          <5> QED
            BY <5>1, <5>3, <5>5 DEF from
        <4>4. \A k \in 1 .. m : SubSeq(data, f_pos[f] + 1, to)[k] = data[f_pos[f] + 1 + k - 1]
          <5>1. to - (f_pos[f] + 1) + 1 = m /\ f_pos[f] + 1 \in Int /\ to \in Int
            BY <4>1, <1>0
          <5>2. \A k \in f_pos[f] + 1 .. to : data[k] \in D
            BY <4>2
          <5> HIDE DEF to
          <5> DEFINE from == f_pos[f] + 1
          <5> HIDE DEF from
          <5>3. from \in Int /\ to \in Int /\ \A k \in from .. to : data[k] \in D
            BY <5>1, <5>2 DEF from
          <5>4. \A i \in 1 .. to - from + 1 : SubSeq(data, from, to)[i] = data[from + i - 1]
            BY <5>3, SubSeqProperties
          <5> QED
            BY <5>1, <5>4 DEF from
        <4>5. \A k \in 1 .. m : f_pos[f] + 1 + k - 1 \in f_pos[f] + 1 .. to
          BY <4>1, <1>0
        <4>6. \A k \in 1 .. m : got'[k] = SubSeq(B, f_pos[f] + 1, to)[k]
          BY <4>1, <4>2, <4>3, <4>4, <4>5, <2>1
        <4> HIDE DEF to
        <4> QED
          BY <4>3, <4>6, <2>1, SeqEqual
      <3>3. m = 0 \/ m > 0
        OBVIOUS
      <3> HIDE DEF to, B
      <3> QED
        BY <3>1, <3>2, <3>3
    <2>3. Bytes!Read(f, m)
      BY <2>1, <2>2, <1>z DEF Bytes!Read
    <2> QED
      BY <2>3, <1>z DEF Bytes!Next
  <1>2. ASSUME NEW f \in File, NEW n \in COUNTS, NEW b \in Byte, ramfs_write(f, n, b)
        PROVE  Bytes!Next
    <2>1. PICK p \in {f_pos[f], i_size} :
           /\ p \in Nat /\ n \in 0 .. HEAP
           /\ data' \in Seq(D) /\ Len(data') >= p + n /\ Len(data') >= Len(data)
           /\ Len(data') <= HEAP
           /\ \A k \in 1 .. Len(data') :
                data'[k] = IF k \in p + 1 .. p + n THEN b
                           ELSE IF k <= Len(data) THEN data[k] ELSE 0
           /\ f_pos' = [f_pos EXCEPT ![f] = p + n]
           /\ i_size' = IF i_size >= p + n THEN i_size ELSE p + n
           /\ high' = IF high >= p + n THEN high ELSE p + n
           /\ got' = <<>> /\ f_flags' = f_flags
      BY <1>2, WriteIs
    <2>2. i_size' = IF p + n > Len(B) THEN p + n ELSE Len(B)
      BY <2>1, <1>0, <1>b
    <2>3. ASSUME NEW k \in 1 .. i_size'
          PROVE  IF k \in p + 1 .. p + n THEN B'[k] = b
                 ELSE IF k <= Len(B) THEN B'[k] = B[k] ELSE k > high => B'[k] = 0
      <3>1. k \in 1 .. Len(data') /\ B'[k] = data'[k]
        BY <1>a, <1>c
      <3>2. k <= Len(B) => k \in 1 .. i_size /\ k <= Len(data) /\ B[k] = data[k]
        BY <1>0, <1>b
      <3>3. k > high => (k <= Len(data) => data[k] = 0)
        BY <1>0
      <3> HIDE DEF B
      <3> QED
        BY <3>1, <3>2, <3>3, <2>1, <1>0
    <2>4. high' = IF p + n > high THEN p + n ELSE high
      BY <2>1, <1>0
    <2>5. Bytes!Becomes(IF p + n > Len(B) THEN p + n ELSE Len(B), p + 1 .. p + n, b)
      BY <2>2, <2>3, <1>c, <1>z DEF Bytes!Becomes, D
    <2>6. Bytes!Write(f, p, n, b)
      BY <2>1, <2>4, <2>5, <1>z DEF Bytes!Write
    <2>7. p \in {f_pos[f], Len(B)}
      BY <1>b
    <2> QED
      BY <2>1, <2>6, <2>7, <1>z DEF Bytes!Next
  <1>3. ASSUME NEW f \in File, NEW n \in COUNTS, ramfs_write_nomem(f, n)
        PROVE  Bytes!Next
    <2> DEFINE p == start(f)
    <2>1. /\ f_pos' = [f_pos EXCEPT ![f] = p]
          /\ got' = <<>> /\ UNCHANGED <<data, i_size, f_flags, high, cut>>
      BY <1>3 DEF ramfs_write_nomem, start
    <2>2. p \in 0 .. MAX_POS
      BY <1>0 DEF start
    <2> QED
      BY <2>1, <2>2, <1>z DEF Bytes!Seek, Bytes!Next
  <1>4. ASSUME NEW a \in SIZES, NEW n, n = signed(a), ramfs_truncate(n)
        PROVE  Bytes!Next
    <2>1. CASE UNCHANGED <<data, i_size, high>>
      <3>1. got' = <<>> /\ f_pos' = f_pos
        BY <1>4 DEF ramfs_truncate
      <3> QED
        BY <3>1, <2>1, <1>z DEF Bytes!Other, Bytes!Next
    <2>2. CASE ~UNCHANGED <<data, i_size, high>>
      <3>1. /\ n \in 0 .. HEAP /\ i_size' = n
            /\ data' \in Seq(D) /\ Len(data') >= n /\ Len(data') <= HEAP
            /\ high' = IF n = 0 THEN 0 ELSE IF high >= n THEN high ELSE n
            /\ n # 0 => /\ Len(data') >= Len(data)
                        /\ \A k \in 1 .. Len(data') : data'[k] = IF k <= Len(data) THEN data[k] ELSE 0
            /\ got' = <<>> /\ f_pos' = f_pos /\ f_flags' = f_flags
        BY <2>2, <1>4, TruncateIs
      <3>2. ASSUME NEW k \in 1 .. n
            PROVE  IF k <= Len(B) THEN B'[k] = B[k] ELSE k > high => B'[k] = 0
        <4>1. n # 0 /\ k \in 1 .. Len(data') /\ B'[k] = data'[k]
          BY <3>1, <1>a, <1>c
        <4>2. k <= Len(B) => k \in 1 .. i_size /\ k <= Len(data) /\ B[k] = data[k]
          BY <1>0, <1>b
        <4>3. k > high => (k <= Len(data) => data[k] = 0)
          BY <1>0
        <4> HIDE DEF B
        <4> QED
          BY <4>1, <4>2, <4>3, <3>1, <1>0
      <3>3. Bytes!Becomes(n, {}, 0)
        BY <3>1, <3>2, <1>c, <1>z DEF Bytes!Becomes, D
      <3>4. high' = IF n = 0 THEN 0 ELSE IF n > high THEN n ELSE high
        BY <3>1, <1>0
      <3> QED
        BY <3>1, <3>3, <3>4, <1>z DEF Bytes!Truncate, Bytes!Next
    <2> QED
      BY <2>1, <2>2
  <1>5. ASSUME NEW f \in File, NEW fl \in Flags, fcntl_setfl(f, fl)
        PROVE  Bytes!Next
    BY <1>5, <1>z DEF fcntl_setfl, Bytes!Other, Bytes!Next
  <1>6. ASSUME NEW f \in File, NEW from \in {"SEEK_SET", "SEEK_CUR", "SEEK_END"}, NEW a \in OFFSETS,
               NEW off, off = signed(a), vfs_lseek(f, from, off)
        PROVE  Bytes!Next
    <2>1. PICK p \in 0 .. MAX_POS :
            /\ f_pos' = [f_pos EXCEPT ![f] = p]
            /\ got' = <<>> /\ UNCHANGED <<data, i_size, f_flags, high, cut>>
      BY <1>6, SeekIs
    <2> QED
      BY <2>1, <1>z DEF Bytes!Seek, Bytes!Next
  <1>7. CASE UNCHANGED vars
    BY <1>7, <1>z DEF vars, Bytes!vars
  <1> QED
    BY <1>1, <1>2, <1>3, <1>4, <1>5, <1>6, <1>7, Zenon DEF Next

\* ramfs holds what was written: in every behaviour the file implements
\* FileBytes, which promises nothing more once a write ends at 2^32 or beyond or
\* truncate is given a negative size; its variables have their types until then.
THEOREM RamFileIsFile == Spec => IsFile
  <1>1. IInv => TypeOK
    BY DEF IInv
  <1>2. Init => Bytes!Init
    BY SubSeqEmpty DEF Init, Bytes!Init, contents
  <1> QED
    BY <1>1, <1>2, InitIInv, NextIInv, RefinesStep, PTL DEF Spec, IsFile, Bytes!Spec

=============================================================================
