----------------------------- MODULE PipeProofs -----------------------------
(***************************************************************************)
(* A pipe is the stream of bytes of ByteStream, for any number of tasks,   *)
(* any capacity and any counts: the ring arithmetic of pipe_read and       *)
(* pipe_write, wherever the ring wraps.                                    *)
(***************************************************************************)
EXTENDS Pipe, SequenceTheorems, TLAPS

\* The smaller of two numbers.
LEMMA MinTwo ==
  ASSUME NEW a \in Int, NEW b \in Int
  PROVE  Min({a, b}) = IF a <= b THEN a ELSE b
  <1> DEFINE m == IF a <= b THEN a ELSE b
  <1>1. m \in {a, b} /\ \A y \in {a, b} : m <= y
    OBVIOUS
  <1>2. \A x \in {a, b} : (\A y \in {a, b} : x <= y) => x = m
    OBVIOUS
  <1> QED
    BY <1>1, <1>2, Zenon DEF Min

\* Remainders of what is less than one turn away.
LEMMA Turn ==
  ASSUME NEW c \in Nat \ {0}, NEW x \in Int
  PROVE  /\ x % c \in 0 .. c - 1
         /\ x \in 0 .. c - 1 => x % c = x
         /\ x \in c .. 2 * c - 1 => x % c = x - c
         /\ x \in (-c) .. -1 => x % c = x + c
  OBVIOUS

\* The place in the ring i places after a.
At(a, i) == IF a + i < CAPACITY THEN a + i ELSE a + i - CAPACITY

\* It is what the code computes.
LEMMA AtIs ==
  ASSUME NEW a \in Slot, NEW i \in 0 .. CAPACITY
  PROVE  (a + i) % CAPACITY = At(a, i) /\ At(a, i) \in Slot
  <1> USE PipeConstants
  <1>1. a + i \in 0 .. CAPACITY - 1 \/ a + i \in CAPACITY .. 2 * CAPACITY - 1
    BY DEF Slot
  <1> DEFINE x == a + i
  <1>2. x \in Int
    BY DEF Slot
  <1>3. /\ x \in 0 .. CAPACITY - 1 => x % CAPACITY = x
        /\ x \in CAPACITY .. 2 * CAPACITY - 1 => x % CAPACITY = x - CAPACITY
    <2> HIDE DEF x
    <2> QED
      BY <1>2, Turn
  <1>4. (a + i) % CAPACITY = At(a, i)
    BY <1>1, <1>3 DEF At, Slot
  <1> QED
    BY <1>1, <1>4 DEF At, Slot

\* How far k is from a.
LEMMA DistanceIs ==
  ASSUME NEW a \in Slot, NEW k \in Slot
  PROVE  (k - a) % CAPACITY = IF k >= a THEN k - a ELSE k - a + CAPACITY
  <1> USE PipeConstants
  <1>1. k - a \in 0 .. CAPACITY - 1 \/ k - a \in (-CAPACITY) .. -1
    BY DEF Slot
  <1> DEFINE x == k - a
  <1>2. x \in Int
    BY DEF Slot
  <1>3. /\ x \in 0 .. CAPACITY - 1 => x % CAPACITY = x
        /\ x \in (-CAPACITY) .. -1 => x % CAPACITY = x + CAPACITY
    <2> HIDE DEF x
    <2> QED
      BY <1>2, Turn
  <1> QED
    BY <1>1, <1>3 DEF Slot

Label == 0 .. LABELS - 1

\* The inductive invariant: the ring is where head, tail and size agree, and
\* a task in pipe_read wants something.
IInv ==
  /\ buf \in [Slot -> Label] /\ head \in Slot /\ tail \in Slot
  /\ size \in 0 .. CAPACITY /\ head = At(tail, size)
  /\ sent \in Label
  /\ count \in [Task -> Int] /\ written \in [Task -> Int]
  /\ pc \in [Task -> InCall \cup {"user", "exited"}]
  /\ \A t \in Task : pc[t] \in {"read", "read_sleep"} => count[t] > 0

\* The places of the first z bytes from a on.
LEMMA PlacesAre ==
  ASSUME NEW a \in Slot, NEW z \in 0 .. CAPACITY
  PROVE  \A i \in 1 .. z : (a + i - 1) % CAPACITY = At(a, i - 1) /\ At(a, i - 1) \in Slot
  <1> USE PipeConstants
  <1> SUFFICES ASSUME NEW i \in 1 .. z
               PROVE  (a + i - 1) % CAPACITY = At(a, i - 1) /\ At(a, i - 1) \in Slot
    OBVIOUS
  <1>1. i - 1 \in 0 .. CAPACITY /\ a + i - 1 = a + (i - 1)
    BY DEF Slot
  <1> QED
    BY <1>1, AtIs

\* A function on 1 .. n is a sequence.
LEMMA FunIsSeq ==
  ASSUME NEW S, NEW T, S \subseteq T, NEW n \in Nat, NEW f \in [1 .. n -> S]
  PROVE  f \in Seq(T) /\ Len(f) = n
  <1>1. f \in [1 .. n -> T]
    OBVIOUS
  <1> QED
    BY <1>1

\* What is one sequence first and then the other is their concatenation.
LEMMA JoinIs ==
  ASSUME NEW S, NEW q \in Seq(S), NEW l \in Seq(S), NEW c \in Seq(S),
         Len(c) = Len(q) + Len(l),
         \A i \in 1 .. Len(c) : c[i] = IF i <= Len(q) THEN q[i] ELSE l[i - Len(q)]
  PROVE  c = q \o l
  <1> DEFINE d == q \o l
  <1>1. /\ d \in Seq(S) /\ Len(d) = Len(q) + Len(l)
        /\ \A i \in 1 .. Len(q) + Len(l) : d[i] = IF i <= Len(q) THEN q[i] ELSE l[i - Len(q)]
    BY ConcatProperties
  <1> HIDE DEF d
  <1>2. \A i \in 1 .. Len(c) : c[i] = d[i]
    BY <1>1
  <1>3. c = d
    BY <1>1, <1>2, SeqEqual
  <1> QED
    BY <1>3 DEF d

\* What is the elements of q from a to b is that part of it.
LEMMA PartIs ==
  ASSUME NEW S, NEW q \in Seq(S), NEW a \in 1 .. Len(q) + 1, NEW b \in a - 1 .. Len(q),
         NEW p \in Seq(S), Len(p) = b - a + 1,
         \A i \in 1 .. Len(p) : p[i] = q[a + i - 1]
  PROVE  p = SubSeq(q, a, b)
  <1> DEFINE d == SubSeq(q, a, b)
  <1>1. Len(q) \in Nat /\ a \in Int /\ b \in Int /\ \A i \in a .. b : q[i] \in S
    OBVIOUS
  <1>2. /\ d \in Seq(S) /\ Len(d) = IF a <= b THEN b - a + 1 ELSE 0
        /\ \A i \in 1 .. b - a + 1 : d[i] = q[a + i - 1]
    BY <1>1, SubSeqProperties
  <1> HIDE DEF d
  <1>3. Len(d) = Len(p)
    BY <1>1, <1>2
  <1>4. \A i \in 1 .. Len(p) : p[i] = d[i]
    BY <1>2
  <1>5. p = d
    BY <1>2, <1>3, <1>4, SeqEqual
  <1> QED
    BY <1>5 DEF d

\* The first state.
LEMMA InitIInv == Init => IInv
  BY PipeConstants DEF Init, IInv, At, Slot, Label

-----------------------------------------------------------------------------
(* The two copying loops.                                                  *)

\* ring_put appends the next n bytes of the stream.
LEMMA PutIs ==
  ASSUME IInv, NEW n \in 1 .. CAPACITY - size, ring_put(n)
  PROVE  /\ buf' \in [Slot -> Label] /\ head' \in Slot /\ tail' = tail
         /\ size' = size + n /\ size' \in 0 .. CAPACITY /\ head' = At(tail, size')
         /\ sent' \in Label
         /\ \A i \in 1 .. size' : buf'[At(tail, i - 1)] =
              IF i <= size THEN buf[At(tail, i - 1)] ELSE (sent + (i - size) - 1) % LABELS
  <1> USE PipeConstants
  <1>1. /\ head \in Slot /\ tail \in Slot /\ size \in 0 .. CAPACITY /\ sent \in Nat
        /\ head = At(tail, size) /\ buf \in [Slot -> Label] /\ LABELS \in Nat \ {0}
    BY DEF IInv, Label
  <1>2. size' = size + n /\ size' \in 0 .. CAPACITY /\ tail' = tail
    BY <1>1 DEF ring_put
  <1>3. head' = At(head, n) /\ head' \in Slot
    BY <1>1, AtIs DEF ring_put
  <1>4. head' = At(tail, size')
    BY <1>1, <1>2, <1>3 DEF At, Slot
  <1>5. sent' \in Label
    BY <1>1, Turn DEF ring_put, Label
  <1> DEFINE far(k) == IF k >= head THEN k - head ELSE k - head + CAPACITY
  <1>6. ASSUME NEW k \in Slot
        PROVE  buf'[k] = IF far(k) < n THEN (sent + far(k)) % LABELS ELSE buf[k]
    BY <1>1, DistanceIs DEF ring_put
  <1>7. buf' \in [Slot -> Label]
    <2>1. \A k \in Slot : (k - head) % CAPACITY \in Nat
      BY <1>1, Turn DEF Slot
    <2>2. \A i \in Nat : (sent + i) % LABELS \in Label
      BY <1>1, Turn DEF Label
    <2> QED
      BY <2>1, <2>2, <1>1 DEF ring_put
  <1>8. ASSUME NEW i \in 1 .. size'
        PROVE  buf'[At(tail, i - 1)] =
                 IF i <= size THEN buf[At(tail, i - 1)] ELSE (sent + (i - size) - 1) % LABELS
    <2> DEFINE k == At(tail, i - 1)
    <2>1. k \in Slot
      BY <1>1, <1>2, AtIs
    <2>2. CASE i <= size
      <3>1. ~(far(k) < n)
        BY <2>2, <1>1, <1>2 DEF At, Slot
      <3> HIDE DEF k, far
      <3>2. buf'[k] = buf[k]
        BY <3>1, <2>1, <1>6
      <3> QED
        BY <3>2, <2>2 DEF k
    <2>3. CASE ~(i <= size)
      <3>1. far(k) < n /\ sent + far(k) = sent + (i - size) - 1
        BY <2>3, <1>1, <1>2 DEF At, Slot
      <3> HIDE DEF k, far
      <3>2. buf'[k] = (sent + (i - size) - 1) % LABELS
        BY <3>1, <2>1, <1>6
      <3> QED
        BY <3>2, <2>3 DEF k
    <2> QED
      BY <2>2, <2>3
  <1> QED
    BY <1>2, <1>3, <1>4, <1>5, <1>7, <1>8

\* ring_get removes the oldest n bytes.
LEMMA GetIs ==
  ASSUME IInv, NEW n \in 1 .. size, ring_get(n)
  PROVE  /\ UNCHANGED <<buf, head, sent>> /\ tail' \in Slot
         /\ size' = size - n /\ size' \in 0 .. CAPACITY /\ head = At(tail', size')
         /\ got' \in [1 .. n -> Label]
         /\ \A i \in 1 .. n : got'[i] = buf[At(tail, i - 1)]
         /\ \A i \in 1 .. size' : At(tail', i - 1) = At(tail, n + i - 1)
  <1> USE PipeConstants
  <1>1. /\ head \in Slot /\ tail \in Slot /\ size \in 0 .. CAPACITY
        /\ head = At(tail, size) /\ buf \in [Slot -> Label]
    BY DEF IInv
  <1>2. size' = size - n /\ size' \in 0 .. CAPACITY /\ UNCHANGED <<buf, head, sent>>
    BY <1>1 DEF ring_get
  <1>3. tail' = At(tail, n) /\ tail' \in Slot
    <2>1. n \in 0 .. CAPACITY
      BY <1>1
    <2> QED
      BY <2>1, <1>1, AtIs DEF ring_get
  <1>4. head = At(tail', size')
    BY <1>1, <1>2, <1>3 DEF At, Slot
  <1>5. ASSUME NEW i \in 1 .. n
        PROVE  (tail + i - 1) % CAPACITY = At(tail, i - 1) /\ At(tail, i - 1) \in Slot
    <2>1. i - 1 \in 0 .. CAPACITY /\ tail + i - 1 = tail + (i - 1)
      BY <1>1 DEF Slot
    <2> QED
      BY <2>1, <1>1, AtIs
  <1>6. /\ got' \in [1 .. n -> Label]
        /\ \A i \in 1 .. n : got'[i] = buf[At(tail, i - 1)]
    BY <1>1, <1>5 DEF ring_get
  <1>7. \A i \in 1 .. size' : At(tail', i - 1) = At(tail, n + i - 1)
    BY <1>1, <1>2, <1>3 DEF At, Slot
  <1> QED
    BY <1>2, <1>3, <1>4, <1>6, <1>7

-----------------------------------------------------------------------------
(* The inductive invariant is kept, and every step is one of ByteStream.   *)

\* A step of the stream, with the invariant after it.
Good == IInv' /\ [Stream!Next]_<<Contents, sent, got>>

\* A write into the ring.
LEMMA PutGood ==
  ASSUME IInv, NEW n \in 1 .. CAPACITY - size, ring_put(n),
         count' \in [Task -> Int], written' \in [Task -> Int],
         pc' \in [Task -> InCall \cup {"user", "exited"}],
         \A t \in Task : pc'[t] \in {"read", "read_sleep"} => count'[t] > 0
  PROVE  Good
  <1> USE PipeConstants
  <1> DEFINE q == Contents
             l == Stream!Labelled(sent, n)
  <1>1. /\ buf' \in [Slot -> Label] /\ head' \in Slot /\ tail' = tail
        /\ size' = size + n /\ size' \in 0 .. CAPACITY /\ head' = At(tail, size')
        /\ sent' \in Label
        /\ \A i \in 1 .. size' : buf'[At(tail, i - 1)] =
             IF i <= size THEN buf[At(tail, i - 1)] ELSE (sent + (i - size) - 1) % LABELS
    BY PutIs
  <1>2. IInv'
    BY <1>1 DEF IInv
  <1>3. size \in 0 .. CAPACITY /\ sent \in Nat /\ LABELS \in Nat \ {0}
    BY DEF IInv, Label
  <1>4. q \in [1 .. size -> Label] /\ \A i \in 1 .. size : q[i] = buf[At(tail, i - 1)]
    <2>1. \A i \in 1 .. size : (tail + i - 1) % CAPACITY = At(tail, i - 1) /\ At(tail, i - 1) \in Slot
      BY PlacesAre DEF IInv
    <2> QED
      BY <2>1 DEF Contents, IInv
  <1>5. q' \in [1 .. size' -> Label] /\ \A i \in 1 .. size' : q'[i] = buf'[At(tail', i - 1)]
    <2>1. tail' \in Slot /\ size' \in 0 .. CAPACITY /\ buf' \in [Slot -> Label]
      BY <1>2 DEF IInv
    <2>2. \A i \in 1 .. size' : (tail' + i - 1) % CAPACITY = At(tail', i - 1) /\ At(tail', i - 1) \in Slot
      BY <2>1, PlacesAre
    <2> QED
      BY <2>1, <2>2 DEF Contents
  <1>6. /\ l \in [1 .. n -> Int]
        /\ \A i \in 1 .. n : l[i] = (sent + i - 1) % LABELS
    BY <1>3 DEF Stream!Labelled
  <1> DEFINE c == q'
  <1> HIDE DEF q, l, c
  <1>7. /\ q \in Seq(Int) /\ Len(q) = size
        /\ l \in Seq(Int) /\ Len(l) = n
        /\ c \in Seq(Int) /\ Len(c) = size'
    <2>1. Label \subseteq Int /\ size \in Nat /\ n \in Nat /\ size' \in Nat
      BY <1>1, <1>3 DEF Label
    <2>2. c \in [1 .. size' -> Label]
      BY <1>5 DEF c
    <2> QED
      BY <2>1, <2>2, <1>4, <1>6, FunIsSeq
  <1>9. ASSUME NEW i \in 1 .. Len(c) PROVE c[i] = IF i <= Len(q) THEN q[i] ELSE l[i - Len(q)]
    <2>0. i \in 1 .. size' /\ c[i] = buf'[At(tail, i - 1)]
      BY <1>1, <1>5, <1>7 DEF c
    <2>1. CASE i <= size
      <3>1. i \in 1 .. size
        BY <2>0, <2>1, <1>1, <1>3
      <3>2. q[i] = buf[At(tail, i - 1)]
        BY <3>1, <1>4
      <3> QED
        BY <3>2, <2>0, <2>1, <1>1, <1>7
    <2>2. CASE ~(i <= size)
      <3>1. i - size \in 1 .. n
        BY <2>0, <2>2, <1>1, <1>3
      <3>2. l[i - size] = (sent + (i - size) - 1) % LABELS
        BY <3>1, <1>6
      <3> QED
        BY <3>2, <2>0, <2>2, <1>1, <1>7
    <2> QED
      BY <2>1, <2>2
  <1>10. q' = q \o l
    <2>1. Len(c) = Len(q) + Len(l)
      BY <1>1, <1>7
    <2>2. c = q \o l
      BY <2>1, <1>7, <1>9, JoinIs
    <2> QED
      BY <2>2 DEF c
  <1>11. Stream!Put(n)
    <2>1. Len(q) + n <= CAPACITY /\ sent' = (sent + n) % LABELS /\ got' = got
      BY <1>3, <1>7 DEF ring_put
    <2> QED
      BY <2>1, <1>10 DEF Stream!Put, q, l
  <1>12. n \in 1 .. CAPACITY
    BY <1>3
  <1> QED
    BY <1>2, <1>11, <1>12 DEF Good, Stream!Next

\* A read from the ring.
LEMMA GetGood ==
  ASSUME IInv, NEW n \in 1 .. size, ring_get(n),
         count' \in [Task -> Int], written' \in [Task -> Int],
         pc' \in [Task -> InCall \cup {"user", "exited"}],
         \A t \in Task : pc'[t] \in {"read", "read_sleep"} => count'[t] > 0
  PROVE  Good
  <1> USE PipeConstants
  <1> DEFINE q == Contents
  <1>1. /\ UNCHANGED <<buf, head, sent>> /\ tail' \in Slot
        /\ size' = size - n /\ size' \in 0 .. CAPACITY /\ head = At(tail', size')
        /\ got' \in [1 .. n -> Label]
        /\ \A i \in 1 .. n : got'[i] = buf[At(tail, i - 1)]
        /\ \A i \in 1 .. size' : At(tail', i - 1) = At(tail, n + i - 1)
    BY GetIs
  <1>2. IInv'
    BY <1>1 DEF IInv
  <1>3. size \in 0 .. CAPACITY /\ n \in 1 .. CAPACITY
    BY DEF IInv
  <1>4. q \in [1 .. size -> Label] /\ \A i \in 1 .. size : q[i] = buf[At(tail, i - 1)]
    <2>1. \A i \in 1 .. size : (tail + i - 1) % CAPACITY = At(tail, i - 1) /\ At(tail, i - 1) \in Slot
      BY PlacesAre DEF IInv
    <2> QED
      BY <2>1 DEF Contents, IInv
  <1>5. q' \in [1 .. size' -> Label] /\ \A i \in 1 .. size' : q'[i] = buf'[At(tail', i - 1)]
    <2>1. tail' \in Slot /\ size' \in 0 .. CAPACITY /\ buf' \in [Slot -> Label]
      BY <1>2 DEF IInv
    <2>2. \A i \in 1 .. size' : (tail' + i - 1) % CAPACITY = At(tail', i - 1) /\ At(tail', i - 1) \in Slot
      BY <2>1, PlacesAre
    <2> QED
      BY <2>1, <2>2 DEF Contents
  <1> DEFINE r == q'
             g == got'
             from == n + 1
  <1> HIDE DEF q, r, g, from
  <1>6. /\ q \in Seq(Label) /\ Len(q) = size
        /\ r \in Seq(Label) /\ Len(r) = size'
        /\ g \in Seq(Label) /\ Len(g) = n
    <2>1. size \in Nat /\ n \in Nat /\ size' \in Nat
      BY <1>1, <1>3
    <2>2. r \in [1 .. size' -> Label] /\ g \in [1 .. n -> Label]
      BY <1>1, <1>5 DEF r, g
    <2> QED
      BY <2>1, <2>2, <1>4, FunIsSeq
  <1>7. got' = SubSeq(q, 1, n)
    <2>1. 1 \in 1 .. Len(q) + 1 /\ n \in 1 - 1 .. Len(q) /\ Len(g) = n - 1 + 1
      BY <1>3, <1>6
    <2>2. ASSUME NEW i \in 1 .. Len(g) PROVE g[i] = q[1 + i - 1]
      <3>1. i \in 1 .. n /\ i \in 1 .. size /\ 1 + i - 1 = i
        BY <1>3, <1>6
      <3> QED
        BY <3>1, <1>1, <1>4 DEF g
    <2>3. g = SubSeq(q, 1, n)
      BY <2>1, <2>2, <1>6, PartIs
    <2> QED
      BY <2>3 DEF g
  <1>8. q' = SubSeq(q, n + 1, Len(q))
    <2>1. from \in 1 .. Len(q) + 1 /\ Len(q) \in from - 1 .. Len(q) /\ Len(r) = Len(q) - from + 1
      BY <1>1, <1>3, <1>6 DEF from
    <2>2. ASSUME NEW i \in 1 .. Len(r) PROVE r[i] = q[from + i - 1]
      <3>1. i \in 1 .. size' /\ n + i \in 1 .. size /\ from + i - 1 = n + i
        BY <1>1, <1>3, <1>6 DEF from
      <3>2. q[n + i] = buf[At(tail, (n + i) - 1)]
        BY <3>1, <1>4
      <3>3. r[i] = buf[At(tail', i - 1)]
        BY <3>1, <1>1, <1>5 DEF r
      <3> QED
        BY <3>1, <3>2, <3>3, <1>1
    <2>3. r = SubSeq(q, from, Len(q))
      BY <2>1, <2>2, <1>6, PartIs
    <2> QED
      BY <2>3 DEF r, from
  <1>9. Stream!Get(n)
    <2>1. n <= Len(q) /\ sent' = sent
      BY <1>1, <1>6
    <2> QED
      BY <2>1, <1>7, <1>8 DEF Stream!Get, q
  <1> QED
    BY <1>2, <1>3, <1>9 DEF Good, Stream!Next

\* A step that leaves the ring alone.
LEMMA KeepGood ==
  ASSUME IInv, UNCHANGED ring,
         count' \in [Task -> Int], written' \in [Task -> Int],
         pc' \in [Task -> InCall \cup {"user", "exited"}],
         \A t \in Task : pc'[t] \in {"read", "read_sleep"} => count'[t] > 0
  PROVE  Good
  <1>1. IInv'
    BY DEF ring, IInv
  <1>2. UNCHANGED <<Contents, sent, got>>
    BY DEF ring, Contents
  <1> QED
    BY <1>1, <1>2 DEF Good

\* What pipe_read does.
LEMMA ReadGood ==
  ASSUME IInv, NEW t \in Task, NEW n \in Nat \ {0}, pipe_read(t, n)
  PROVE  Good
  <1>1. /\ count \in [Task -> Int] /\ written \in [Task -> Int]
        /\ pc \in [Task -> InCall \cup {"user", "exited"}]
        /\ \A u \in Task : pc[u] \in {"read", "read_sleep"} => count[u] > 0
        /\ size \in Nat
    BY PipeConstants DEF IInv
  <1>2. /\ count' \in [Task -> Int] /\ written' \in [Task -> Int]
        /\ pc' \in [Task -> InCall \cup {"user", "exited"}]
        /\ \A u \in Task : pc'[u] \in {"read", "read_sleep"} => count'[u] > 0
    BY <1>1 DEF pipe_read, Return, Stop, InCall
  <1>3. CASE size > 0 /\ ring_get(Min({n, size}))
    <2>1. Min({n, size}) \in 1 .. size
      BY <1>1, <1>3, MinTwo
    <2> QED
      BY <2>1, <1>2, <1>3, GetGood
  <1>4. CASE UNCHANGED ring
    BY <1>2, <1>4, KeepGood
  <1> QED
    BY <1>3, <1>4 DEF pipe_read

\* What pipe_write does.
LEMMA WriteGood ==
  ASSUME IInv, NEW t \in Task, NEW n \in Int, NEW done \in Int, pipe_write(t, n, done)
  PROVE  Good
  <1> DEFINE k == Min({n - done, pipe_avail})
  <1>1. /\ count \in [Task -> Int] /\ written \in [Task -> Int]
        /\ pc \in [Task -> InCall \cup {"user", "exited"}]
        /\ \A u \in Task : pc[u] \in {"read", "read_sleep"} => count[u] > 0
        /\ size \in Nat /\ CAPACITY \in Nat
    BY PipeConstants DEF IInv
  <1>2. k \in Int /\ k <= CAPACITY - size
    BY <1>1, MinTwo DEF pipe_avail
  <1>3. IF k > 0 THEN ring_put(k) ELSE UNCHANGED ring
    BY DEF pipe_write
  <1>4. \/ Return(t)
        \/ \E p \in {"write", "write_again", "write_sleep"} : Stop(t, p, n, done + k)
    BY DEF pipe_write
  <1> HIDE DEF k
  <1>5. /\ count' \in [Task -> Int] /\ written' \in [Task -> Int]
        /\ pc' \in [Task -> InCall \cup {"user", "exited"}]
        /\ \A u \in Task : pc'[u] \in {"read", "read_sleep"} => count'[u] > 0
    BY <1>1, <1>2, <1>4 DEF Return, Stop, InCall
  <1>6. CASE k > 0
    <2>1. k \in 1 .. CAPACITY - size
      BY <1>1, <1>2, <1>6
    <2> QED
      BY <2>1, <1>3, <1>5, <1>6, PutGood
  <1>7. CASE ~(k > 0)
    BY <1>3, <1>5, <1>7, KeepGood
  <1> QED
    BY <1>6, <1>7

\* What the rest of a call does.
LEMMA ContinuesGood ==
  ASSUME IInv, NEW t \in Task, continues(t)
  PROVE  Good
  <1>1. /\ count \in [Task -> Int] /\ written \in [Task -> Int]
        /\ pc \in [Task -> InCall \cup {"user", "exited"}]
        /\ \A u \in Task : pc[u] \in {"read", "read_sleep"} => count[u] > 0
    BY DEF IInv
  <1>2. CASE pc[t] = "read" /\ pipe_read(t, count[t])
    <2>1. count[t] \in Nat \ {0}
      BY <1>2, <1>1
    <2> QED
      BY <2>1, <1>2, ReadGood
  <1>3. CASE pipe_write(t, count[t], written[t])
    BY <1>3, <1>1, WriteGood
  <1>4. ASSUME NEW c \in {<<"read_sleep", "read", RD>>, <<"write_sleep", "write", WR>>},
               pc[t] = c[1], Stop(t, c[2], count[t], written[t]), UNCHANGED ring
        PROVE  Good
    <2>1. /\ count' \in [Task -> Int] /\ written' \in [Task -> Int]
          /\ pc' \in [Task -> InCall \cup {"user", "exited"}]
          /\ \A u \in Task : pc'[u] \in {"read", "read_sleep"} => count'[u] > 0
      <3>1. CASE c = <<"read_sleep", "read", RD>>
        BY <3>1, <1>1, <1>4 DEF Stop, InCall
      <3>2. CASE c = <<"write_sleep", "write", WR>>
        BY <3>2, <1>1, <1>4 DEF Stop, InCall
      <3> QED
        BY <3>1, <3>2
    <2> QED
      BY <2>1, <1>4, KeepGood
  <1> QED
    BY <1>2, <1>3, <1>4 DEF continues

\* What every step does.
LEMMA NextGood ==
  ASSUME IInv, [Next]_vars
  PROVE  Good
  <1>1. /\ count \in [Task -> Int] /\ written \in [Task -> Int]
        /\ pc \in [Task -> InCall \cup {"user", "exited"}]
        /\ \A u \in Task : pc[u] \in {"read", "read_sleep"} => count[u] > 0
    BY DEF IInv
  <1>2. ASSUME UNCHANGED ring, UNCHANGED <<pc, count, written>> PROVE Good
    BY <1>1, <1>2, KeepGood
  <1>3. ASSUME NEW t \in Task, sys_exit(t) PROVE Good
    <2>1. /\ count' \in [Task -> Int] /\ written' \in [Task -> Int]
          /\ pc' \in [Task -> InCall \cup {"user", "exited"}]
          /\ \A u \in Task : pc'[u] \in {"read", "read_sleep"} => count'[u] > 0
      BY <1>1, <1>3 DEF sys_exit
    <2>2. UNCHANGED ring
      BY <1>3 DEF sys_exit
    <2> QED
      BY <2>1, <2>2, KeepGood
  <1>4. CASE UNCHANGED vars
    BY <1>2, <1>4 DEF vars, procs
  <1>5. ASSUME NEW t \in Task, Program(t) PROVE Good
    <2>1. ASSUME NEW n \in Counts, sys_read(t, n) PROVE Good
      BY <2>1, ReadGood, PipeConstants DEF sys_read
    <2>2. ASSUME NEW n \in Counts, sys_write(t, n) PROVE Good
      BY <2>2, WriteGood, PipeConstants DEF sys_write
    <2>3. CASE sys_write_epipe(t) \/ sys_close_read(t) \/ sys_close_write(t)
               \/ \E u \in Task : sys_fork(t, u)
      BY <2>3, <1>2 DEF sys_write_epipe, sys_close_read, sys_close_write, sys_fork
    <2>4. CASE exit(t)
      BY <2>4, <1>3 DEF exit
    <2> QED
      BY <1>5, <2>1, <2>2, <2>3, <2>4 DEF Program
  <1>6. ASSUME NEW t \in Task, resume(t) PROVE Good
    <2>1. CASE sys_exit(t)
      BY <2>1, <1>3
    <2>2. CASE continues(t)
      BY <2>2, ContinuesGood
    <2>3. CASE UNCHANGED <<ring, waits, state, pc, count, written, cpu>>
      BY <2>3, <1>2
    <2> QED
      BY <1>6, <2>1, <2>2, <2>3 DEF resume
  <1>7. ASSUME NEW t \in Task, goes_on(t) PROVE Good
    <2>1. CASE continues(t)
      BY <2>1, ContinuesGood
    <2>2. CASE Return(t) /\ UNCHANGED <<ring, waits, state>>
      <3>1. /\ count' \in [Task -> Int] /\ written' \in [Task -> Int]
            /\ pc' \in [Task -> InCall \cup {"user", "exited"}]
            /\ \A u \in Task : pc'[u] \in {"read", "read_sleep"} => count'[u] > 0
        BY <2>2, <1>1 DEF Return
      <3> QED
        BY <3>1, <2>2, KeepGood
    <2> QED
      BY <1>7, <2>1, <2>2 DEF goes_on
  <1>8. ASSUME NEW t \in Task, interrupted(t) \/ \E s \in Signals : sys_kill(t, s) PROVE Good
    BY <1>8, <1>2 DEF sys_kill, interrupted, procs
  <1> QED
    BY <1>4, <1>5, <1>6, <1>7, <1>8 DEF Next

\* pipe_read returns the bytes in the order in which pipe_write stored them,
\* none lost and none twice, for any number of tasks, any capacity and any
\* counts, whatever calls interleave and whatever signals arrive.
THEOREM PipeIsStream == Spec => IsStream
  <1>1. Init => IInv
    BY InitIInv
  <1>2. IInv /\ [Next]_vars => IInv' /\ [Stream!Next]_<<Contents, sent, got>>
    BY NextGood DEF Good
  <1>3. Init => Stream!Init
    <2>1. ASSUME Init PROVE Contents = <<>>
      BY <2>1 DEF Init, Contents
    <2> QED
      BY <2>1 DEF Init, Stream!Init
  <1> QED
    BY <1>1, <1>2, <1>3, PTL DEF Spec, IsStream, Stream!Spec

-----------------------------------------------------------------------------
(* When the pipe is freed.                                                 *)

\* The counts are those of the ends that somebody holds, and who sleeps in a
\* call holds the end it uses.
Held ==
  /\ readers = (IF rfile = {} THEN 0 ELSE 1) /\ writers = (IF wfile = {} THEN 0 ELSE 1)
  /\ rfile \subseteq Task /\ wfile \subseteq Task
  /\ pc \in [Task -> InCall \cup {"user", "exited"}]
  /\ \A t \in Task :
       /\ pc[t] \in {"read", "read_sleep"} => t \in rfile
       /\ pc[t] \in {"write", "write_sleep", "write_again"} => t \in wfile

\* Every step keeps it.
LEMMA NextHeld ==
  ASSUME Held, [Next]_vars
  PROVE  Held'
  <1>1. ASSUME UNCHANGED <<ends, pc>> PROVE Held'
    BY <1>1 DEF Held, ends
  <1>2. ASSUME NEW t \in Task, sys_exit(t) PROVE Held'
    BY <1>2 DEF Held, sys_exit, closes_read, closes_write
  <1>3. ASSUME NEW t \in Task, NEW n, UNCHANGED ends, t \in rfile, pipe_read(t, n) PROVE Held'
    <2>1. \E p \in {"user", "read", "read_sleep"} : pc' = [pc EXCEPT ![t] = p]
      BY <1>3 DEF pipe_read, Return, Stop
    <2> QED
      BY <2>1, <1>3 DEF Held, ends, InCall
  <1>4. ASSUME NEW t \in Task, NEW n, NEW done, UNCHANGED ends, t \in wfile, pipe_write(t, n, done)
        PROVE  Held'
    <2>1. \E p \in {"user", "write", "write_again", "write_sleep"} : pc' = [pc EXCEPT ![t] = p]
      BY <1>4 DEF pipe_write, Return, Stop
    <2> QED
      BY <2>1, <1>4 DEF Held, ends, InCall
  <1>5. CASE UNCHANGED vars
    BY <1>1, <1>5 DEF vars, procs
  <1>6. ASSUME NEW t \in Task, Program(t) PROVE Held'
    <2>1. ASSUME NEW n \in Counts, sys_read(t, n) \/ sys_write(t, n) PROVE Held'
      BY <2>1, <1>3, <1>4 DEF sys_read, sys_write
    <2>2. CASE sys_write_epipe(t)
      BY <2>2, <1>1 DEF sys_write_epipe
    <2>3. CASE sys_close_read(t)
      BY <2>3 DEF sys_close_read, closes_read, Held, InUser
    <2>4. CASE sys_close_write(t)
      BY <2>4 DEF sys_close_write, closes_write, Held, InUser
    <2>5. CASE exit(t)
      BY <2>5, <1>2 DEF exit
    <2>6. ASSUME NEW u \in Task, sys_fork(t, u) PROVE Held'
      BY <2>6 DEF sys_fork, Held
    <2> QED
      BY <1>6, <2>1, <2>2, <2>3, <2>4, <2>5, <2>6 DEF Program
  <1>7. ASSUME NEW t \in Task, UNCHANGED ends, continues(t) PROVE Held'
    <2>1. CASE pc[t] = "read" /\ pipe_read(t, count[t])
      BY <2>1, <1>3, <1>7 DEF Held
    <2>2. CASE pc[t] \in {"write", "write_again"} /\ pipe_write(t, count[t], written[t])
      BY <2>2, <1>4, <1>7 DEF Held
    <2>3. ASSUME NEW c \in {<<"read_sleep", "read", RD>>, <<"write_sleep", "write", WR>>},
                 pc[t] = c[1], Stop(t, c[2], count[t], written[t])
          PROVE  Held'
      <3>1. CASE c = <<"read_sleep", "read", RD>>
        BY <3>1, <1>7, <2>3 DEF Held, ends, Stop, InCall
      <3>2. CASE c = <<"write_sleep", "write", WR>>
        BY <3>2, <1>7, <2>3 DEF Held, ends, Stop, InCall
      <3> QED
        BY <3>1, <3>2
    <2> QED
      BY <1>7, <2>1, <2>2, <2>3 DEF continues
  <1>8. ASSUME NEW t \in Task, resume(t) PROVE Held'
    <2>1. CASE sys_exit(t)
      BY <2>1, <1>2
    <2>2. CASE UNCHANGED ends /\ continues(t)
      BY <2>2, <1>7
    <2>3. CASE UNCHANGED ends /\ UNCHANGED <<ring, waits, state, pc, count, written, cpu>>
      BY <2>3, <1>1
    <2> QED
      BY <1>8, <2>1, <2>2, <2>3 DEF resume
  <1>9. ASSUME NEW t \in Task, goes_on(t) PROVE Held'
    <2>1. CASE UNCHANGED ends /\ continues(t)
      BY <2>1, <1>7
    <2>2. CASE UNCHANGED ends /\ Return(t)
      BY <2>2 DEF Held, ends, Return
    <2> QED
      BY <1>9, <2>1, <2>2 DEF goes_on
  <1>10. ASSUME NEW t \in Task, interrupted(t) \/ \E s \in Signals : sys_kill(t, s) PROVE Held'
    BY <1>10, <1>1 DEF sys_kill, interrupted, procs
  <1> QED
    BY <1>5, <1>6, <1>8, <1>9, <1>10 DEF Next

\* pipe_read_release and pipe_write_release free the pipe and its wait queues
\* only when nobody sleeps in it, whoever holds its ends.
THEOREM PipeFreedUnused == Spec => []FreedUnused
  <1>1. Init => Held
    BY PipeConstants DEF Init, Held
  <1>2. Held /\ [Next]_vars => Held'
    BY NextHeld
  <1>3. Held => FreedUnused
    BY DEF Held, FreedUnused, InCall
  <1> QED
    BY <1>1, <1>2, <1>3, PTL DEF Spec

=============================================================================
