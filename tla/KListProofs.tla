---------------------------- MODULE KListProofs ----------------------------
(***************************************************************************)
(* The list operations of kernel/kernel.h do to the pointers what the      *)
(* sequence operations do to the sequence, provided that a node that is    *)
(* added is not linked yet.                                                *)
(***************************************************************************)
EXTENDS KList, TLAPS

\* A node linked to itself everywhere is a list with no elements.
LEMMA InitIsEmpty ==
  ASSUME NEW Node, NEW h \in Node
  PROVE  /\ list_init(Node) \in Lists(Node)
         /\ IsList(list_init(Node), Node, h, <<>>)
  BY DEF list_init, Lists, IsList

\* The list is empty exactly when its sequence is.
LEMMA EmptyIsEmpty ==
  ASSUME NEW Node, NEW h \in Node, NEW L \in Lists(Node),
         NEW q \in Seq(Node), IsList(L, Node, h, q)
  PROVE  list_empty(L, h) <=> Len(q) = 0
  BY DEF list_empty, IsList

\* The operations keep every pointer inside the set of nodes, whatever the
\* shape of the links.
LEMMA OpsType ==
  ASSUME NEW Node, NEW L \in Lists(Node), NEW n \in Node, NEW h \in Node
  PROVE  /\ list_add(L, n, h) \in Lists(Node)
         /\ list_add_tail(L, n, h) \in Lists(Node)
         /\ list_del(L, n) \in Lists(Node)
  BY DEF list_add, list_add_tail, list_add_between, list_del, Lists

\* list_add_tail of an unlinked node appends.
LEMMA AddTailAppends ==
  ASSUME NEW Node, NEW h \in Node, NEW L \in Lists(Node),
         NEW q \in Seq(Node), IsList(L, Node, h, q),
         NEW n \in Node \ {h}, \A i \in 1 .. Len(q) : q[i] # n
  PROVE  IsList(list_add_tail(L, n, h), Node, h, Append(q, n))
  <1> DEFINE M == list_add_tail(L, n, h)
             r == Append(q, n)
             last == L.prev[h]
  <1>1. /\ Len(q) \in Nat
        /\ Len(r) = Len(q) + 1
        /\ \A i \in 1 .. Len(q) : r[i] = q[i]
        /\ r[Len(r)] = n
    OBVIOUS
  <1>2. L.next \in [Node -> Node] /\ L.prev \in [Node -> Node] /\ last \in Node
    BY DEF Lists
  <1>3. last = IF Len(q) = 0 THEN h ELSE q[Len(q)]
    BY DEF IsList
  <1>4. last # n
    BY <1>1, <1>3
  <1>5. \A x \in Node : M.next[x] = IF x = last THEN n
                                    ELSE IF x = n THEN h ELSE L.next[x]
    BY <1>2 DEF list_add_tail, list_add_between
  <1>6. \A x \in Node : M.prev[x] = IF x = n THEN last
                                    ELSE IF x = h THEN n ELSE L.prev[x]
    BY <1>2 DEF list_add_tail, list_add_between
  <1> HIDE DEF M, r, last
  <1>7. ASSUME NEW i \in 1 .. Len(r)
        PROVE  \/ i \in 1 .. Len(q) /\ i < Len(r) /\ r[i] = q[i]
               \/ i = Len(r) /\ r[i] = n
    BY <1>1
  <1>8. \A i, j \in 1 .. Len(r) : r[i] = r[j] => i = j
    <2> SUFFICES ASSUME NEW i \in 1 .. Len(r), NEW j \in 1 .. Len(r), r[i] = r[j]
                 PROVE  i = j
      OBVIOUS
    <2> QED
      BY <1>7 DEF IsList
  <1>9. \A i \in 1 .. Len(r) : r[i] \in Node /\ r[i] # h
    BY <1>7 DEF IsList
  <1>10. M.next[h] = IF Len(r) = 0 THEN h ELSE r[1]
    BY <1>1, <1>3, <1>5 DEF IsList
  <1>11. M.prev[h] = IF Len(r) = 0 THEN h ELSE r[Len(r)]
    BY <1>1, <1>6 DEF IsList
  <1>12. ASSUME NEW i \in 1 .. Len(r)
         PROVE  /\ M.next[r[i]] = IF i = Len(r) THEN h ELSE r[i + 1]
                /\ M.prev[r[i]] = IF i = 1 THEN h ELSE r[i - 1]
    <2>1. CASE i = Len(r)
      <3>1. r[i] = n /\ M.next[n] = h /\ M.prev[n] = last
        BY <2>1, <1>1, <1>4, <1>5, <1>6
      <3>2. i = Len(q) + 1
        BY <2>1, <1>1
      <3>3. last = IF i = 1 THEN h ELSE r[i - 1]
        BY <3>2, <1>1, <1>3
      <3> QED
        BY <3>1, <3>3, <2>1
    <2>2. CASE i # Len(r)
      <3>1. i \in 1 .. Len(q) /\ r[i] = q[i] /\ q[i] \in Node /\ q[i] # h /\ q[i] # n
        BY <2>2, <1>7 DEF IsList
      <3>2. M.prev[q[i]] = IF i = 1 THEN h ELSE q[i - 1]
        BY <3>1, <1>6 DEF IsList
      <3>3. M.prev[r[i]] = IF i = 1 THEN h ELSE r[i - 1]
        BY <3>1, <3>2, <1>1
      <3>4. CASE i = Len(q)
        BY <3>1, <3>3, <3>4, <1>1, <1>3, <1>5
      <3>5. CASE i # Len(q)
        <4>1. q[i] # last
          BY <3>1, <3>5, <1>1, <1>3 DEF IsList
        <4>2. M.next[q[i]] = q[i + 1]
          BY <4>1, <3>1, <3>5, <1>5 DEF IsList
        <4>3. i + 1 \in 1 .. Len(q)
          BY <3>1, <3>5, <1>1
        <4>4. r[i + 1] = q[i + 1]
          BY <4>3, <1>1
        <4> QED
          BY <4>2, <4>4, <3>1, <3>3, <2>2
      <3> QED
        BY <3>4, <3>5
    <2> QED
      BY <2>1, <2>2
  <1>13. ASSUME NEW m \in Node \ {h}, \A i \in 1 .. Len(r) : r[i] # m
         PROVE  M.next[m] = m /\ M.prev[m] = m
    <2>1. m # n /\ \A i \in 1 .. Len(q) : q[i] # m
      BY <1>1, <1>13
    <2>2. m # last
      BY <2>1, <1>1, <1>3
    <2> QED
      BY <2>1, <2>2, <1>5, <1>6 DEF IsList
  <1>14. IsList(M, Node, h, r)
    BY <1>8, <1>9, <1>10, <1>11, <1>12, <1>13 DEF IsList
  <1> QED
    BY <1>14 DEF M, r

\* list_del of the k-th element removes it and leaves it unlinked.
LEMMA DelRemoves ==
  ASSUME NEW Node, NEW h \in Node, NEW L \in Lists(Node),
         NEW q \in Seq(Node), IsList(L, Node, h, q),
         NEW k \in 1 .. Len(q)
  PROVE  /\ IsList(list_del(L, q[k]), Node, h, Without(q, k))
         /\ Without(q, k) \in Seq(Node)
         /\ Len(Without(q, k)) = Len(q) - 1
  <1> DEFINE M  == list_del(L, q[k])
             r  == Without(q, k)
             e  == q[k]
             pv == L.prev[e]
             nx == L.next[e]
  <1>1. Len(q) \in Nat /\ Len(q) >= 1 /\ k \in Nat /\ 1 <= k /\ k <= Len(q)
    OBVIOUS
  <1>2. r \in Seq(Node) /\ Len(r) = Len(q) - 1
    <2>1. r \in [1 .. Len(q) - 1 -> Node]
      BY <1>1 DEF Without
    <2> QED
      BY <1>1, <2>1
  <1>3. \A i \in 1 .. Len(r) : r[i] = IF i < k THEN q[i] ELSE q[i + 1]
    BY <1>1, <1>2 DEF Without
  <1>4. /\ L.next \in [Node -> Node] /\ L.prev \in [Node -> Node]
        /\ e \in Node /\ e # h /\ pv \in Node /\ nx \in Node
    BY DEF Lists, IsList
  <1>5. /\ pv = IF k = 1 THEN h ELSE q[k - 1]
        /\ nx = IF k = Len(q) THEN h ELSE q[k + 1]
    BY DEF IsList
  <1>6. \A x \in Node : M.next[x] = IF x = e THEN e
                                    ELSE IF x = pv THEN nx ELSE L.next[x]
    BY <1>4 DEF list_del
  <1>7. \A x \in Node : M.prev[x] = IF x = e THEN e
                                    ELSE IF x = nx THEN pv ELSE L.prev[x]
    BY <1>4 DEF list_del
  <1> HIDE DEF M, r, pv, nx
  <1>8. \A i, j \in 1 .. Len(r) : r[i] = r[j] => i = j
    BY <1>1, <1>2, <1>3 DEF IsList
  <1>9. \A i \in 1 .. Len(r) : r[i] \in Node /\ r[i] # h /\ r[i] # e
    BY <1>1, <1>2, <1>3 DEF IsList
  <1>10. M.next[h] = IF Len(r) = 0 THEN h ELSE r[1]
    BY <1>1, <1>2, <1>3, <1>4, <1>5, <1>6 DEF IsList
  <1>11. M.prev[h] = IF Len(r) = 0 THEN h ELSE r[Len(r)]
    <2>1. CASE k = Len(q)
      BY <2>1, <1>1, <1>2, <1>3, <1>4, <1>5, <1>7 DEF IsList
    <2>2. CASE k # Len(q)
      <3>1. nx # h /\ M.prev[h] = q[Len(q)]
        BY <2>2, <1>1, <1>4, <1>5, <1>7 DEF IsList
      <3>2. Len(r) \in 1 .. Len(r) /\ ~(Len(r) < k) /\ Len(r) + 1 = Len(q)
        BY <2>2, <1>1, <1>2
      <3> QED
        BY <3>1, <3>2, <1>3
    <2> QED
      BY <2>1, <2>2
  <1>12. ASSUME NEW i \in 1 .. Len(r)
         PROVE  M.next[r[i]] = IF i = Len(r) THEN h ELSE r[i + 1]
    <2>1. CASE i < k
      <3>1. i \in 1 .. Len(q) /\ r[i] = q[i] /\ q[i] # e
        BY <2>1, <1>1, <1>2, <1>3, <1>9
      <3>2. CASE i = k - 1
        <4>1. pv = q[i] /\ M.next[r[i]] = nx
          BY <3>1, <3>2, <1>1, <1>4, <1>5, <1>6
        <4>2. i + 1 = k /\ (i = Len(r) <=> k = Len(q))
          BY <3>2, <1>1, <1>2
        <4>3. i # Len(r) => r[i + 1] = q[k + 1]
          BY <4>2, <1>1, <1>2, <1>3
        <4> QED
          BY <4>1, <4>2, <4>3, <1>5
      <3>3. CASE i # k - 1
        <4>1. i + 1 < k /\ i + 1 \in 1 .. Len(r) /\ i # Len(r) /\ i # Len(q)
          BY <2>1, <3>3, <1>1, <1>2
        <4>2. q[i] # pv
          BY <3>1, <3>3, <4>1, <1>1, <1>5 DEF IsList
        <4>3. M.next[q[i]] = q[i + 1]
          BY <3>1, <4>1, <4>2, <1>4, <1>6 DEF IsList
        <4> QED
          BY <3>1, <4>1, <4>3, <1>3
      <3> QED
        BY <3>2, <3>3
    <2>2. CASE ~(i < k)
      <3>1. i + 1 \in 1 .. Len(q) /\ r[i] = q[i + 1] /\ q[i + 1] # e /\ q[i + 1] \in Node
        BY <2>2, <1>1, <1>2, <1>3, <1>9
      <3>2. q[i + 1] # pv
        BY <3>1, <2>2, <1>1, <1>5 DEF IsList
      <3>3. M.next[r[i]] = IF i + 1 = Len(q) THEN h ELSE q[(i + 1) + 1]
        BY <3>1, <3>2, <1>6 DEF IsList
      <3>4. i = Len(r) <=> i + 1 = Len(q)
        BY <1>1, <1>2
      <3>5. i # Len(r) => r[i + 1] = q[(i + 1) + 1]
        BY <2>2, <1>1, <1>2, <1>3
      <3> QED
        BY <3>3, <3>4, <3>5
    <2> QED
      BY <2>1, <2>2
  <1>13. ASSUME NEW i \in 1 .. Len(r)
         PROVE  M.prev[r[i]] = IF i = 1 THEN h ELSE r[i - 1]
    <2>1. CASE i < k
      <3>1. i \in 1 .. Len(q) /\ r[i] = q[i] /\ q[i] # e /\ q[i] \in Node /\ q[i] # h
        BY <2>1, <1>1, <1>2, <1>3, <1>9
      <3>2. q[i] # nx
        BY <3>1, <2>1, <1>1, <1>5 DEF IsList
      <3>3. M.prev[q[i]] = IF i = 1 THEN h ELSE q[i - 1]
        BY <3>1, <3>2, <1>7 DEF IsList
      <3>4. i # 1 => r[i - 1] = q[i - 1]
        BY <2>1, <1>1, <1>2, <1>3
      <3> QED
        BY <3>1, <3>3, <3>4
    <2>2. CASE i = k
      <3>1. k # Len(q) /\ r[i] = q[k + 1] /\ r[i] # e /\ nx = q[k + 1] /\ r[i] \in Node
        BY <2>2, <1>1, <1>2, <1>3, <1>5, <1>9
      <3>2. M.prev[r[i]] = pv
        BY <3>1, <1>7
      <3>3. i # 1 => r[i - 1] = q[k - 1]
        BY <2>2, <1>1, <1>2, <1>3
      <3> QED
        BY <3>2, <3>3, <2>2, <1>5
    <2>3. CASE i > k
      <3>1. /\ i + 1 \in 1 .. Len(q) /\ r[i] = q[i + 1] /\ q[i + 1] # e
            /\ q[i + 1] \in Node /\ q[i + 1] # h
        BY <2>3, <1>1, <1>2, <1>3, <1>9
      <3>2. q[i + 1] # nx
        BY <3>1, <2>3, <1>1, <1>5 DEF IsList
      <3>3. M.prev[r[i]] = L.prev[q[i + 1]]
        BY <3>1, <3>2, <1>7
      <3>4. L.prev[q[i + 1]] = q[(i + 1) - 1] /\ (i + 1) - 1 = i
        BY <3>1, <2>3, <1>1 DEF IsList
      <3>5. r[i - 1] = q[i] /\ i # 1
        BY <2>3, <1>1, <1>2, <1>3
      <3> QED
        BY <3>3, <3>4, <3>5
    <2> QED
      BY <2>1, <2>2, <2>3, <1>1, <1>2
  <1>14. ASSUME NEW m \in Node \ {h}, \A i \in 1 .. Len(r) : r[i] # m
         PROVE  M.next[m] = m /\ M.prev[m] = m
    <2>1. CASE m # e
      <3>1. ASSUME NEW i \in 1 .. Len(q) PROVE q[i] # m
        <4>1. CASE i < k
          BY <4>1, <1>1, <1>2, <1>3, <1>14
        <4>2. CASE i > k
          <5>1. i - 1 \in 1 .. Len(r) /\ ~(i - 1 < k) /\ (i - 1) + 1 = i
            BY <4>2, <1>1, <1>2
          <5> QED
            BY <5>1, <1>3, <1>14
        <4> QED
          BY <4>1, <4>2, <2>1, <1>1
      <3>2. L.next[m] = m /\ L.prev[m] = m
        BY <3>1 DEF IsList
      <3>3. m # pv /\ m # nx
        BY <3>1, <1>1, <1>5
      <3> QED
        BY <3>2, <3>3, <2>1, <1>6, <1>7
    <2> QED
      BY <2>1, <1>4, <1>6, <1>7
  <1>15. IsList(M, Node, h, r)
    BY <1>8, <1>9, <1>10, <1>11, <1>12, <1>13, <1>14 DEF IsList
  <1> QED
    BY <1>2, <1>15 DEF M, r

=============================================================================
