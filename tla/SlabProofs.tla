---------------------------- MODULE SlabProofs -----------------------------
(***************************************************************************)
(* The stacks and the lists of a slab cache are exact, for any number of   *)
(* slabs and any capacity.  A list is taken as the set of slabs that its   *)
(* pointers lead through.                                                  *)
(***************************************************************************)
EXTENDS Slab, KListProofs, FiniteSetTheorems, TLAPS

\* The pointers of T and of h stay in T and h.
Closed(L, h, T) == \A x \in T \cup {h} : L.next[x] \in T \cup {h}

\* The pointers lead from h through M and back to h.
Ring(L, h, M) == Closed(L, h, M) /\ \A T \in SUBSET M : Closed(L, h, T) => T = M

\* prev and next are inverse to each other.
TwoWay(L, N) == \A x \in N : L.next[L.prev[x]] = x /\ L.prev[L.next[x]] = x

\* A list_for_each from h visits the slabs of the ring of h.
LEMMA MembersAreRing ==
  ASSUME NEW L, NEW h, NEW M \in SUBSET made, Ring(L, h, M)
  PROVE  Members(L, h) = M
  <1>1. \A s \in Members(L, h) : s \in M
    BY DEF Members, Ring, Closed
  <1>2. ASSUME NEW s \in M, NEW T \in SUBSET made, Closed(L, h, T)
        PROVE  s \in T
    <2>1. Closed(L, h, T \cap M)
      BY <1>2 DEF Closed, Ring
    <2> QED
      BY <2>1, <1>2 DEF Ring
  <1>3. \A s \in M : s \in Members(L, h)
    BY <1>2 DEF Members, Closed
  <1> QED
    BY <1>1, <1>3

\* The nodes whose pointers list_add changes, and how.
LEMMA AddIs ==
  ASSUME NEW N, NEW L \in Lists(N), NEW n \in N, NEW h \in N, n # h
  PROVE  /\ list_add(L, n, h) \in Lists(N)
         /\ \A x \in N : list_add(L, n, h).next[x] =
              IF x = h THEN n ELSE IF x = n THEN L.next[h] ELSE L.next[x]
         /\ \A x \in N : list_add(L, n, h).prev[x] =
              IF x = n THEN h ELSE IF x = L.next[h] THEN n ELSE L.prev[x]
  BY DEF list_add, list_add_between, Lists

\* The nodes whose pointers list_del changes, and how.
LEMMA DelIs ==
  ASSUME NEW N, NEW L \in Lists(N), NEW e \in N
  PROVE  /\ list_del(L, e) \in Lists(N)
         /\ \A x \in N : list_del(L, e).next[x] =
              IF x = e THEN e ELSE IF x = L.prev[e] THEN L.next[e] ELSE L.next[x]
         /\ \A x \in N : list_del(L, e).prev[x] =
              IF x = e THEN e ELSE IF x = L.next[e] THEN L.prev[e] ELSE L.prev[x]
  BY DEF list_del, Lists

\* list_add puts n into the ring of h.
LEMMA AddJoins ==
  ASSUME NEW N, NEW L \in Lists(N), NEW n \in N, NEW h \in N, n # h,
         NEW M \in SUBSET N, n \notin M, h \notin M, Ring(L, h, M)
  PROVE  Ring(list_add(L, n, h), h, M \cup {n})
  <1> DEFINE K == list_add(L, n, h)
  <1>1. \A x \in N : K.next[x] = IF x = h THEN n ELSE IF x = n THEN L.next[h] ELSE L.next[x]
    BY AddIs
  <1> HIDE DEF K
  <1>2. Closed(K, h, M \cup {n})
    BY <1>1 DEF Closed, Ring
  <1>3. ASSUME NEW T \in SUBSET (M \cup {n}), Closed(K, h, T)
        PROVE  T = M \cup {n}
    <2>1. n \in T
      BY <1>1, <1>3 DEF Closed
    <2>2. Closed(L, h, T \ {n})
      BY <2>1, <1>1, <1>3 DEF Closed, Ring
    <2>3. T \ {n} = M
      BY <2>2 DEF Ring
    <2> QED
      BY <2>1, <2>3
  <1> QED
    BY <1>2, <1>3 DEF Ring, K

\* A ring that shares no node with what changes is as it was.
LEMMA RingKept ==
  ASSUME NEW L, NEW K, NEW h, NEW M,
         \A x \in M \cup {h} : K.next[x] = L.next[x], Ring(L, h, M)
  PROVE  Ring(K, h, M)
  BY DEF Ring, Closed

\* What leads to a node of a ring is in the ring.
LEMMA PrevInRing ==
  ASSUME NEW N, NEW L \in Lists(N), TwoWay(L, N), NEW h \in N,
         NEW M \in SUBSET N, h \notin M, Ring(L, h, M), NEW e \in M
  PROVE  L.prev[e] \in (M \cup {h}) \ {e}
  <1>1. \A x \in M \cup {h} : L.next[x] = e => x = L.prev[e]
    BY DEF TwoWay
  <1>2. ASSUME L.prev[e] \notin (M \cup {h}) \ {e} PROVE FALSE
    <2>1. \A x \in (M \ {e}) \cup {h} : L.next[x] # e
      BY <1>1, <1>2
    <2>2. Closed(L, h, M \ {e})
      BY <2>1 DEF Closed, Ring
    <2> QED
      BY <2>2 DEF Ring
  <1> QED
    BY <1>2

\* list_del takes e out of its ring.
LEMMA DelLeaves ==
  ASSUME NEW N, NEW L \in Lists(N), TwoWay(L, N), NEW h \in N,
         NEW M \in SUBSET N, h \notin M, Ring(L, h, M), NEW e \in M
  PROVE  Ring(list_del(L, e), h, M \ {e})
  <1> DEFINE K == list_del(L, e)
             pv == L.prev[e]
  <1>1. \A x \in N : K.next[x] = IF x = e THEN e ELSE IF x = pv THEN L.next[e] ELSE L.next[x]
    BY DelIs
  <1> HIDE DEF K
  <1>2. pv \in (M \cup {h}) \ {e} /\ L.next[pv] = e
    BY PrevInRing DEF TwoWay
  <1>3. \A x \in N : L.next[x] = e => x = pv
    BY DEF TwoWay
  <1> HIDE DEF pv
  <1>4. Closed(K, h, M \ {e})
    BY <1>1, <1>2, <1>3 DEF Closed, Ring
  <1>5. ASSUME NEW T \in SUBSET (M \ {e}), Closed(K, h, T)
        PROVE  T = M \ {e}
    <2>1. CASE pv \in T \cup {h}
      <3>1. Closed(L, h, T \cup {e})
        BY <2>1, <1>1, <1>2, <1>5 DEF Closed
      <3>2. T \cup {e} = M
        BY <3>1 DEF Ring
      <3> QED
        BY <3>2
    <2>2. CASE pv \notin T \cup {h}
      <3>1. Closed(L, h, T)
        BY <2>2, <1>1, <1>5 DEF Closed
      <3> QED
        BY <3>1 DEF Ring
    <2> QED
      BY <2>1, <2>2
  <1> QED
    BY <1>4, <1>5 DEF Ring, K

\* list_add of a node that is linked to itself keeps the inverse.
LEMMA AddTwoWay ==
  ASSUME NEW N, NEW L \in Lists(N), TwoWay(L, N), NEW n \in N, NEW h \in N,
         n # h, L.next[n] = n, L.prev[n] = n
  PROVE  TwoWay(list_add(L, n, h), N)
  <1> DEFINE K == list_add(L, n, h)
             nx == L.next[h]
  <1>1. /\ \A x \in N : K.next[x] = IF x = h THEN n ELSE IF x = n THEN nx ELSE L.next[x]
        /\ \A x \in N : K.prev[x] = IF x = n THEN h ELSE IF x = nx THEN n ELSE L.prev[x]
    BY AddIs
  <1>2. /\ nx \in N /\ L.prev[nx] = h /\ nx # n
        /\ \A x \in N : L.next[x] \in N /\ L.prev[x] \in N
    BY DEF Lists, TwoWay
  <1> HIDE DEF K
  <1>3. \A x \in N : K.next[K.prev[x]] = x
    BY <1>1, <1>2 DEF TwoWay
  <1>4. \A x \in N : K.prev[K.next[x]] = x
    BY <1>1, <1>2 DEF TwoWay
  <1> QED
    BY <1>3, <1>4 DEF TwoWay, K

\* list_del keeps the inverse.
LEMMA DelTwoWay ==
  ASSUME NEW N, NEW L \in Lists(N), TwoWay(L, N), NEW e \in N
  PROVE  TwoWay(list_del(L, e), N)
  <1> DEFINE K == list_del(L, e)
             nx == L.next[e]
             pv == L.prev[e]
  <1>1. /\ \A x \in N : K.next[x] = IF x = e THEN e ELSE IF x = pv THEN nx ELSE L.next[x]
        /\ \A x \in N : K.prev[x] = IF x = e THEN e ELSE IF x = nx THEN pv ELSE L.prev[x]
    BY DelIs
  <1>2. /\ L.prev[nx] = e /\ L.next[pv] = e /\ nx \in N /\ pv \in N
        /\ \A x \in N : L.next[x] \in N /\ L.prev[x] \in N
    BY DEF Lists, TwoWay
  <1> HIDE DEF K
  <1>3. \A x \in N : K.next[K.prev[x]] = x
    BY <1>1, <1>2 DEF TwoWay
  <1>4. \A x \in N : K.prev[K.next[x]] = x
    BY <1>1, <1>2 DEF TwoWay
  <1> QED
    BY <1>3, <1>4 DEF TwoWay, K

-----------------------------------------------------------------------------
(* The three lists.                                                        *)

Heads == {FULL, PARTIAL, FREE}

\* The list for a slab with n objects in use.
ListFor(n) == IF n = 0 THEN FREE ELSE IF n = CAP THEN FULL ELSE PARTIAL

\* The slabs of m that belong to list h, u being their counts.
On(m, u, h) == {s \in m : ListFor(u[s]) = h}

\* The pointers are as the counts call for.
Linked(L, m, u) ==
  /\ L \in Lists(Node) /\ TwoWay(L, Node)
  /\ \A h \in Heads : Ring(L, h, On(m, u, h))
  /\ \A s \in Slabs \ m : L.next[s] = s /\ L.prev[s] = s

\* A slab whose count becomes n moves to the list for n.
LEMMA Moved ==
  ASSUME NEW m \in SUBSET Slabs, NEW u \in [Slabs -> 0 .. CAP], NEW L, Linked(L, m, u),
         NEW s \in m, NEW n \in 0 .. CAP
  PROVE  Linked(list_add(list_del(L, s), s, ListFor(n)), m, [u EXCEPT ![s] = n])
  <1> USE SlabConstants DEF Heads
  <1> DEFINE D == list_del(L, s)
             h == ListFor(n)
             A == list_add(D, s, h)
             v == [u EXCEPT ![s] = n]
             from == ListFor(u[s])
  <1>1. /\ L \in Lists(Node) /\ TwoWay(L, Node) /\ s \in Node /\ s \notin Heads
        /\ h \in Heads /\ from \in Heads /\ Heads \subseteq Node
        /\ \A g \in Heads : On(m, u, g) \in SUBSET Node /\ g \notin On(m, u, g)
    BY DEF Linked, Node, ListFor, On
  <1>2. D \in Lists(Node) /\ TwoWay(D, Node)
    BY <1>1, DelIs, DelTwoWay
  <1>d. /\ \A x \in Node : D.next[x] = IF x = s THEN s ELSE IF x = L.prev[s] THEN L.next[s] ELSE L.next[x]
        /\ \A x \in Node : D.prev[x] = IF x = s THEN s ELSE IF x = L.next[s] THEN L.prev[s] ELSE L.prev[x]
    BY <1>1, DelIs
  <1>3. D.next[s] = s /\ D.prev[s] = s
    BY <1>1, <1>d
  <1>4. A \in Lists(Node) /\ TwoWay(A, Node)
    BY <1>1, <1>2, <1>3, AddIs, AddTwoWay
  <1>a. /\ \A x \in Node : A.next[x] = IF x = h THEN s ELSE IF x = s THEN D.next[h] ELSE D.next[x]
        /\ \A x \in Node : A.prev[x] = IF x = s THEN h ELSE IF x = D.next[h] THEN s ELSE D.prev[x]
    <2>1. s \in Node /\ h \in Node /\ s # h
      BY <1>1
    <2> HIDE DEF h, D
    <2> QED
      BY <2>1, <1>2, AddIs
  <1>5. Ring(D, from, On(m, u, from) \ {s})
    BY <1>1, DelLeaves DEF Linked, On
  <1>6. L.prev[s] \in On(m, u, from) \cup {from}
    BY <1>1, PrevInRing DEF Linked, On
  <1> HIDE DEF D, A, v
  <1>7. ASSUME NEW g \in Heads PROVE Ring(D, g, On(m, u, g) \ {s})
    <2>1. CASE g # from
      <3>1. On(m, u, g) \ {s} = On(m, u, g)
        BY <2>1 DEF On
      <3>2. \A x \in On(m, u, g) \cup {g} : x \in Node /\ x # s /\ x # L.prev[s]
        BY <2>1, <1>1, <1>6 DEF On
      <3>3. \A x \in On(m, u, g) \cup {g} : D.next[x] = L.next[x]
        BY <3>2, <1>d
      <3> QED
        <4>1. Ring(L, g, On(m, u, g))
          BY DEF Linked
        <4>2. Ring(D, g, On(m, u, g))
          BY <4>1, <3>3, RingKept, Zenon
        <4> QED
          BY <4>2, <3>1
    <2> QED
      BY <2>1, <1>5
  <1>8. ASSUME NEW g \in Heads PROVE Ring(A, g, On(m, v, g))
    <2>1. CASE g = h
      <3>1. On(m, v, h) = (On(m, u, h) \ {s}) \cup {s}
        BY DEF On, v
      <3>2. /\ On(m, u, h) \ {s} \in SUBSET Node /\ h \notin On(m, u, h) \ {s}
            /\ s \notin On(m, u, h) \ {s} /\ s # h /\ h \in Node
        BY <1>1
      <3>3. Ring(D, h, On(m, u, h) \ {s})
        BY <1>1, <1>7
      <3> HIDE DEF h
      <3>4. Ring(A, h, (On(m, u, h) \ {s}) \cup {s})
        BY <3>2, <3>3, <1>1, <1>2, AddJoins DEF A
      <3> QED
        BY <3>1, <3>4, <2>1
    <2>2. CASE g # h
      <3>1. On(m, v, g) = On(m, u, g) \ {s}
        BY <2>2 DEF On, v
      <3>2. \A x \in (On(m, u, g) \ {s}) \cup {g} : x \in Node /\ x # s /\ x # h
        BY <2>2, <1>1 DEF On, Node
      <3>3. s # h /\ h \in Node
        BY <1>1
      <3> HIDE DEF h
      <3>4. \A x \in (On(m, u, g) \ {s}) \cup {g} : A.next[x] = D.next[x]
        BY <3>2, <1>a
      <3> QED
        <4>1. Ring(D, g, On(m, u, g) \ {s})
          BY <1>7
        <4>2. Ring(A, g, On(m, u, g) \ {s})
          BY <4>1, <3>4, RingKept, Zenon
        <4> QED
          BY <4>2, <3>1
    <2> QED
      BY <2>1, <2>2
  <1>9. ASSUME NEW x \in Slabs \ m PROVE A.next[x] = x /\ A.prev[x] = x
    <2>1. x \in Node /\ x # s /\ x \notin Heads /\ L.next[x] = x /\ L.prev[x] = x
      BY DEF Linked, Node
    <2>2. x # L.prev[s] /\ x # L.next[s]
      BY <2>1, <1>1 DEF TwoWay
    <2>3. D.next[x] = x /\ D.prev[x] = x
      BY <2>1, <2>2, <1>d
    <2>4. D.next[h] # x
      BY <2>1, <2>3, <1>1, <1>2 DEF TwoWay
    <2>5. x # h /\ h \in Node /\ s # h
      BY <2>1, <1>1
    <2> HIDE DEF h
    <2> QED
      BY <2>1, <2>3, <2>4, <2>5, <1>a
  <1> QED
    BY <1>4, <1>8, <1>9 DEF Linked, A, D, v

\* A slab that is set up goes to the list of the free ones.
LEMMA Made ==
  ASSUME NEW m \in SUBSET Slabs, NEW u \in [Slabs -> 0 .. CAP], NEW L, Linked(L, m, u),
         NEW s \in Slabs \ m, u[s] = 0
  PROVE  Linked(list_add(L, s, FREE), m \cup {s}, u)
  <1> USE SlabConstants DEF Heads
  <1> DEFINE A == list_add(L, s, FREE)
             n == m \cup {s}
  <1>1. /\ L \in Lists(Node) /\ TwoWay(L, Node) /\ s \in Node /\ s \notin Heads
        /\ Heads \subseteq Node /\ L.next[s] = s /\ L.prev[s] = s
        /\ \A g \in Heads : On(m, u, g) \in SUBSET Node /\ g \notin On(m, u, g) /\ s \notin On(m, u, g)
    BY DEF Linked, Node, On
  <1>2. A \in Lists(Node) /\ TwoWay(A, Node)
    BY <1>1, AddIs, AddTwoWay
  <1>a. /\ \A x \in Node : A.next[x] = IF x = FREE THEN s ELSE IF x = s THEN L.next[FREE] ELSE L.next[x]
        /\ \A x \in Node : A.prev[x] = IF x = s THEN FREE ELSE IF x = L.next[FREE] THEN s ELSE L.prev[x]
    <2>1. L \in Lists(Node) /\ s \in Node /\ FREE \in Node /\ s # FREE
      BY <1>1
    <2> QED
      BY <2>1 DEF list_add, list_add_between, Lists
  <1>3. On(n, u, FREE) = On(m, u, FREE) \cup {s}
    BY DEF On, ListFor
  <1>4. Ring(A, FREE, On(n, u, FREE))
    <2>1. Ring(L, FREE, On(m, u, FREE))
      BY DEF Linked
    <2>2. Ring(A, FREE, On(m, u, FREE) \cup {s})
      BY <2>1, <1>1, AddJoins
    <2> QED
      BY <2>2, <1>3
  <1> HIDE DEF A
  <1>5. ASSUME NEW g \in Heads \ {FREE} PROVE Ring(A, g, On(n, u, g))
    <2>1. On(n, u, g) = On(m, u, g)
      BY DEF On, ListFor
    <2>2. \A x \in On(m, u, g) \cup {g} : x \in Node /\ x # s /\ x # FREE
      BY <1>1 DEF On
    <2>3. \A x \in On(m, u, g) \cup {g} : A.next[x] = L.next[x]
      BY <2>2, <1>a
    <2> QED
      BY <2>1, <2>3, RingKept DEF Linked
  <1>6. ASSUME NEW x \in Slabs \ n PROVE A.next[x] = x /\ A.prev[x] = x
    <2>1. x \in Node /\ x # s /\ x # FREE /\ L.next[x] = x /\ L.prev[x] = x
      BY DEF Linked, Node
    <2>2. x # L.next[FREE]
      BY <2>1, <1>1 DEF TwoWay
    <2> QED
      BY <2>1, <2>2, <1>a
  <1> QED
    BY <1>2, <1>4, <1>5, <1>6 DEF Linked, A

-----------------------------------------------------------------------------
(* The stacks.                                                             *)

\* What lies below t on the stack g.
Below(g, t) == {g[k] : k \in 0 .. t - 1}

\* No index is twice below t on the stack g.
Once(g, t) == \A j, k \in 0 .. t - 1 : g[j] = g[k] => j = k

\* Everything below the top of a stack of the capacity is an index.
LEMMA BelowFinite ==
  ASSUME NEW g \in [Index -> Index], NEW t \in 0 .. CAP
  PROVE  /\ Below(g, t) \subseteq Index
         /\ IsFiniteSet(Below(g, t)) /\ IsFiniteSet(Index) /\ Cardinality(Index) = CAP
  <1> USE SlabConstants
  <1>1. Below(g, t) \subseteq Index
    BY DEF Below, Index
  <1>2. IsFiniteSet(0 .. CAP - 1) /\ Cardinality(0 .. CAP - 1) = CAP
    BY FS_Interval
  <1> QED
    BY <1>1, <1>2, FS_Subset DEF Index

\* Taking the top index off.
LEMMA Popped ==
  ASSUME NEW g \in [Index -> Index], NEW t \in 1 .. CAP, Once(g, t),
         Cardinality(Below(g, t)) = t
  PROVE  /\ g[t - 1] \in Below(g, t) /\ Once(g, t - 1)
         /\ Below(g, t - 1) = Below(g, t) \ {g[t - 1]}
         /\ Cardinality(Below(g, t - 1)) = t - 1
  <1> USE SlabConstants
  <1>1. g[t - 1] \in Below(g, t) /\ Once(g, t - 1)
    BY DEF Below, Once
  <1>2. Below(g, t - 1) = Below(g, t) \ {g[t - 1]}
    BY DEF Below, Once
  <1>3. IsFiniteSet(Below(g, t))
    BY BelowFinite
  <1>4. Cardinality(Below(g, t) \ {g[t - 1]}) = t - 1
    BY <1>1, <1>3, FS_RemoveElement
  <1> QED
    BY <1>1, <1>2, <1>4

\* There is room for an index that is not on the stack.
LEMMA Room ==
  ASSUME NEW g \in [Index -> Index], NEW t \in 0 .. CAP,
         Cardinality(Below(g, t)) = t, NEW i \in Index \ Below(g, t)
  PROVE  t < CAP
  <1> USE SlabConstants
  <1>1. /\ Below(g, t) \subseteq Index /\ IsFiniteSet(Below(g, t))
        /\ IsFiniteSet(Index) /\ Cardinality(Index) = CAP
    BY BelowFinite
  <1>2. t # CAP
    BY <1>1, FS_Subset
  <1> QED
    BY <1>2

-----------------------------------------------------------------------------
(* The inductive invariant.                                                *)

IInv ==
  /\ StacksExact
  /\ \A s \in made : Once(free_list[s], free_top[s])
  /\ \A s \in Slabs \ made :
       /\ inuse[s] = 0 /\ free_list[s] = [i \in Index |-> i]
       /\ \A i \in Index : <<s, i>> \notin held
  /\ Linked(links, made, inuse)

\* The state of an empty cache, of kmem_cache_create and after
\* kmem_cache_destroy.
LEMMA EmptyLinked ==
  Linked(list_init(Node), {}, [s \in Slabs |-> 0])
  <1>1. list_init(Node) \in Lists(Node) /\ TwoWay(list_init(Node), Node)
    BY DEF list_init, Lists, TwoWay
  <1>2. \A x \in Node : list_init(Node).next[x] = x /\ list_init(Node).prev[x] = x
    BY DEF list_init
  <1>3. \A h \in Heads : Ring(list_init(Node), h, {})
    BY <1>2 DEF Ring, Closed, Heads, Node
  <1>4. \A h \in Heads : On({}, [s \in Slabs |-> 0], h) = {}
    BY DEF On
  <1> QED
    BY <1>1, <1>2, <1>3, <1>4 DEF Linked, Node

\* The first state satisfies the invariant.
LEMMA InitIInv == Init => IInv
  <1> USE SlabConstants
  <1> SUFFICES ASSUME Init PROVE IInv
    OBVIOUS
  <1>1. TypeOK
    BY EmptyLinked DEF Init, TypeOK, Linked, Index
  <1> QED
    BY <1>1, EmptyLinked DEF Init, IInv, StacksExact

\* Taking an object from a slab that has top free ones.
LEMMA TakeIInv ==
  ASSUME IInv, NEW L, NEW s \in made', NEW top \in 1 .. CAP, take(L, s, top),
         free_list' = free_list, made' \in SUBSET Slabs, made \subseteq made',
         made' \subseteq made \cup {s},
         inuse[s] + top = CAP, Linked(L, made', inuse), Once(free_list[s], top),
         Below(free_list[s], top) = {i \in Index : <<s, i>> \notin held},
         Cardinality(Below(free_list[s], top)) = top
  PROVE  IInv'
  <1> USE SlabConstants
  <1> DEFINE g == free_list[s]
             u == inuse[s] + 1
  <1>1. /\ TypeOK /\ g \in [Index -> Index] /\ s \in Slabs
        /\ u \in 1 .. CAP /\ top - 1 \in 0 .. CAP - 1 /\ u + (top - 1) = CAP
    BY DEF IInv, StacksExact, TypeOK
  <1>2. /\ g[top - 1] \in Below(g, top) /\ Once(g, top - 1)
        /\ Below(g, top - 1) = Below(g, top) \ {g[top - 1]}
        /\ Cardinality(Below(g, top - 1)) = top - 1
    BY <1>1, Popped
  <1>3. g[top - 1] \in Index
    BY <1>2
  <1>4. /\ free_top' = [free_top EXCEPT ![s] = top - 1]
        /\ inuse' = [inuse EXCEPT ![s] = u]
        /\ held' = held \cup {<<s, g[top - 1]>>}
        /\ links' = list_add(list_del(L, s), s, ListFor(u))
    BY <1>1 DEF take, list_after_alloc, ListFor
  <1>5. Linked(links', made', inuse')
    <2>1. inuse \in [Slabs -> 0 .. CAP] /\ u \in 0 .. CAP
      BY <1>1 DEF TypeOK
    <2> HIDE DEF u
    <2>2. Linked(list_add(list_del(L, s), s, ListFor(u)), made', [inuse EXCEPT ![s] = u])
      BY <2>1, Moved
    <2> QED
      BY <2>2, <1>4
  <1>6. TypeOK'
    BY <1>1, <1>3, <1>4, <1>5 DEF TypeOK, Linked
  <1>7. ASSUME NEW r \in made'
        PROVE  /\ Once(free_list'[r], free_top'[r])
               /\ Below(free_list'[r], free_top'[r]) = {i \in Index : <<r, i>> \notin held'}
               /\ Cardinality(Below(free_list'[r], free_top'[r])) = free_top'[r]
               /\ inuse'[r] + free_top'[r] = CAP
    <2>1. CASE r = s
      <3>1. free_list'[r] = g /\ free_top'[r] = top - 1 /\ inuse'[r] = u
        BY <2>1, <1>1, <1>4 DEF TypeOK
      <3>2. {i \in Index : <<r, i>> \notin held'} = Below(g, top) \ {g[top - 1]}
        BY <2>1, <1>4
      <3> HIDE DEF g, u
      <3> QED
        BY <3>1, <3>2, <1>1, <1>2
    <2>2. CASE r # s
      <3>1. r \in made /\ r \in Slabs
        BY <2>2
      <3>2. free_list'[r] = free_list[r] /\ free_top'[r] = free_top[r] /\ inuse'[r] = inuse[r]
        BY <2>2, <3>1, <1>1, <1>4 DEF TypeOK
      <3>3. \A i \in Index : <<r, i>> \in held' <=> <<r, i>> \in held
        BY <2>2, <1>4
      <3>4. /\ Once(free_list[r], free_top[r])
            /\ Below(free_list[r], free_top[r]) = {i \in Index : <<r, i>> \notin held}
            /\ Cardinality(Below(free_list[r], free_top[r])) = free_top[r]
            /\ inuse[r] + free_top[r] = CAP
        BY <3>1 DEF IInv, StacksExact, FreeIdx, Below
      <3>5. {i \in Index : <<r, i>> \notin held'} = {i \in Index : <<r, i>> \notin held}
        BY <3>3
      <3> QED
        BY <3>2, <3>4, <3>5
    <2> QED
      BY <2>1, <2>2
  <1>8. StacksExact'
    BY <1>6, <1>7 DEF StacksExact, FreeIdx, Below
  <1>9. ASSUME NEW r \in Slabs \ made'
        PROVE  /\ inuse'[r] = 0 /\ free_list'[r] = [i \in Index |-> i]
               /\ \A i \in Index : <<r, i>> \notin held'
    BY <1>1, <1>4 DEF IInv, TypeOK
  <1> QED
    BY <1>5, <1>7, <1>8, <1>9 DEF IInv

\* Every step keeps the invariant.
LEMMA NextIInv == IInv /\ [Next]_vars => IInv'
  <1> USE SlabConstants
  <1> SUFFICES ASSUME IInv, [Next]_vars PROVE IInv'
    OBVIOUS
  <1>0. TypeOK /\ StacksExact /\ Linked(links, made, inuse)
    BY DEF IInv, StacksExact
  <1>1. CASE alloc_from_slab
    <2> DEFINE h == IF list_empty(links, PARTIAL) THEN FREE ELSE PARTIAL
               s == links.next[h]
    <2>1. h \in Heads /\ ~list_empty(links, h)
      BY <1>1 DEF alloc_from_slab, Heads
    <2>2. s \in On(made, inuse, h)
      BY <2>1, <1>0 DEF Linked, Ring, Closed, list_empty
    <2>3. s \in made /\ ListFor(inuse[s]) = h /\ h # FULL
      BY <2>2 DEF On
    <2>4. take(links, s, free_top[s]) /\ UNCHANGED <<made, free_list>>
      BY <1>1 DEF alloc_from_slab
    <2> HIDE DEF h, s
    <2>5. /\ inuse[s] + free_top[s] = CAP /\ Once(free_list[s], free_top[s])
          /\ Below(free_list[s], free_top[s]) = {i \in Index : <<s, i>> \notin held}
          /\ Cardinality(Below(free_list[s], free_top[s])) = free_top[s]
      BY <2>3 DEF IInv, StacksExact, FreeIdx, Below
    <2>6. inuse[s] # CAP /\ inuse[s] \in 0 .. CAP /\ free_top[s] \in 0 .. CAP
      BY <2>3, <1>0 DEF ListFor, TypeOK
    <2>7. free_top[s] \in 1 .. CAP
      BY <2>5, <2>6
    <2>8. s \in made' /\ made' \in SUBSET Slabs /\ made' = made /\ Linked(links, made', inuse)
      BY <2>3, <2>4, <1>0 DEF TypeOK
    <2> QED
      BY <2>4, <2>5, <2>7, <2>8, TakeIInv
  <1>2. ASSUME NEW s \in Slabs, alloc_slab_new(s) PROVE IInv'
    <2> DEFINE L == list_add(links, s, FREE)
    <2>1. /\ s \notin made /\ made' = made \cup {s} /\ free_list' = free_list
          /\ take(L, s, CAP)
      BY <1>2 DEF alloc_slab_new
    <2>2. /\ inuse[s] = 0 /\ free_list[s] = [i \in Index |-> i]
          /\ \A i \in Index : <<s, i>> \notin held
      BY <2>1 DEF IInv
    <2>3. Below(free_list[s], CAP) = Index /\ Once(free_list[s], CAP)
      BY <2>2 DEF Below, Once, Index
    <2>4. Cardinality(Index) = CAP
      BY <1>0, BelowFinite DEF TypeOK
    <2>5. Linked(L, made', inuse)
      BY <2>1, <2>2, <1>0, Made DEF TypeOK
    <2>6. CAP \in 1 .. CAP /\ s \in made' /\ made' \in SUBSET Slabs /\ made \subseteq made'
      BY <2>1, <1>0 DEF TypeOK
    <2>7. {i \in Index : <<s, i>> \notin held} = Index /\ inuse[s] + CAP = CAP
      BY <2>2
    <2> HIDE DEF L
    <2> QED
      BY <2>1, <2>3, <2>4, <2>5, <2>6, <2>7, TakeIInv
  <1>3. ASSUME NEW s \in Slabs, NEW i \in Index, kmem_cache_free(s, i) PROVE IInv'
    <2> DEFINE g == free_list[s]
               t == free_top[s]
               u == inuse[s] - 1
    <2>1. <<s, i>> \in held /\ held' = held \ {<<s, i>>} /\ made' = made
      BY <1>3 DEF kmem_cache_free
    <2>2. s \in made
      BY <2>1 DEF IInv
    <2>3. /\ g \in [Index -> Index] /\ t \in 0 .. CAP /\ inuse[s] + t = CAP /\ Once(g, t)
          /\ Below(g, t) = {k \in Index : <<s, k>> \notin held}
          /\ Cardinality(Below(g, t)) = t
      BY <2>2, <1>0 DEF IInv, StacksExact, TypeOK, FreeIdx, Below
    <2>4. i \in Index \ Below(g, t)
      BY <2>1, <2>3
    <2> DEFINE e == [g EXCEPT ![t] = i]
    <2>5. /\ t < CAP /\ e \in [Index -> Index] /\ Once(e, t + 1)
          /\ Below(e, t + 1) = Below(g, t) \cup {i}
          /\ Cardinality(Below(e, t + 1)) = t + 1
      <3> HIDE DEF g, t, u
      <3>1. t < CAP
        BY <2>3, <2>4, Room
      <3>2. e \in [Index -> Index] /\ e[t] = i /\ \A k \in 0 .. t - 1 : e[k] = g[k]
        BY <3>1, <2>3 DEF Index
      <3> HIDE DEF e
      <3>3. Once(e, t + 1)
        BY <3>2, <2>3, <2>4 DEF Once, Below
      <3>4. Below(e, t + 1) = Below(g, t) \cup {i}
        BY <3>2, <2>3 DEF Below
      <3>5. Cardinality(Below(g, t) \cup {i}) = t + 1
        BY <2>3, <2>4, BelowFinite, FS_AddElement
      <3> QED
        BY <3>1, <3>2, <3>3, <3>4, <3>5
    <2>6. u \in 0 .. CAP - 1 /\ inuse[s] \in 1 .. CAP /\ u + (t + 1) = CAP
      BY <2>3, <2>5, <1>0 DEF TypeOK
    <2>7. s \in Members(links, PARTIAL) \cup Members(links, FULL)
      <3>1. s \in On(made, inuse, PARTIAL) \cup On(made, inuse, FULL)
        BY <2>2, <2>6 DEF On, ListFor
      <3>2. \A h \in Heads : Members(links, h) = On(made, inuse, h)
        BY <1>0, MembersAreRing DEF Linked, On
      <3> QED
        BY <3>1, <3>2 DEF Heads
    <2>8. /\ push(s, i)
          /\ inuse' = [inuse EXCEPT ![s] = u]
          /\ links' = list_add(list_del(links, s), s, list_after_free(u))
      BY <2>7, <1>3 DEF kmem_cache_free
    <2>9. /\ free_list' = [free_list EXCEPT ![s] = e]
          /\ free_top' = [free_top EXCEPT ![s] = t + 1]
      BY <2>8, <1>0 DEF push, TypeOK
    <2>10. list_after_free(u) = ListFor(u)
      BY <2>6 DEF list_after_free, ListFor
    <2>11. Linked(links', made', inuse')
      <3>1. made \in SUBSET Slabs /\ inuse \in [Slabs -> 0 .. CAP] /\ u \in 0 .. CAP
        BY <2>6, <1>0 DEF TypeOK
      <3> HIDE DEF u
      <3>2. Linked(list_add(list_del(links, s), s, ListFor(u)), made, [inuse EXCEPT ![s] = u])
        BY <3>1, <2>2, <1>0, Moved
      <3> QED
        BY <3>2, <2>1, <2>8, <2>10
    <2>12. TypeOK'
      <3>1. t + 1 \in 0 .. CAP /\ u \in 0 .. CAP
        BY <2>3, <2>5, <2>6
      <3> HIDE DEF e, t, u, g
      <3> QED
        BY <3>1, <2>1, <2>5, <2>8, <2>9, <2>11, <1>0 DEF TypeOK, Linked
    <2>13. ASSUME NEW r \in made'
           PROVE  /\ Once(free_list'[r], free_top'[r])
                  /\ Below(free_list'[r], free_top'[r]) = {k \in Index : <<r, k>> \notin held'}
                  /\ Cardinality(Below(free_list'[r], free_top'[r])) = free_top'[r]
                  /\ inuse'[r] + free_top'[r] = CAP
      <3>1. CASE r = s
        <4>1. free_list'[r] = e /\ free_top'[r] = t + 1 /\ inuse'[r] = u
          BY <3>1, <2>8, <2>9, <1>0 DEF TypeOK
        <4>2. {k \in Index : <<r, k>> \notin held'} = Below(g, t) \cup {i}
          BY <3>1, <2>1, <2>3
        <4> HIDE DEF e, t, u, g
        <4> QED
          BY <4>1, <4>2, <2>5, <2>6
      <3>2. CASE r # s
        <4>1. r \in made /\ r \in Slabs
          BY <2>1, <1>0 DEF TypeOK
        <4>2. free_list'[r] = free_list[r] /\ free_top'[r] = free_top[r] /\ inuse'[r] = inuse[r]
          BY <3>2, <4>1, <2>8, <2>9, <1>0 DEF TypeOK
        <4>3. {k \in Index : <<r, k>> \notin held'} = {k \in Index : <<r, k>> \notin held}
          BY <3>2, <2>1
        <4>4. /\ Once(free_list[r], free_top[r])
              /\ Below(free_list[r], free_top[r]) = {k \in Index : <<r, k>> \notin held}
              /\ Cardinality(Below(free_list[r], free_top[r])) = free_top[r]
              /\ inuse[r] + free_top[r] = CAP
          BY <4>1 DEF IInv, StacksExact, FreeIdx, Below
        <4> QED
          BY <4>2, <4>3, <4>4
      <3> QED
        BY <3>1, <3>2
    <2>14. StacksExact'
      BY <2>12, <2>13 DEF StacksExact, FreeIdx, Below
    <2>15. ASSUME NEW r \in Slabs \ made'
           PROVE  /\ inuse'[r] = 0 /\ free_list'[r] = [k \in Index |-> k]
                  /\ \A k \in Index : <<r, k>> \notin held'
      BY <2>1, <2>2, <2>8, <2>9, <1>0 DEF IInv, TypeOK
    <2> QED
      BY <2>11, <2>13, <2>14, <2>15 DEF IInv
  <1>4. CASE drop_slabs
    <2>1. TypeOK'
      BY <1>4, EmptyLinked DEF drop_slabs, TypeOK, Linked, Index
    <2> QED
      BY <1>4, <2>1, EmptyLinked DEF drop_slabs, IInv, StacksExact
  <1>5. CASE UNCHANGED vars
    <2> USE <1>5 DEF vars
    <2>1. TypeOK'
      BY <1>0 DEF TypeOK
    <2>2. StacksExact'
      BY <1>0, <2>1 DEF StacksExact, FreeIdx
    <2> QED
      BY <2>2 DEF IInv
  <1> QED
    BY <1>1, <1>2, <1>3, <1>4, <1>5 DEF Next

\* The invariant implies what the runs check.
LEMMA IInvImplies == IInv => StacksExact /\ ListsExact
  <1> USE SlabConstants
  <1> SUFFICES ASSUME IInv PROVE ListsExact
    BY DEF IInv
  <1>1. \A h \in Heads : Members(links, h) = On(made, inuse, h)
    BY MembersAreRing DEF IInv, Linked, On
  <1>2. \A s \in made : inuse[s] \in 0 .. CAP
    BY DEF IInv, StacksExact, TypeOK
  <1>3. On(made, inuse, FULL) = {s \in made : inuse[s] = CAP}
    BY <1>2 DEF On, ListFor
  <1>4. On(made, inuse, FREE) = {s \in made : inuse[s] = 0}
    BY <1>2 DEF On, ListFor
  <1>5. On(made, inuse, PARTIAL) = {s \in made : inuse[s] \notin {0, CAP}}
    BY <1>2 DEF On, ListFor
  <1> QED
    BY <1>1, <1>3, <1>4, <1>5 DEF ListsExact, Heads

\* For any number of slabs of any capacity, the stack of every slab holds
\* each index that no client holds, once.
THEOREM SlabStacksExact == Spec => []StacksExact
  BY InitIInv, NextIInv, IInvImplies, PTL DEF Spec

\* For any number of slabs of any capacity, every slab is on the list that
\* its count calls for.
THEOREM SlabListsExact == Spec => []ListsExact
  BY InitIInv, NextIInv, IInvImplies, PTL DEF Spec

=============================================================================
