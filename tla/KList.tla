------------------------------- MODULE KList -------------------------------
(***************************************************************************)
(* The intrusive circular list of kernel/kernel.h.  A list_head is a node; *)
(* all the list_heads of one kind are one value                            *)
(*     L = [next |-> [Node -> Node], prev |-> [Node -> Node]]              *)
(* and an operation maps L to what its assignments leave, in their order,  *)
(* whatever the node it is given is linked to already.                     *)
(***************************************************************************)
EXTENDS Naturals, Sequences

\* list_init of every node.
list_init(Node) == [next |-> [n \in Node |-> n], prev |-> [n \in Node |-> n]]

\* __list_add(n, pv, nx)
list_add_between(L, n, pv, nx) ==
  [next |-> [[L.next EXCEPT ![n] = nx] EXCEPT ![pv] = n],
   prev |-> [[L.prev EXCEPT ![nx] = n] EXCEPT ![n] = pv]]

list_add(L, n, h) == list_add_between(L, n, h, L.next[h])

list_add_tail(L, n, h) == list_add_between(L, n, L.prev[h], h)

list_del(L, e) ==
  [next |-> [[L.next EXCEPT ![L.prev[e]] = L.next[e]] EXCEPT ![e] = e],
   prev |-> [[L.prev EXCEPT ![L.next[e]] = L.prev[e]] EXCEPT ![e] = e]]

list_empty(L, h) == L.next[h] = h

-----------------------------------------------------------------------------
(* What the operations are for: a list with head h holds a sequence.       *)

Lists(Node) == [next : [Node -> Node], prev : [Node -> Node]]

\* L links h and the elements of q, each of them once, into one circle in
\* the order of q, and links every other node of Node to itself.
IsList(L, Node, h, q) ==
  /\ \A i, j \in 1 .. Len(q) : q[i] = q[j] => i = j
  /\ \A i \in 1 .. Len(q) : q[i] \in Node /\ q[i] # h
  /\ L.next[h] = IF Len(q) = 0 THEN h ELSE q[1]
  /\ L.prev[h] = IF Len(q) = 0 THEN h ELSE q[Len(q)]
  /\ \A i \in 1 .. Len(q) :
       /\ L.next[q[i]] = IF i = Len(q) THEN h ELSE q[i + 1]
       /\ L.prev[q[i]] = IF i = 1 THEN h ELSE q[i - 1]
  /\ \A n \in Node \ {h} :
       (\A i \in 1 .. Len(q) : q[i] # n) => L.next[n] = n /\ L.prev[n] = n

\* q without its k-th element.
Without(q, k) ==
  [i \in 1 .. Len(q) - 1 |-> IF i < k THEN q[i] ELSE q[i + 1]]

=============================================================================
