-------------------------------- MODULE Slab --------------------------------
(***************************************************************************)
(* A slab cache, the second half of mm/kmalloc.c: slabs of equal objects   *)
(* with a stack of free indices each, on one of three lists according to   *)
(* how full they are.  The lists are modelled with their pointers; an      *)
(* object is its slab and its index.  The lock is taken with interrupts    *)
(* off and there is one CPU, so a call is one step.                        *)
(***************************************************************************)
EXTENDS KList, Integers, FiniteSets

CONSTANTS
  Slabs,                \* the memory kmalloc has for slabs of this cache
  FULL, PARTIAL, FREE,  \* slabs_full, slabs_partial and slabs_free
  CAP                   \* slab_capacity

ASSUME SlabConstants ==
  /\ IsFiniteSet(Slabs)
  /\ {FULL, PARTIAL, FREE} \cap Slabs = {}
  /\ FULL # PARTIAL /\ PARTIAL # FREE /\ FREE # FULL
  /\ CAP \in Nat \ {0}

VARIABLES
  made,       \* the slabs slab_new has set up
  links,      \* their list nodes
  free_list, free_top, inuse,
  held        \* history: the objects clients hold

vars == <<made, links, free_list, free_top, inuse, held>>

Index == 0 .. CAP - 1
Node == Slabs \cup {FULL, PARTIAL, FREE}

\* kmem_cache_create
Init ==
  /\ made = {}
  /\ links = list_init(Node)
  /\ free_list = [s \in Slabs |-> [i \in Index |-> i]]
  /\ free_top = [s \in Slabs |-> 0]
  /\ inuse = [s \in Slabs |-> 0]
  /\ held = {}

\* The slabs a list_for_each visits: every set that has what follows h, and
\* what follows each of its members, has them.
Members(L, h) ==
  {s \in made : \A T \in SUBSET made :
     (\A x \in T \cup {h} : L.next[x] \in T \cup {h}) => s \in T}

\* The list for a slab that has given an object and has n in use.
list_after_alloc(n) == IF n = CAP THEN FULL ELSE PARTIAL

\* Faulty: an empty slab goes to the partial list.
list_for_none(n) == PARTIAL

\* The list for a slab that has taken an object back and has n in use.
list_after_free(n) == IF n = 0 THEN FREE ELSE PARTIAL

\* An object is taken from s, the slabs being linked as in L, with top free
\* indices on its stack.
take(L, s, top) ==
  /\ free_top' = [free_top EXCEPT ![s] = top - 1]
  /\ inuse' = [inuse EXCEPT ![s] = @ + 1]
  /\ held' = held \cup {<<s, free_list[s][top - 1]>>}
  /\ links' = list_add(list_del(L, s), s, list_after_alloc(inuse[s] + 1))

\* kmem_cache_alloc from the first partial slab, or the first free one.
alloc_from_slab ==
  /\ ~list_empty(links, PARTIAL) \/ ~list_empty(links, FREE)
  /\ LET s == IF list_empty(links, PARTIAL) THEN links.next[FREE]
              ELSE links.next[PARTIAL]
     IN  take(links, s, free_top[s])
  /\ UNCHANGED <<made, free_list>>

\* kmem_cache_alloc with a new slab.
alloc_slab_new(s) ==
  /\ list_empty(links, PARTIAL) /\ list_empty(links, FREE)
  /\ s \notin made
  /\ made' = made \cup {s}
  /\ take(list_add(links, s, FREE), s, CAP)
  /\ UNCHANGED free_list

\* Faulty: the index is stored one place too high.
push_high(s, i) ==
  /\ free_list' = [free_list EXCEPT ![s][(free_top[s] + 1) % CAP] = i]
  /\ free_top' = [free_top EXCEPT ![s] = @ + 1]

push(s, i) ==
  /\ free_list' = [free_list EXCEPT ![s][free_top[s]] = i]
  /\ free_top' = [free_top EXCEPT ![s] = @ + 1]

\* kmem_cache_free of an object of a slab that the search of the partial and
\* the full list finds.  An object it does not find is left alone.
kmem_cache_free(s, i) ==
  /\ <<s, i>> \in held
  /\ held' = held \ {<<s, i>>}
  /\ IF s \in Members(links, PARTIAL) \cup Members(links, FULL)
     THEN /\ push(s, i)
          /\ inuse' = [inuse EXCEPT ![s] = @ - 1]
          /\ links' = list_add(list_del(links, s), s, list_after_free(inuse[s] - 1))
     ELSE UNCHANGED <<links, free_list, free_top, inuse>>
  /\ UNCHANGED made

\* kmem_cache_destroy gives the slabs back to the heap, whatever is in use.
\* The same memory may become slabs of a later cache.
drop_slabs ==
  /\ made' = {}
  /\ links' = list_init(Node)
  /\ free_list' = [s \in Slabs |-> [i \in Index |-> i]]
  /\ free_top' = [s \in Slabs |-> 0]
  /\ inuse' = [s \in Slabs |-> 0]
  /\ held' = {}

Next ==
  \/ alloc_from_slab \/ drop_slabs
  \/ \E s \in Slabs : alloc_slab_new(s)
  \/ \E s \in Slabs, i \in Index : kmem_cache_free(s, i)

Spec == Init /\ [][Next]_vars

-----------------------------------------------------------------------------
(* Properties.                                                             *)

\* The stack pointer and the count of a slab stay within its capacity.
TypeOK ==
  /\ made \subseteq Slabs
  /\ links \in Lists(Node)
  /\ free_list \in [Slabs -> [Index -> Index]]
  /\ free_top \in [Slabs -> 0 .. CAP]
  /\ inuse \in [Slabs -> 0 .. CAP]
  /\ held \subseteq Slabs \X Index

\* The free indices of a slab.
FreeIdx(s) == {free_list[s][k] : k \in 0 .. free_top[s] - 1}

\* Types are right, the stack of every slab holds each index that no client
\* holds, once, and inuse counts the others: kmem_cache_alloc gives no object
\* to two clients and kmem_cache_free loses none.
StacksExact ==
  /\ TypeOK
  /\ \A s \in made :
       /\ FreeIdx(s) = {i \in Index : <<s, i>> \notin held}
       /\ Cardinality(FreeIdx(s)) = free_top[s]
       /\ inuse[s] + free_top[s] = CAP

\* Every slab is on the one list that its count calls for, so that
\* kmem_cache_alloc never pops an empty stack and kmem_cache_free finds every
\* object that is in use.
ListsExact ==
  /\ Members(links, FULL) = {s \in made : inuse[s] = CAP}
  /\ Members(links, FREE) = {s \in made : inuse[s] = 0}
  /\ Members(links, PARTIAL) = {s \in made : inuse[s] \notin {0, CAP}}

=============================================================================
