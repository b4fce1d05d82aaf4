------------------------------ MODULE Kmalloc ------------------------------
(***************************************************************************)
(* mm/kmalloc.c as a whole: a slab cache that has its own struct and its   *)
(* slabs from the heap, next to other clients of the heap.  A slab is the  *)
(* address that kmalloc returned for it.                                   *)
(***************************************************************************)
EXTENDS Slab, Kheap, SequencesExt

CONSTANTS
  CACHE_SIZE,   \* sizeof(struct kmem_cache)
  SLAB_SIZE     \* header, free list and objects of a slab

VARIABLE cache    \* the cache, NULL when there is none

ASSUME KmallocConstants == {CACHE_SIZE, SLAB_SIZE} \subseteq Nat \ {0}

allVars == <<vars, heapVars, cache>>

\* Where slabs may lie.
Address == {a \in 0 .. HEAP_SIZE : a % ALIGN = 0}

KmallocInit == Init /\ HeapInit /\ cache = NULL

\* kmem_cache_create, here for one cache: without memory there is none.
kmem_cache_create ==
  /\ cache = NULL
  /\ alloc(CACHE_SIZE)
  /\ cache' = kmalloc(blk, CACHE_SIZE).ptr
  /\ UNCHANGED vars

\* kmem_cache_alloc: without memory for a new slab there is no object.
kmem_cache_alloc ==
  /\ wrapped = {} /\ cache # NULL /\ UNCHANGED cache
  /\ \/ alloc_from_slab /\ UNCHANGED heapVars
     \/ LET s == kmalloc(blk, SLAB_SIZE).ptr
        IN  /\ list_empty(links, PARTIAL) /\ list_empty(links, FREE)
            /\ alloc(SLAB_SIZE)
            /\ IF s = NULL THEN UNCHANGED vars ELSE alloc_slab_new(s)

cache_free(s, i) ==
  /\ wrapped = {} /\ kmem_cache_free(s, i)
  /\ UNCHANGED <<heapVars, cache>>

\* Faulty: the slabs that are full are forgotten.
slabs_of_two == SetToSeq(Members(links, FREE)) \o SetToSeq(Members(links, PARTIAL))

\* The slabs in the order of kmem_cache_destroy, one list after the other.
\* (Within a list the order is left open: kfree joins what it frees to both
\* sides, so that the heap is the same after any.)
slabs_of ==
  SetToSeq(Members(links, FREE)) \o SetToSeq(Members(links, PARTIAL)) \o SetToSeq(Members(links, FULL))

\* kmem_cache_destroy, which does not look whether objects are in use: the
\* slabs go back to the heap, then the cache does.  Nobody has pointers to
\* them any more.
kmem_cache_destroy ==
  /\ wrapped = {} /\ cache # NULL /\ cache' = NULL
  /\ blk' = FoldLeft(kfree, blk, slabs_of \o <<cache>>)
  /\ ptrs' = [p \in DOMAIN ptrs \ (made \cup {cache}) |-> ptrs[p]]
  /\ drop_slabs
  /\ UNCHANGED <<heap_cur, wrapped>>

\* kmalloc, kfree and krealloc by the rest of the kernel.
others ==
  /\ \/ \E n \in Sizes : alloc(n) \/ alloc_wraps(n)
     \/ \E p \in DOMAIN ptrs \ (made \cup {cache}) :
          free(p) \/ \E n \in Sizes \ {0} : krealloc(p, n)
  /\ UNCHANGED <<vars, cache>>

KmallocNext ==
  \/ kmem_cache_create \/ kmem_cache_alloc \/ kmem_cache_destroy \/ others
  \/ \E s \in Slabs, i \in Index : cache_free(s, i)

KmallocSpec == KmallocInit /\ [][KmallocNext]_allVars

-----------------------------------------------------------------------------
(* Properties.                                                             *)

\* The blocks in use are those that clients hold, large enough for what was
\* asked (see Kheap); the cache and its slabs are such blocks, so that
\* kmem_cache_destroy gives back what slab_new took.
BlocksAccounted ==
  /\ HeldIsUsed
  /\ made \subseteq DOMAIN ptrs /\ \A s \in made : ptrs[s] = SLAB_SIZE
  /\ IF cache = NULL THEN made = {} ELSE cache \in DOMAIN ptrs /\ ptrs[cache] = CACHE_SIZE

=============================================================================
