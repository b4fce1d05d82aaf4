------------------------------- MODULE Kheap -------------------------------
(***************************************************************************)
(* The kernel heap, mm/kmalloc.c: blocks with a header, in a doubly linked *)
(* list, split when they are handed out and joined when they are freed.    *)
(* Headers are modelled with their pointers; an address is an offset from  *)
(* KERNEL_HEAP_START in units of four bytes.  heap_lock is taken with      *)
(* interrupts off and there is one CPU, so a call is one step.             *)
(***************************************************************************)
EXTENDS Integers

CONSTANTS
  HDR_SIZE, MIN_ALLOC,
  ALIGN,        \* what kmalloc rounds sizes up to
  CHUNK,        \* PAGE_SIZE * 4, by which the heap grows
  HEAP_SIZE,    \* KERNEL_HEAP_SIZE
  KERNEL_HEAP_START,
  WORD,         \* 2^32: sizes and addresses are smaller
  Sizes         \* the sizes callers ask for

ASSUME KheapConstants ==
  /\ {HDR_SIZE, MIN_ALLOC, ALIGN, CHUNK, HEAP_SIZE} \subseteq Nat \ {0}
  /\ HDR_SIZE % ALIGN = 0 /\ CHUNK % ALIGN = 0
  /\ HDR_SIZE < CHUNK /\ CHUNK <= HEAP_SIZE
  /\ KERNEL_HEAP_START \in Nat /\ WORD \in Nat
  /\ KERNEL_HEAP_START + HEAP_SIZE < WORD
  /\ Sizes \subseteq 0 .. WORD - 1

VARIABLES
  blk,        \* the headers in the list, by address
  heap_cur,   \* end of what heap_sbrk has handed out
  ptrs,       \* history: requested size of each pointer a client holds
  wrapped     \* history: the size for which an addition of kmalloc has wrapped

heapVars == <<blk, heap_cur, ptrs, wrapped>>

NULL == -1
heap_start == 0

ALIGN_UP(x, a) == ((x + a - 1) \div a) * a

Header(magic, size, next, prev) ==
  [magic |-> magic, size |-> size, next |-> next, prev |-> prev]

\* kmalloc_init
HeapInit ==
  /\ blk = [a \in {heap_start} |-> Header("FREE", CHUNK - HDR_SIZE, NULL, NULL)]
  /\ heap_cur = CHUNK
  /\ ptrs = [p \in {} |-> 0]
  /\ wrapped = {}

-----------------------------------------------------------------------------
(* Operations on B, the headers.                                           *)

\* Writing the prev field of the header at a, if there is one.
SetPrev(B, a, b) == IF a = NULL THEN B ELSE [B EXCEPT ![a].prev = b]

\* Where the walk over next ends.
LastBlock(B) == CHOOSE a \in DOMAIN B : B[a].next = NULL

\* The first block on that walk that is free and large enough, or NULL.  The
\* list is in the order of addresses (Tiled), so the lowest comes first.
FirstFit(B, size) ==
  LET fits == {a \in DOMAIN B : B[a].magic = "FREE" /\ B[a].size >= size}
  IN  IF fits = {} THEN NULL ELSE CHOOSE a \in fits : \A x \in fits : a <= x

\* Faulty: the block after the new one keeps its prev.
split_block_stale_prev(B, b, need) ==
  IF B[b].size < need + HDR_SIZE + MIN_ALLOC THEN B
  ELSE LET nb  == b + HDR_SIZE + need
           cut == [a \in DOMAIN B \cup {nb} |->
                     IF a = nb
                     THEN Header("FREE", B[b].size - need - HDR_SIZE, B[b].next, b)
                     ELSE B[a]]
       IN  [cut EXCEPT ![b].next = nb, ![b].size = need]

split_block(B, b, need) ==
  IF B[b].size < need + HDR_SIZE + MIN_ALLOC THEN B
  ELSE LET nb  == b + HDR_SIZE + need
           old == B[b].next
           cut == [a \in DOMAIN B \cup {nb} |->
                     IF a = nb
                     THEN Header("FREE", B[b].size - need - HDR_SIZE, old, b)
                     ELSE B[a]]
       IN  [SetPrev(cut, old, nb) EXCEPT ![b].next = nb, ![b].size = need]

\* A block is split and marked.
Taken(B, b, size) == [split_block(B, b, size) EXCEPT ![b].magic = "USED"]

\* A chunk of ext units at heap_cur becomes the last block.
Extended(B, ext) ==
  LET tail == LastBlock(B)
  IN  [a \in DOMAIN B \cup {heap_cur} |->
         IF a = heap_cur THEN Header("FREE", ext - HDR_SIZE, NULL, tail)
         ELSE IF a = tail THEN [B[a] EXCEPT !.next = heap_cur] ELSE B[a]]

\* In 32 bits an addition of kmalloc or heap_sbrk wraps: the rounding of n, or
\* where no block fits the rounding of the chunk or heap_cur + bytes.
Wraps(B, n) ==
  LET size == ALIGN_UP(n, ALIGN)
      ext  == ALIGN_UP(size + HDR_SIZE, CHUNK)
  IN  \/ size >= WORD
      \/ FirstFit(B, size) = NULL /\ KERNEL_HEAP_START + heap_cur + ext >= WORD

\* What kmalloc(n) leaves, if nothing wraps: [B, cur, ptr].  When no block fits
\* the heap is extended and the search made again; NULL when heap_sbrk refuses.
kmalloc(B, n) ==
  LET size == ALIGN_UP(n, ALIGN)
      b    == FirstFit(B, size)
      ext  == ALIGN_UP(size + HDR_SIZE, CHUNK)
      more == Extended(B, ext)
      nb   == FirstFit(more, size)
  IN  IF n = 0 THEN [B |-> B, cur |-> heap_cur, ptr |-> NULL]
      ELSE IF b # NULL
      THEN [B |-> Taken(B, b, size), cur |-> heap_cur, ptr |-> b + HDR_SIZE]
      ELSE IF heap_cur + ext > HEAP_SIZE
      THEN [B |-> B, cur |-> heap_cur, ptr |-> NULL]
      ELSE [B |-> Taken(more, nb, size), cur |-> heap_cur + ext,
            ptr |-> nb + HDR_SIZE]

\* b takes over the block that follows it in the list.
Absorb(B, b) ==
  LET x    == B[b].next
      n    == B[x].next
      grown == [B EXCEPT ![b].size = @ + HDR_SIZE + B[x].size, ![b].next = n]
      back == SetPrev(grown, n, b)
  IN  [a \in DOMAIN B \ {x} |-> back[a]]

\* Faulty: kfree joins the block to the one after it only.
kfree_forward(B, ptr) ==
  LET b  == ptr - HDR_SIZE
      B1 == [B EXCEPT ![b].magic = "FREE"]
  IN  IF B1[b].next # NULL /\ B1[B1[b].next].magic = "FREE"
      THEN Absorb(B1, b) ELSE B1

\* kfree of a pointer to a block that is in use.
kfree(B, ptr) ==
  LET b  == ptr - HDR_SIZE
      B1 == [B EXCEPT ![b].magic = "FREE"]
      B2 == IF B1[b].next # NULL /\ B1[B1[b].next].magic = "FREE"
            THEN Absorb(B1, b) ELSE B1
  IN  IF B2[b].prev # NULL /\ B2[B2[b].prev].magic = "FREE"
      THEN Absorb(B2, B2[b].prev) ELSE B2

-----------------------------------------------------------------------------
(* The calls.                                                              *)

Hold(h, p, n) == IF p = NULL THEN h ELSE [x \in DOMAIN h \cup {p} |-> IF x = p THEN n ELSE h[x]]
Drop(h, p) == [x \in DOMAIN h \ {p} |-> h[x]]

alloc(n) ==
  LET r == kmalloc(blk, n)
  IN  /\ wrapped = {} /\ ~Wraps(blk, n)
      /\ blk' = r.B /\ heap_cur' = r.cur
      /\ ptrs' = Hold(ptrs, r.ptr, n)
      /\ UNCHANGED wrapped

\* kmalloc or krealloc of a size that wraps.  If it was rounded to zero, the
\* first free block is handed out, with no room in it; else a chunk is added to
\* the list that is too small, or that lies outside the heap.  What becomes of
\* the heap is not followed further.
alloc_wraps(n) ==
  LET size == ALIGN_UP(n, ALIGN) % WORD
      b    == FirstFit(blk, size)
  IN  /\ wrapped = {} /\ Wraps(blk, n)
      /\ wrapped' = {n}
      /\ IF b # NULL
         THEN blk' = Taken(blk, b, size) /\ ptrs' = Hold(ptrs, b + HDR_SIZE, n)
         ELSE UNCHANGED <<blk, ptrs>>
      /\ UNCHANGED heap_cur

free(p) ==
  /\ wrapped = {}
  /\ blk' = kfree(blk, p)
  /\ ptrs' = Drop(ptrs, p)
  /\ UNCHANGED <<heap_cur, wrapped>>

\* krealloc of a block in use.  The old block is kept when there is no room.
krealloc(p, n) ==
  LET r == kmalloc(blk, n)
  IN  /\ wrapped = {} /\ UNCHANGED wrapped
      /\ IF blk[p - HDR_SIZE].size >= n
         THEN ptrs' = [ptrs EXCEPT ![p] = n] /\ UNCHANGED <<blk, heap_cur>>
         ELSE IF r.ptr = NULL
         THEN ~Wraps(blk, n) /\ UNCHANGED <<blk, heap_cur, ptrs>>
         ELSE /\ ~Wraps(blk, n)
              /\ blk' = kfree(r.B, p) /\ heap_cur' = r.cur
              /\ ptrs' = Hold(Drop(ptrs, p), r.ptr, n)

HeapNext ==
  \/ \E n \in Sizes : alloc(n) \/ alloc_wraps(n)
  \/ \E p \in DOMAIN ptrs : free(p)
  \/ \E p \in DOMAIN ptrs, n \in Sizes \ {0} : krealloc(p, n)

HeapSpec == HeapInit /\ [][HeapNext]_heapVars

-----------------------------------------------------------------------------
(* Properties.                                                             *)

\* Headers are aligned, inside the heap, and point to headers or to nothing.
HeapTypeOK ==
  /\ heap_cur \in 0 .. HEAP_SIZE
  /\ \A a \in DOMAIN blk :
       /\ a \in 0 .. HEAP_SIZE /\ a % ALIGN = 0
       /\ blk[a] \in [magic : {"FREE", "USED"}, size : 0 .. HEAP_SIZE,
                      next : DOMAIN blk \cup {NULL}, prev : DOMAIN blk \cup {NULL}]

\* Types are right and the list tiles the heap: from heap_start each block
\* ends where the next begins and the last one ends at heap_cur, prev undoes
\* next, and no header is off the list.  A split, a join or an extension that
\* loses a block, that overlaps two or that links the wrong neighbour breaks
\* it.  So does a request near 2^32, whose rounding wraps: it is excluded here
\* and below.
Tiled ==
  wrapped = {} =>
    /\ HeapTypeOK
    /\ heap_start \in DOMAIN blk /\ blk[heap_start].prev = NULL
    /\ \A a \in DOMAIN blk :
         LET end == a + HDR_SIZE + blk[a].size
         IN  IF blk[a].next = NULL THEN end = heap_cur
             ELSE blk[a].next = end /\ blk[end].prev = a

\* The blocks in use are exactly the ones clients hold, and each is at least
\* as large as what was asked for: with Tiled, no two clients share memory and
\* none is lost.
HeldIsUsed ==
  wrapped = {} =>
    /\ {a + HDR_SIZE : a \in {x \in DOMAIN blk : blk[x].magic = "USED"}} = DOMAIN ptrs
    /\ \A p \in DOMAIN ptrs : blk[p - HDR_SIZE].size >= ptrs[p]

\* README: "free list + coalescing".  Two neighbours are both free only where
\* the heap was extended, since kmalloc appends the chunk without joining it.
Coalesced ==
  wrapped = {} =>
    \A a \in DOMAIN blk :
      blk[a].magic = "FREE" /\ blk[a].next # NULL /\ blk[blk[a].next].magic = "FREE"
        => blk[a].next % CHUNK = 0

=============================================================================
