------------------------------ MODULE PmmProofs ------------------------------
(***************************************************************************)
(* The page allocator keeps its counters exact and its pages partitioned,  *)
(* for every bitmap size, every memory map with disjoint entries and every *)
(* sequence of calls.                                                      *)
(***************************************************************************)
EXTENDS Pmm, FiniteSetTheorems, TLAPS

\* The pages of the map entries parsed so far.
Parsed == UNION {EntryPages(mmap[k]) : k \in 1 .. entry - 1}

\* What boot has established at each of its phases.
BootInv ==
  /\ phase # "up" => held = {} /\ freeing = NoFree
  /\ phase = "map" => /\ bitmap = Parsed
                      /\ total_pages_count = Cardinality(bitmap)
  /\ phase = "kernel" => /\ mmap = <<>>
                         /\ bitmap = FallbackPages
  /\ phase = "kernel" => total_pages_count = Cardinality(bitmap)
  /\ phase = "initrd" => bitmap = RamPages \ KernelPages
  /\ phase \in {"initrd", "up"} => total_pages_count = Cardinality(RamPages)

\* A contiguous free only has pages to come that its caller still holds.
FreeingInv == freeing.next .. freeing.next + freeing.left - 1 \subseteq held

IInv ==
  /\ TypeOK
  /\ free_pages_count = Cardinality(bitmap)
  /\ BootInv
  /\ PagesPartitioned
  /\ FreeingInv

-----------------------------------------------------------------------------
\* The bitmap has finitely many pages, so that cardinalities are numbers.
LEMMA PageFinite ==
  /\ IsFiniteSet(Page)
  /\ \A S \in SUBSET Page : IsFiniteSet(S) /\ Cardinality(S) \in Nat
<1>1. IsFiniteSet(Page)
  BY FS_Interval, PmmConstants DEF Page
<1>2. ASSUME NEW S \in SUBSET Page PROVE IsFiniteSet(S) /\ Cardinality(S) \in Nat
  BY <1>1, FS_Subset, FS_CardinalityType
<1> QED BY <1>1, <1>2

\* Page 0 belongs to the range that pmm_init reserves for the kernel.
LEMMA NullPageReserved == 0 \in KernelPages
<1>1. 0 \in Page
  BY PmmConstants DEF Page
<1>2. ALIGN_DOWN(0) = 0
  BY PmmConstants DEF ALIGN_DOWN
<1>3. ALIGN_UP(KEND) > 0
  <2> DEFINE x == KEND + PAGE_SIZE - 1
             q == x \div PAGE_SIZE
  <2>1. x \in Nat /\ x >= PAGE_SIZE /\ PAGE_SIZE \in Nat /\ PAGE_SIZE > 0
    BY PmmConstants
  <2>2. q \in Nat /\ q >= 1
    BY <2>1
  <2>3. q * PAGE_SIZE > 0
    BY <2>1, <2>2
  <2> QED BY <2>3 DEF ALIGN_UP, ALIGN_DOWN
<1>4. 0 * PAGE_SIZE = 0
  BY PmmConstants
<1> QED BY <1>1, <1>2, <1>3, <1>4 DEF KernelPages, MarkedPages, PagesBetween

\* Taking a set of pages away lowers the count by what was taken.
LEMMA CountRemoved ==
  ASSUME NEW S \in SUBSET Page, NEW T \in SUBSET S
  PROVE  Cardinality(S \ T) = Cardinality(S) - Cardinality(T)
<1>1. IsFiniteSet(S)
  BY PageFinite
<1>2. Cardinality(S \ T) = Cardinality(S) - Cardinality(S \cap T)
  BY <1>1, FS_Difference
<1>3. S \cap T = T
  OBVIOUS
<1> QED BY <1>2, <1>3

\* A disjoint set of pages raises it by what was added.
LEMMA CountAdded ==
  ASSUME NEW S \in SUBSET Page, NEW T \in SUBSET Page, S \cap T = {}
  PROVE  Cardinality(S \cup T) = Cardinality(S) + Cardinality(T)
<1>1. IsFiniteSet(S) /\ Cardinality(S) \in Nat
  BY PageFinite
<1>2. IsFiniteSet(T) /\ Cardinality(T) \in Nat
  BY PageFinite
<1>3. Cardinality(S \cup T) = Cardinality(S) + Cardinality(T) - Cardinality(S \cap T)
  BY <1>1, <1>2, FS_Union
<1>4. Cardinality(S \cap T) = 0
  BY FS_EmptySet
<1> QED BY <1>1, <1>2, <1>3, <1>4

-----------------------------------------------------------------------------
\* The pages that the boot loop marks for one region are pages of the bitmap.
LEMMA EntryPagesArePages ==
  /\ \A e : EntryPages(e) \in SUBSET Page
  /\ FallbackPages \in SUBSET Page
  /\ \A a, b : MarkedPages(a, b) \in SUBSET Page
BY DEF EntryPages, PagesBetween, FallbackPages, MarkedPages

\* The pages of all available regions are pages of the bitmap.
LEMMA RamIsPages == RamPages \in SUBSET Page
BY EntryPagesArePages DEF RamPages

\* The state before pmm_init, with bitmap and counters zero, satisfies IInv.
LEMMA InitIInv == Init => IInv
<1> SUFFICES ASSUME Init PROVE IInv
  OBVIOUS
<1>1. TypeOK
  <2>1. Len(mmap) \in Nat
    BY PmmConstants DEF Init
  <2> QED BY <2>1, PmmConstants DEF Init, TypeOK, NoFree
<1>2. Cardinality(bitmap) = 0 /\ bitmap = {}
  BY FS_EmptySet DEF Init
<1>3. Parsed = {}
  BY DEF Init, Parsed
<1>4. BootInv
  BY <1>2, <1>3 DEF Init, BootInv
<1> QED BY <1>1, <1>2, <1>4 DEF IInv, Init, PagesPartitioned, FreeingInv, NoFree

\* A step of pmm_init's loop over the memory map keeps IInv.
LEMMA EntryStep ==
  ASSUME \A m \in MemMaps : Disjoint(m), IInv, pmm_init_entry
  PROVE  IInv'
<1> DEFINE new == EntryPages(mmap[entry])
<1>1. mmap \in Seq(Entry) /\ entry \in Nat /\ entry >= 1 /\ entry \in DOMAIN mmap
      /\ Len(mmap) \in Nat
  BY PmmConstants DEF IInv, TypeOK, pmm_init_entry
<1>2. Disjoint(mmap)
  BY DEF IInv, TypeOK, Disjoint
<1>3. bitmap = Parsed /\ bitmap \in SUBSET Page /\ new \in SUBSET Page
  BY EntryPagesArePages DEF IInv, TypeOK, BootInv, pmm_init_entry
<1>4. bitmap \cap new = {}
  <2> SUFFICES ASSUME NEW k \in 1 .. entry - 1
               PROVE  EntryPages(mmap[k]) \cap new = {}
    BY <1>3 DEF Parsed
  <2>1. k \in DOMAIN mmap /\ k # entry
    BY <1>1
  <2> QED BY <1>1, <1>2, <2>1 DEF Disjoint
<1>5. Parsed' = Parsed \cup new
  <2>1. 1 .. (entry + 1) - 1 = (1 .. entry - 1) \cup {entry}
    BY <1>1
  <2>2. Parsed' = UNION {EntryPages(mmap[k]) : k \in 1 .. (entry + 1) - 1}
    BY DEF Parsed, pmm_init_entry, EntryPages, PagesBetween, ALIGN_UP, ALIGN_DOWN
  <2>3. Parsed' = UNION {EntryPages(mmap[k]) : k \in (1 .. entry - 1) \cup {entry}}
    BY <2>1, <2>2
  <2> QED BY <2>3 DEF Parsed
<1>6. Cardinality(bitmap \cup new) = Cardinality(bitmap) + Cardinality(new)
  BY <1>3, <1>4, CountAdded
<1>7. Cardinality(new) \in Nat
  BY <1>3, PageFinite
<1>8. TypeOK'
  BY <1>1, <1>3, <1>7 DEF IInv, TypeOK, pmm_init_entry, BootAdd
<1>9. BootInv'
  BY <1>3, <1>5, <1>6 DEF IInv, BootInv, pmm_init_entry, BootAdd
<1>10. free_pages_count' = Cardinality(bitmap')
  BY <1>6 DEF IInv, pmm_init_entry, BootAdd
<1>11. PagesPartitioned' /\ FreeingInv'
  BY DEF IInv, PagesPartitioned, FreeingInv, pmm_init_entry
<1> QED BY <1>8, <1>9, <1>10, <1>11 DEF IInv

\* pmm_init's fallback for a missing memory map keeps IInv.
LEMMA FallbackStep == ASSUME IInv, pmm_init_fallback PROVE IInv'
<1>1. bitmap = {} /\ Cardinality(bitmap) = 0
  <2>1. entry - 1 = 0
    BY DEF IInv, TypeOK, pmm_init_fallback
  <2> QED BY <2>1, FS_EmptySet DEF IInv, BootInv, Parsed, pmm_init_fallback
<1>2. Cardinality(FallbackPages) \in Nat /\ FallbackPages \subseteq Page
  BY PageFinite, EntryPagesArePages
<1>3. TypeOK'
  BY <1>1, <1>2 DEF IInv, TypeOK, pmm_init_fallback, BootAdd
<1>4. BootInv'
  BY <1>1, <1>2 DEF IInv, TypeOK, BootInv, pmm_init_fallback, BootAdd, FallbackPages
<1> QED BY <1>1, <1>2, <1>3, <1>4
        DEF IInv, PagesPartitioned, FreeingInv, pmm_init_fallback, BootAdd

\* pmm_mark_used keeps the free counter exact.
LEMMA MarkUsedCounts ==
  ASSUME NEW s, NEW e, bitmap \in SUBSET Page,
         free_pages_count = Cardinality(bitmap), pmm_mark_used(s, e)
  PROVE  /\ bitmap' = bitmap \ MarkedPages(s, e)
         /\ bitmap' \in SUBSET Page
         /\ free_pages_count' = Cardinality(bitmap')
         /\ free_pages_count' \in Nat
<1> DEFINE gone == bitmap \cap MarkedPages(s, e)
<1>1. Cardinality(bitmap) \in Nat /\ Cardinality(gone) \in Nat
  BY PageFinite
<1>2. Cardinality(bitmap \ gone) \in Nat
  BY PageFinite
<1>3. Cardinality(bitmap \ gone) = Cardinality(bitmap) - Cardinality(gone)
  BY CountRemoved
<1>4. bitmap \ gone = bitmap \ MarkedPages(s, e)
  OBVIOUS
<1> QED BY <1>1, <1>2, <1>3, <1>4 DEF pmm_mark_used

\* pmm_init's reservation of the low megabyte and the kernel keeps IInv.
LEMMA KernelStep == ASSUME IInv, pmm_init_kernel PROVE IInv'
<1>1. bitmap = RamPages /\ total_pages_count = Cardinality(RamPages)
  <2>1. CASE phase = "map" /\ mmap # <<>> /\ entry > Len(mmap)
    <3>1. 1 .. entry - 1 = DOMAIN mmap
      <4>1. mmap \in Seq(Entry)
        BY <2>1, PmmConstants DEF IInv, TypeOK
      <4>2. entry = Len(mmap) + 1 /\ Len(mmap) \in Nat
        BY <2>1, <4>1 DEF IInv, TypeOK
      <4> QED BY <4>1, <4>2
    <3>2. Parsed = UNION {EntryPages(mmap[k]) : k \in DOMAIN mmap}
      BY <3>1 DEF Parsed
    <3>3. RamPages = Parsed
      BY <2>1, <3>2 DEF RamPages
    <3> QED BY <2>1, <3>3 DEF IInv, BootInv
  <2>2. CASE phase = "kernel"
    BY <2>2 DEF IInv, BootInv, RamPages
  <2> QED BY <2>1, <2>2 DEF pmm_init_kernel
<1>2. /\ bitmap' = bitmap \ KernelPages
      /\ bitmap' \in SUBSET Page
      /\ free_pages_count' = Cardinality(bitmap')
      /\ free_pages_count' \in Nat
  BY MarkUsedCounts DEF IInv, TypeOK, pmm_init_kernel, KernelPages
<1>3. RamPages' = RamPages
  BY DEF RamPages, pmm_init_kernel
<1>4. held = {} /\ freeing = NoFree
  BY DEF IInv, BootInv, pmm_init_kernel
<1>5. TypeOK'
  BY <1>2 DEF IInv, TypeOK, pmm_init_kernel
<1>6. BootInv'
  BY <1>1, <1>2, <1>3, <1>4 DEF BootInv, pmm_init_kernel
<1> QED BY <1>2, <1>4, <1>5, <1>6
        DEF IInv, PagesPartitioned, FreeingInv, pmm_init_kernel

\* kmain's protection of the initrd keeps IInv.
LEMMA InitrdStep == ASSUME IInv, kmain_protect_initrd PROVE IInv'
<1>1. /\ bitmap' = bitmap \ InitrdPages
      /\ bitmap' \in SUBSET Page
      /\ free_pages_count' = Cardinality(bitmap')
      /\ free_pages_count' \in Nat
  BY MarkUsedCounts DEF IInv, TypeOK, kmain_protect_initrd, InitrdPages
<1>2. RamPages' = RamPages
  BY DEF RamPages, kmain_protect_initrd
<1>3. held = {} /\ freeing = NoFree /\ bitmap = RamPages \ KernelPages
  BY DEF IInv, BootInv, kmain_protect_initrd
<1>4. TypeOK'
  BY <1>1 DEF IInv, TypeOK, kmain_protect_initrd
<1>5. BootInv'
  BY <1>2 DEF IInv, BootInv, kmain_protect_initrd
<1>6. PagesPartitioned'
  BY <1>1, <1>2, <1>3 DEF PagesPartitioned, Usable, kmain_protect_initrd
<1> QED BY <1>1, <1>3, <1>4, <1>5, <1>6
        DEF IInv, FreeingInv, kmain_protect_initrd

-----------------------------------------------------------------------------
\* Usable does not change once boot is over, and page 0 is not in it.
LEMMA UsableFixed ==
  ASSUME Bookkeeping
  PROVE  Usable' = Usable /\ RamPages' = RamPages /\ 0 \notin Usable
BY NullPageReserved DEF Usable, RamPages, Bookkeeping

\* pmm_alloc keeps IInv, whether or not it finds a page.
LEMMA AllocStep == ASSUME IInv, pmm_alloc PROVE IInv'
<1>1. PICK p \in bitmap : bitmap' = bitmap \ {p} /\ held' = held \cup {p}
  BY DEF pmm_alloc
<1>2. phase = "up" /\ phase' = "up" /\ p \in Page
  BY <1>1 DEF IInv, TypeOK, pmm_alloc, Bookkeeping
<1>3. IsFiniteSet(bitmap) /\ Cardinality(bitmap) \in Nat
      /\ Cardinality(bitmap') \in Nat
  BY <1>1, PageFinite DEF IInv, TypeOK
<1>4. Cardinality(bitmap') = Cardinality(bitmap) - 1
  BY <1>1, <1>3, FS_RemoveElement
<1>5. free_pages_count' = Cardinality(bitmap') /\ free_pages_count' \in Nat
  BY <1>3, <1>4 DEF IInv, pmm_alloc
<1>6. TypeOK'
  BY <1>1, <1>2, <1>5 DEF IInv, TypeOK, pmm_alloc, Bookkeeping
<1>7. BootInv'
  BY <1>2, UsableFixed DEF IInv, BootInv, pmm_alloc, Bookkeeping
<1>8. PagesPartitioned'
  BY <1>1, <1>2, UsableFixed DEF IInv, PagesPartitioned, pmm_alloc
<1>9. FreeingInv'
  BY <1>1 DEF IInv, FreeingInv, pmm_alloc
<1> QED BY <1>5, <1>6, <1>7, <1>8, <1>9 DEF IInv

\* Giving back one page that is held, free, 0 or past the bitmap.
LEMMA FreeBit ==
  ASSUME NEW p \in Nat, IInv, phase = "up", free_bit(p), held' = held \ {p},
         p \in held \cup bitmap \cup {0, BITMAP_BITS}, Bookkeeping
  PROVE  /\ bitmap' \in SUBSET Page
         /\ free_pages_count' = Cardinality(bitmap')
         /\ free_pages_count' \in Nat
         /\ PagesPartitioned'
<1>1. bitmap \in SUBSET Page /\ held \in SUBSET Page /\ BITMAP_BITS \notin Page
      /\ IsFiniteSet(bitmap) /\ Cardinality(bitmap) \in Nat
  BY PageFinite, PmmConstants DEF IInv, TypeOK, Page
<1>2. 0 \notin bitmap /\ 0 \notin held /\ bitmap \cap held = {}
      /\ bitmap \cup held = Usable /\ Usable' = Usable
  BY UsableFixed DEF IInv, PagesPartitioned
<1>3. CASE p \in Page \ {0} /\ p \notin bitmap
  <2>1. bitmap' = bitmap \cup {p} /\ p \in held
    BY <1>1, <1>2, <1>3 DEF free_bit
  <2>2. Cardinality(bitmap') = Cardinality(bitmap) + 1
    BY <1>1, <1>3, <2>1, FS_AddElement
  <2>3. free_pages_count' = free_pages_count + 1
    BY <1>3 DEF free_bit
  <2>4. PagesPartitioned'
    BY <1>2, <2>1 DEF PagesPartitioned
  <2> QED BY <1>1, <1>3, <2>1, <2>2, <2>3, <2>4 DEF IInv
<1>4. CASE ~(p \in Page \ {0} /\ p \notin bitmap)
  <2>1. bitmap' = bitmap /\ free_pages_count' = free_pages_count
    BY <1>4 DEF free_bit
  <2>2. p \notin held
    BY <1>1, <1>2, <1>4
  <2>3. PagesPartitioned'
    BY <1>2, <2>1, <2>2 DEF PagesPartitioned
  <2> QED BY <1>1, <2>1, <2>3 DEF IInv, TypeOK
<1> QED BY <1>3, <1>4

\* pmm_free keeps IInv, of a page that is held or free already.
LEMMA FreeStep ==
  ASSUME IInv, NEW p \in held \cup bitmap \cup {0, BITMAP_BITS}, pmm_free(p)
  PROVE  IInv'
<1>1. p \in Nat
  BY PmmConstants DEF IInv, TypeOK, Page
<1>2. phase = "up" /\ Bookkeeping /\ free_bit(p) /\ held' = held \ {p}
      /\ freeing' = freeing
  BY DEF pmm_free
<1>3. /\ bitmap' \in SUBSET Page
      /\ free_pages_count' = Cardinality(bitmap')
      /\ free_pages_count' \in Nat
      /\ PagesPartitioned'
  BY <1>1, <1>2, FreeBit
<1>4. TypeOK'
  BY <1>2, <1>3 DEF IInv, TypeOK, Bookkeeping
<1>5. BootInv'
  BY <1>2, UsableFixed DEF IInv, BootInv, Bookkeeping
<1>6. FreeingInv'
  BY <1>2 DEF IInv, FreeingInv, pmm_free
<1> QED BY <1>3, <1>4, <1>5, <1>6 DEF IInv

\* pmm_alloc_contiguous keeps IInv.
LEMMA AllocContiguousStep ==
  ASSUME IInv, NEW n \in 1 .. MAX_RUN, pmm_alloc_contiguous(n)
  PROVE  IInv'
<1> DEFINE run(s) == s .. s + n - 1
<1>1. PICK s \in Page : /\ run(s) \subseteq bitmap
                        /\ bitmap' = bitmap \ run(s)
                        /\ held' = held \cup run(s)
  BY DEF pmm_alloc_contiguous, FreeRun
<1>2. phase = "up" /\ phase' = "up" /\ n \in Nat /\ s \in Nat
  BY PmmConstants DEF pmm_alloc_contiguous, Bookkeeping, Page
<1>3. Cardinality(run(s)) = n
  <2>1. s \in Int /\ s + n - 1 \in Int /\ ~(s > s + n - 1)
    BY <1>2
  <2>2. Cardinality(s .. s + n - 1) = (s + n - 1) - s + 1
    BY <2>1, FS_Interval
  <2> QED BY <1>2, <2>2
<1>4. Cardinality(bitmap') = Cardinality(bitmap) - n
  BY <1>1, <1>3, CountRemoved DEF IInv, TypeOK
<1>5. Cardinality(bitmap') \in Nat
  BY <1>1, PageFinite DEF IInv, TypeOK
<1>6. free_pages_count' = Cardinality(bitmap') /\ free_pages_count' \in Nat
  BY <1>4, <1>5 DEF IInv, pmm_alloc_contiguous
<1>7. TypeOK'
  BY <1>1, <1>6 DEF IInv, TypeOK, pmm_alloc_contiguous, Bookkeeping
<1>8. BootInv'
  BY <1>2, UsableFixed DEF IInv, BootInv, pmm_alloc_contiguous, Bookkeeping
<1>9. PagesPartitioned'
  BY <1>1, <1>2, UsableFixed DEF IInv, PagesPartitioned, pmm_alloc_contiguous
<1>10. FreeingInv'
  BY <1>1 DEF IInv, FreeingInv, pmm_alloc_contiguous
<1> QED BY <1>6, <1>7, <1>8, <1>9, <1>10 DEF IInv

\* The call of pmm_free_contiguous keeps IInv.
LEMMA FreeContiguousStep ==
  ASSUME IInv, NEW p \in Page, NEW n \in 1 .. MAX_RUN, pmm_free_contiguous(p, n)
  PROVE  IInv'
<1>1. p \in Nat /\ n \in Nat /\ phase = "up" /\ phase' = "up"
  BY PmmConstants DEF Page, pmm_free_contiguous, Bookkeeping
<1>2. TypeOK'
  BY <1>1 DEF IInv, TypeOK, pmm_free_contiguous, Bookkeeping
<1>3. BootInv'
  BY <1>1, UsableFixed DEF IInv, BootInv, pmm_free_contiguous, Bookkeeping
<1>4. PagesPartitioned'
  BY UsableFixed DEF IInv, PagesPartitioned, pmm_free_contiguous, Bookkeeping
<1>5. FreeingInv'
  BY DEF FreeingInv, pmm_free_contiguous
<1> QED BY <1>2, <1>3, <1>4, <1>5 DEF IInv, pmm_free_contiguous

\* An iteration of pmm_free_contiguous's loop keeps IInv.
LEMMA FreeContiguousLoopStep ==
  ASSUME IInv, pmm_free_contiguous_step
  PROVE  IInv'
<1> DEFINE p == freeing.next
<1>1. /\ freeing.next \in Nat /\ freeing.left \in 0 .. MAX_RUN /\ MAX_RUN \in Nat
      /\ freeing.left > 0
  BY PmmConstants DEF IInv, TypeOK, pmm_free_contiguous_step
<1>2. p \in held
  BY <1>1 DEF IInv, FreeingInv
<1>3. phase = "up" /\ Bookkeeping /\ free_bit(p) /\ held' = held \ {p}
      /\ freeing' = [next |-> p + 1, left |-> freeing.left - 1]
  BY DEF pmm_free_contiguous_step
<1>4. /\ bitmap' \in SUBSET Page
      /\ free_pages_count' = Cardinality(bitmap')
      /\ free_pages_count' \in Nat
      /\ PagesPartitioned'
  BY <1>1, <1>2, <1>3, FreeBit
<1>5. TypeOK'
  BY <1>1, <1>3, <1>4 DEF IInv, TypeOK, Bookkeeping
<1>6. BootInv'
  BY <1>3, UsableFixed DEF IInv, BootInv, Bookkeeping
<1>7. FreeingInv'
  BY <1>1, <1>3 DEF IInv, FreeingInv
<1> QED BY <1>4, <1>5, <1>6, <1>7 DEF IInv

-----------------------------------------------------------------------------
\* Every step of boot and of every allocator call keeps IInv.
LEMMA NextIInv ==
  ASSUME \A m \in MemMaps : Disjoint(m), IInv, [Next]_vars
  PROVE  IInv'
<1>1. CASE pmm_init_entry            BY <1>1, EntryStep
<1>2. CASE pmm_init_fallback         BY <1>2, FallbackStep
<1>3. CASE pmm_init_kernel           BY <1>3, KernelStep
<1>4. CASE kmain_protect_initrd      BY <1>4, InitrdStep
<1>5. CASE pmm_alloc                 BY <1>5, AllocStep
<1>6. CASE \E p \in held \cup bitmap \cup {0, BITMAP_BITS} : pmm_free(p)
  BY <1>6, FreeStep
<1>7. CASE \E n \in 1 .. MAX_RUN : pmm_alloc_contiguous(n)
  BY <1>7, AllocContiguousStep
<1>8. CASE \E p \in Page, n \in 1 .. MAX_RUN : pmm_free_contiguous(p, n)
  BY <1>8, FreeContiguousStep
<1>9. CASE pmm_free_contiguous_step  BY <1>9, FreeContiguousLoopStep
<1>10. CASE UNCHANGED vars
  BY <1>10 DEF vars, IInv, TypeOK, BootInv, Parsed, RamPages, PagesPartitioned,
               Usable, FreeingInv
<1> QED BY <1>1, <1>2, <1>3, <1>4, <1>5, <1>6, <1>7, <1>8, <1>9, <1>10 DEF Next

\* The inductive invariant holds in every reachable state, whatever calls the
\* clients of mm/pmm.c make, when the boot memory map has disjoint entries.
THEOREM PmmInductive ==
  ASSUME \A m \in MemMaps : Disjoint(m)
  PROVE  Spec => []IInv
BY InitIInv, NextIInv, PTL DEF Spec

\* Type correctness of the page allocator's state.
THEOREM PmmTypeCorrect ==
  ASSUME \A m \in MemMaps : Disjoint(m)
  PROVE  Spec => []TypeOK
<1>1. IInv => TypeOK
  BY DEF IInv
<1> QED BY <1>1, PmmInductive, PTL

\* free_pages_count is the number of free bits and total_pages_count the
\* number of pages found at boot, for every bitmap, map and call sequence.
THEOREM PmmCountersExact ==
  ASSUME \A m \in MemMaps : Disjoint(m)
  PROVE  Spec => []CountersExact
<1>1. IInv => CountersExact
  BY DEF IInv, BootInv, CountersExact
<1> QED BY <1>1, PmmInductive, PTL

\* After boot every usable page is free or held once: pmm_alloc and
\* pmm_alloc_contiguous never hand out a page twice, nor a reserved one.
THEOREM PmmPagesPartitioned ==
  ASSUME \A m \in MemMaps : Disjoint(m)
  PROVE  Spec => []PagesPartitioned
<1>1. IInv => PagesPartitioned
  BY DEF IInv
<1> QED BY <1>1, PmmInductive, PTL

=============================================================================
