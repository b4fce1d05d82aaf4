-------------------------------- MODULE Pmm --------------------------------
(***************************************************************************)
(* The physical page allocator, mm/pmm.c: a bitmap with one bit per page   *)
(* (1 = free) and two counters.  Pages are numbered; an address is a       *)
(* number of small units, PAGE_SIZE of them to a page, so that the         *)
(* alignment of the boot memory map and the truncation of its 64-bit       *)
(* addresses to uptr are modelled and nothing else of the bytes is.        *)
(*                                                                         *)
(* Every function of the file takes pmm_lock with interrupts off, so a     *)
(* call is one step; pmm_free_contiguous takes the lock once per page and  *)
(* is one step per page.                                                   *)
(***************************************************************************)
EXTENDS Integers, Sequences, FiniteSets

CONSTANTS
  BITMAP_BITS,     \* pages the bitmap covers (PHYS_MEM_MAX / PAGE_SIZE)
  PAGE_SIZE,       \* address units in a page
  UPTR,            \* number of addresses a uptr can hold (2^32)
  MemMaps,         \* the boot memory maps: sequences of entries
  FALLBACK_FIRST,  \* first page assumed present when there is no map
  FALLBACK_END,    \* first page after those
  KEND,            \* end of the kernel image plus its safety margin
  InitrdStart,     \* the boot module that kmain protects
  InitrdEnd,
  MAX_RUN          \* largest n any caller passes to pmm_alloc_contiguous

Page == 0 .. BITMAP_BITS - 1

Entry == [base : Nat, length : Nat, available : BOOLEAN]

ASSUME PmmConstants ==
  /\ BITMAP_BITS \in Nat \ {0}
  /\ PAGE_SIZE \in Nat \ {0}
  /\ UPTR \in Nat \ {0}
  /\ MemMaps \subseteq Seq(Entry)
  /\ FALLBACK_FIRST \in Nat
  /\ FALLBACK_END \in 0 .. BITMAP_BITS
  /\ KEND \in Nat \ {0}
  /\ InitrdStart \in Nat
  /\ InitrdEnd \in Nat
  /\ MAX_RUN \in Nat \ {0}

VARIABLES
  bitmap,             \* the set of pages whose bit is 1: free
  total_pages_count,
  free_pages_count,
  mmap,               \* the boot memory map; <<>> when mmap_addr is 0
  entry,              \* index of the next map entry pmm_init parses
  phase,              \* how far boot has come
  held,               \* history: pages handed out and not yet given back
  freeing             \* a pmm_free_contiguous call under way

vars == <<bitmap, total_pages_count, free_pages_count, mmap, entry, phase,
          held, freeing>>

-----------------------------------------------------------------------------
ALIGN_DOWN(x) == (x \div PAGE_SIZE) * PAGE_SIZE
ALIGN_UP(x)   == ALIGN_DOWN(x + PAGE_SIZE - 1)

\* The pages whose first unit lies in [from, to), as the page loops visit them.
PagesBetween(from, to) ==
  {i \in Page : from <= i * PAGE_SIZE /\ i * PAGE_SIZE < to}

\* The pages one map entry makes free.  The 64-bit bounds are truncated.
EntryPages(e) ==
  IF e.available
  THEN PagesBetween(ALIGN_UP(e.base) % UPTR,
                    ALIGN_DOWN(e.base + e.length) % UPTR)
  ELSE {}

FallbackPages == {i \in Page : FALLBACK_FIRST <= i /\ i < FALLBACK_END}

\* What pmm_init finds before it reserves the kernel.
RamPages ==
  IF mmap = <<>> THEN FallbackPages
                 ELSE UNION {EntryPages(mmap[k]) : k \in DOMAIN mmap}

\* The pages pmm_mark_used(start, end) visits.
MarkedPages(start, end) == PagesBetween(ALIGN_DOWN(start), ALIGN_UP(end))

KernelPages == MarkedPages(0, KEND)
InitrdPages == MarkedPages(InitrdStart, InitrdEnd)

\* The pages a client can ever be given.
Usable == RamPages \ (KernelPages \cup InitrdPages)

\* The entries of a map describe pairwise different pages (after truncation).
Disjoint(m) ==
  \A j, k \in DOMAIN m :
    j # k => EntryPages(m[j]) \cap EntryPages(m[k]) = {}

NoFree == [next |-> 0, left |-> 0]

-----------------------------------------------------------------------------
Init ==
  /\ bitmap = {}
  /\ total_pages_count = 0
  /\ free_pages_count = 0
  /\ mmap \in MemMaps \cup {<<>>}
  /\ entry = 1
  /\ phase = "map"
  /\ held = {}
  /\ freeing = NoFree

\* Bits are set and both counters raised by a run of pages found at boot.
BootAdd(pages) ==
  /\ bitmap' = bitmap \cup pages
  /\ total_pages_count' = total_pages_count + Cardinality(pages)
  /\ free_pages_count' = free_pages_count + Cardinality(pages)

\* pmm_init, one iteration of the loop over the memory map.
pmm_init_entry ==
  /\ phase = "map" /\ entry <= Len(mmap)
  /\ BootAdd(EntryPages(mmap[entry]))
  /\ entry' = entry + 1
  /\ UNCHANGED <<mmap, phase, held, freeing>>

\* pmm_init without a memory map: a fixed range is assumed.
pmm_init_fallback ==
  /\ phase = "map" /\ mmap = <<>>
  /\ BootAdd(FallbackPages)
  /\ phase' = "kernel"
  /\ UNCHANGED <<mmap, entry, held, freeing>>

\* pmm_mark_used: clears the set bits of the range, one decrement for each,
\* never below zero.
pmm_mark_used(start, end) ==
  LET n == Cardinality(bitmap \cap MarkedPages(start, end))
  IN  /\ bitmap' = bitmap \ MarkedPages(start, end)
      /\ free_pages_count' = IF n <= free_pages_count
                             THEN free_pages_count - n ELSE 0

\* The end of pmm_init: the kernel image is reserved.  The BIT_CLR(0) that
\* follows clears a bit of that same range.
pmm_init_kernel ==
  /\ \/ phase = "map" /\ mmap # <<>> /\ entry > Len(mmap)
     \/ phase = "kernel"
  /\ pmm_mark_used(0, KEND)
  /\ phase' = "initrd"
  /\ UNCHANGED <<total_pages_count, mmap, entry, held, freeing>>

\* kmain protects the initrd, and from here on clients call.
kmain_protect_initrd ==
  /\ phase = "initrd"
  /\ pmm_mark_used(InitrdStart, InitrdEnd)
  /\ phase' = "up"
  /\ UNCHANGED <<total_pages_count, mmap, entry, held, freeing>>

-----------------------------------------------------------------------------
Bookkeeping == UNCHANGED <<total_pages_count, mmap, entry, phase>>

\* pmm_alloc: the lowest set bit.  With none set it returns 0 and changes
\* nothing.
pmm_alloc ==
  /\ phase = "up"
  /\ \E p \in bitmap :
       /\ \A q \in bitmap : p <= q
       /\ bitmap' = bitmap \ {p}
       /\ held' = held \cup {p}
  /\ free_pages_count' = free_pages_count - 1
  /\ Bookkeeping /\ UNCHANGED freeing

\* Faulty: without the test of the bit a second free is counted.
free_bit_untested(p) ==
  IF p \in Page \ {0}
  THEN /\ bitmap' = bitmap \cup {p}
       /\ free_pages_count' = free_pages_count + 1
  ELSE UNCHANGED <<bitmap, free_pages_count>>

\* The effect of pmm_free(p): address 0 and addresses past the bitmap are
\* ignored, a page that is already free is left alone.
free_bit(p) ==
  IF p \in Page \ {0} /\ p \notin bitmap
  THEN /\ bitmap' = bitmap \cup {p}
       /\ free_pages_count' = free_pages_count + 1
  ELSE UNCHANGED <<bitmap, free_pages_count>>

\* Callers free what they hold.  They also pass 0, and (fork's error path
\* does) a page that has been freed already.
pmm_free(p) ==
  /\ phase = "up"
  /\ p \notin freeing.next .. freeing.next + freeing.left - 1
  /\ free_bit(p)
  /\ held' = held \ {p}
  /\ Bookkeeping /\ UNCHANGED freeing

\* Is s..s+n-1 a run of free pages?  The scan starts at page 1.
FreeRun(s, n) == s >= 1 /\ s .. s + n - 1 \subseteq bitmap

\* Faulty: the clearing loop stops one page early.
alloc_run_short(n) ==
  /\ phase = "up"
  /\ \E s \in Page :
       /\ FreeRun(s, n)
       /\ \A r \in Page : r < s => ~FreeRun(r, n)
       /\ bitmap' = bitmap \ (s .. s + n - 2)
       /\ held' = held \cup (s .. s + n - 1)
  /\ free_pages_count' = free_pages_count - n
  /\ Bookkeeping /\ UNCHANGED freeing

\* pmm_alloc_contiguous: the first run of n set bits.  With none it returns
\* 0 and changes nothing.  (PmmScan checks the loop against FreeRun.)
pmm_alloc_contiguous(n) ==
  /\ phase = "up"
  /\ \E s \in Page :
       /\ FreeRun(s, n)
       /\ \A r \in Page : r < s => ~FreeRun(r, n)
       /\ bitmap' = bitmap \ (s .. s + n - 1)
       /\ held' = held \cup (s .. s + n - 1)
  /\ free_pages_count' = free_pages_count - n
  /\ Bookkeeping /\ UNCHANGED freeing

\* pmm_free_contiguous is called on a run the caller holds (a kernel stack).
pmm_free_contiguous(p, n) ==
  /\ phase = "up" /\ freeing.left = 0
  /\ p .. p + n - 1 \subseteq held
  /\ freeing' = [next |-> p, left |-> n]
  /\ Bookkeeping /\ UNCHANGED <<bitmap, free_pages_count, held>>

\* One iteration of its loop; other calls may come between two of them.
pmm_free_contiguous_step ==
  /\ phase = "up" /\ freeing.left > 0
  /\ free_bit(freeing.next)
  /\ held' = held \ {freeing.next}
  /\ freeing' = [next |-> freeing.next + 1, left |-> freeing.left - 1]
  /\ Bookkeeping

Next ==
  \/ pmm_init_entry
  \/ pmm_init_fallback
  \/ pmm_init_kernel
  \/ kmain_protect_initrd
  \/ pmm_alloc
  \/ \E p \in held \cup bitmap \cup {0, BITMAP_BITS} : pmm_free(p)
  \/ \E n \in 1 .. MAX_RUN : pmm_alloc_contiguous(n)
  \/ \E p \in Page, n \in 1 .. MAX_RUN : pmm_free_contiguous(p, n)
  \/ pmm_free_contiguous_step

Spec == Init /\ [][Next]_vars

-----------------------------------------------------------------------------
(* Properties.                                                             *)

\* The bitmap holds only pages it covers, whatever address pmm_free is given,
\* and the counters do not go below zero.
TypeOK ==
  /\ bitmap \subseteq Page
  /\ total_pages_count \in Nat
  /\ free_pages_count \in Nat
  /\ mmap \in MemMaps \cup {<<>>}
  /\ entry \in 1 .. Len(mmap) + 1
  /\ phase \in {"map", "kernel", "initrd", "up"}
  /\ held \subseteq Page
  /\ freeing \in [next : Nat, left : 0 .. MAX_RUN]

\* Types are right.  free_pages_count, which pmm_init prints and /proc/meminfo and sysinfo
\* report, is the number of free bits, and total_pages_count the number of
\* pages found at boot once boot is over: no call, in any order, no double
\* free and no interleaved contiguous free makes them drift.
CountersExact ==
  /\ TypeOK
  /\ free_pages_count = Cardinality(bitmap)
  /\ phase = "up" => total_pages_count = Cardinality(RamPages)

\* Once boot is over a usable page is either free or held by exactly one
\* allocation, and nothing else is: pmm_alloc and pmm_alloc_contiguous never
\* hand out a page twice, never one of the kernel, the initrd or page 0, and
\* no page is lost.
PagesPartitioned ==
  phase = "up" => /\ bitmap \cap held = {}
                  /\ bitmap \cup held = Usable

=============================================================================
