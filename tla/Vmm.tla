-------------------------------- MODULE Vmm --------------------------------
(***************************************************************************)
(* User address spaces, mm/vmm.c, with the system calls brk, mmap, munmap, *)
(* fork, exec and exit that change them: the page directory, the page      *)
(* tables and the pages of each mm_struct, its VMAs, and what happens to   *)
(* the page frames.  pmm_alloc hands out the lowest free frame (module     *)
(* Pmm) and fails when there is none.  System calls run with interrupts    *)
(* off: a call is one step, in which any of its allocations may fail.      *)
(***************************************************************************)
EXTENDS Integers, FiniteSets, FiniteSetsExt, SequencesExt

CONSTANTS
  MM,            \* the mm_structs of the slab
  FRAMES,        \* page frames, all of them in the direct map
  PT_ENTRIES,    \* pages a page table maps
  TABLES,        \* page tables of the user half
  Image,         \* pages that exec maps: segments and stack
  START_BRK,     \* first page after the image
  UserPages,     \* pages of the user half that programs name to mmap and munmap
  KernelPages,   \* and of the kernel half
  MAX_PAGES,     \* bound on the pages of one mmap or munmap
  MAX_CALLS      \* bound on the calls and page faults

PAGES == PT_ENTRIES * TABLES            \* pages of the user half
HIGH == PAGES + FRAMES                  \* first page above the direct map
TOP == HIGH + PT_ENTRIES                \* addresses are pages modulo TOP

ASSUME VmmConstants ==
  /\ {FRAMES, PT_ENTRIES, TABLES, MAX_PAGES, MAX_CALLS} \subseteq Nat \ {0}
  /\ Image \subseteq 0 .. PAGES - 1
  /\ UserPages \subseteq 0 .. PAGES - 1
  /\ KernelPages \subseteq PAGES .. TOP - 1
  /\ START_BRK \in 0 .. PAGES - 1

Frame == 1 .. FRAMES
Dir == 0 .. TABLES - 1                  \* directory entries 0 .. 767
UserPage == 0 .. PAGES - 1
DirectPage == PAGES .. HIGH - 1         \* entry 768: every frame, for every space
HighPage == HIGH .. TOP - 1             \* the rest, empty until it is mapped
Page == UserPage \cup HighPage          \* the pages a space has of its own
NONE == 0

VARIABLES
  free,     \* free page frames
  space,    \* the address spaces
  lost,     \* history: frames that are neither free nor in any page table
  failed,   \* history: an allocation has failed
  calls,    \* calls and page faults so far
  stop      \* "no"; "panic": the kernel touched a frame outside the direct map;
            \* "direct": a program has changed the direct map

vars == <<free, space, lost, failed, calls, stop>>

\* No address space: an mm_struct that is not in use.
Unused == [pd |-> NONE, pt |-> [d \in 0 .. TABLES |-> NONE],
           page |-> [p \in Page |-> NONE], vmas |-> {}, brk |-> START_BRK]

InUse == {m \in MM : space[m].pd # NONE}

\* paging_init is done and no process exists.
Init ==
  /\ free = Frame
  /\ space = [m \in MM |-> Unused]
  /\ lost = {}
  /\ failed = FALSE
  /\ calls = 0
  /\ stop = "no"

-----------------------------------------------------------------------------
(* Steps of a call on c: the free frames, one address space s, the         *)
(* histories, and err once the call has failed.                            *)

Call(s) == [free |-> free, s |-> s, lost |-> lost, oom |-> FALSE, direct |-> FALSE,
            err |-> FALSE]

Fail(c) == [c EXCEPT !.err = TRUE]
NoFrame(c) == [c EXCEPT !.oom = TRUE, !.err = TRUE]

\* The directory entry of a page that is not in the direct map.
Entry(p) == IF p \in UserPage THEN p \div PT_ENTRIES ELSE TABLES

\* get_pte with create: the page table of p, allocated if it is missing.
get_pte(c, p) ==
  LET d == Entry(p)
  IN  IF c.s.pt[d] # NONE THEN c
      ELSE IF c.free = {} THEN NoFrame(c)
      ELSE [c EXCEPT !.s.pt[d] = Min(c.free), !.free = @ \ {Min(@)}]

\* map_page of frame f at page p.  Whatever was mapped there is forgotten; f is
\* when there is no page table.  In the direct map the entry belongs to all.
map_page(c, p, f) ==
  LET g == get_pte(c, p)
  IN  IF p \in DirectPage THEN [c EXCEPT !.direct = TRUE]
      ELSE IF g.err THEN [g EXCEPT !.lost = @ \cup {f}]
      ELSE [g EXCEPT !.s.page[p] = f, !.lost = @ \cup ({g.s.page[p]} \ {NONE})]

\* A page is allocated and mapped.  The result of map_page is not looked at.
new_page(c, p) ==
  IF c.err THEN c
  ELSE IF c.free = {} THEN NoFrame(c)
  ELSE [map_page([c EXCEPT !.free = @ \ {Min(@)}], p, Min(c.free)) EXCEPT !.err = FALSE]

\* addr + len, in 32 bits.
End(p, n) == (p + n) % TOP

\* The pages from p to e, none if the addition has wrapped.
Pages(p, e) == [i \in 1 .. e - p |-> p + i - 1]

map_pages(c, seq) == FoldLeft(new_page, c, seq)

\* mm_mmap of n pages at page p; got says whether vma_alloc succeeds.
mm_mmap(c, p, n, got) ==
  LET r == map_pages(c, Pages(p, End(p, n)))
  IN  IF r.err THEN r
      ELSE IF ~got THEN Fail(r)
      ELSE [r EXCEPT !.s.vmas = @ \cup {[start |-> p, end |-> End(p, n)]}]

\* The frames the pages of range are mapped to.
FramesIn(c, range) ==
  ({c.s.page[q] : q \in range \cap Page} \cup {q - PAGES + 1 : q \in range \cap DirectPage})
    \ {NONE}

\* Faulty: the freed page stays in its page table.
mm_munmap_still_mapped(c, p, n) ==
  LET range == p .. End(p, n) - 1
  IN  [c EXCEPT !.free = @ \cup FramesIn(c, range),
                !.direct = @ \/ range \cap DirectPage # {},
                !.s.vmas = {v \in @ : v.end <= p \/ v.start >= End(p, n)}]

\* Faulty: only VMAs that lie in the range are dropped.
mm_munmap_keeps_vmas(c, p, n) ==
  LET range == p .. End(p, n) - 1
  IN  [c EXCEPT !.free = @ \cup FramesIn(c, range),
                !.direct = @ \/ range \cap DirectPage # {},
                !.s.page = [q \in Page |-> IF q \in range THEN NONE ELSE @[q]],
                !.s.vmas = {v \in @ : v.start < p \/ v.end > End(p, n)}]

\* mm_munmap: the pages go, and every VMA that overlaps the range with them.
mm_munmap(c, p, n) ==
  LET range == p .. End(p, n) - 1
  IN  [c EXCEPT !.free = @ \cup FramesIn(c, range),
                !.direct = @ \/ range \cap DirectPage # {},
                !.s.page = [q \in Page |-> IF q \in range THEN NONE ELSE @[q]],
                !.s.vmas = {v \in @ : v.end <= p \/ v.start >= End(p, n)}]

\* The frames of an address space, and those pgdir_destroy finds: it walks the
\* user half.
FramesOf(s) ==
  ({s.pd} \cup {s.pt[d] : d \in 0 .. TABLES} \cup {s.page[p] : p \in Page}) \ {NONE}
UserFrames(s) ==
  ({s.pd} \cup {s.pt[d] : d \in Dir} \cup {s.page[p] : p \in UserPage}) \ {NONE}

\* Faulty: pgdir_destroy frees the pages but not the page tables.
mm_destroy_keeps_tables(c, s) ==
  [c EXCEPT !.free = @ \cup (UserFrames(s) \ {s.pt[d] : d \in Dir}),
            !.lost = @ \cup (FramesOf(s) \ UserFrames(s))]

\* mm_destroy of s.
mm_destroy(c, s) ==
  [c EXCEPT !.free = @ \cup UserFrames(s), !.lost = @ \cup (FramesOf(s) \ UserFrames(s))]

\* mm_destroy of the space the call is about.
destroyed(c) == [mm_destroy(c, c.s) EXCEPT !.s = Unused]

\* mm_create, with pgdir_create
mm_create(c) ==
  IF c.free = {} THEN NoFrame(c)
  ELSE [c EXCEPT !.free = @ \ {Min(@)}, !.s = [Unused EXCEPT !.pd = Min(c.free)]]

\* The frames S in ascending order, the order in which pmm_alloc gives them.
Ascending(S) ==
  [k \in 1 .. Cardinality(S) |-> CHOOSE f \in S : Cardinality({g \in S : g <= f}) = k]

\* pgdir_clone, one page table of src.  When memory runs out, the table and
\* the copies made for it are not in the directory yet.
clone_table(c, src, d) ==
  LET mapped == {p \in UserPage : Entry(p) = d /\ src.page[p] # NONE}
      new    == Ascending(c.free)
      nth(p) == new[1 + Cardinality({q \in mapped : q <= p})]
      need   == 1 + Cardinality(mapped)
  IN  IF c.err \/ src.pt[d] = NONE THEN c
      ELSE IF Cardinality(c.free) < need
           THEN NoFrame([c EXCEPT !.free = {}, !.lost = @ \cup c.free])
      ELSE [c EXCEPT !.s.pt[d] = new[1],
                     !.s.page = [p \in Page |-> IF p \in mapped THEN nth(p) ELSE @[p]],
                     !.free = @ \ {new[k] : k \in 1 .. need}]

\* Faulty: the first page table is passed over.
clone_tables_from_one(c, src) ==
  FoldLeft(LAMBDA a, d : clone_table(a, src, d), c, [i \in 1 .. TABLES - 1 |-> i])

\* Its loop over the user half.
clone_tables(c, src) ==
  FoldLeft(LAMBDA a, d : clone_table(a, src, d), c, [i \in 1 .. TABLES |-> i - 1])

\* mm_clone; got says whether the slab has the VMAs.
mm_clone(c, src, got) ==
  LET r == mm_create(c)
      t == clone_tables(r, src)
  IN  IF r.err THEN r
      ELSE IF t.err \/ ~got THEN Fail(destroyed(t))
      ELSE [t EXCEPT !.s.vmas = src.vmas, !.s.brk = src.brk]

-----------------------------------------------------------------------------
(* The system calls.  c is what a call leaves for address space m.         *)

\* The call has run.  Where it found no frame in the direct map, a machine with
\* more memory hands out one beyond it, which the kernel cannot clear or copy
\* to: it panics.  With the direct map changed, what the kernel does next is
\* not followed.
Done(m, c) ==
  /\ calls < MAX_CALLS /\ calls' = calls + 1
  /\ \/ /\ free' = c.free
        /\ space' = [space EXCEPT ![m] = c.s]
        /\ lost' = c.lost
        /\ failed' = (failed \/ c.err \/ c.oom)
        /\ stop' = IF c.direct THEN "direct" ELSE "no"
     \/ /\ c.oom
        /\ stop' = "panic"
        /\ UNCHANGED <<free, space, lost, failed>>

Calls(m) == m \in InUse /\ stop = "no"

\* exec's new address space: segments and stack.
exec_image(c) ==
  LET r == mm_create(c)
      t == map_pages(r, Ascending(Image))
  IN  IF r.err THEN r ELSE IF t.err THEN Fail(destroyed(t)) ELSE t

\* run_init execs the first program into a new mm_struct.
run_init(m) ==
  /\ InUse = {} /\ stop = "no"
  /\ Done(m, exec_image(Call(Unused)))

\* sys_exec: the old address space goes when the new one is complete.
sys_exec(m) ==
  /\ Calls(m)
  /\ LET c == exec_image(Call(Unused))
     IN  Done(m, IF c.err THEN [c EXCEPT !.s = space[m]] ELSE mm_destroy(c, space[m]))

sys_fork(m, n, got) ==
  /\ Calls(m) /\ n \notin InUse
  /\ Done(n, mm_clone(Call(Unused), space[m], got))

sys_exit(m) ==
  /\ Calls(m)
  /\ Done(m, destroyed(Call(space[m])))

\* sys_mmap without an address: the place is brk, which moves even when the
\* call fails.
mmap_anywhere(m, n, got) ==
  LET old == space[m].brk IN
  /\ Calls(m)
  /\ Done(m, mm_mmap(Call([space[m] EXCEPT !.brk = End(old, n)]), old, n, got))

\* sys_mmap at a page the program names.
mmap_fixed(m, p, n, got) ==
  /\ Calls(m)
  /\ Done(m, mm_mmap(Call(space[m]), p, n, got))

sys_munmap(m, p, n) ==
  /\ Calls(m)
  /\ Done(m, mm_munmap(Call(space[m]), p, n))

\* mm_brk
mm_brk(m, new, got) ==
  LET old == space[m].brk
      c   == IF new > old THEN mm_mmap(Call(space[m]), old, new - old, got)
             ELSE IF new < old THEN mm_munmap(Call(space[m]), new, old - new)
             ELSE Call(space[m])
  IN  /\ Calls(m) /\ new >= START_BRK
      /\ Done(m, IF c.err THEN c ELSE [c EXCEPT !.s.brk = new])

\* page_fault_handler: a user access to a page of a VMA that is not present.
page_fault(m, p) ==
  /\ Calls(m) /\ space[m].page[p] = NONE
  /\ \E v \in space[m].vmas : v.start <= p /\ p < v.end
  /\ Done(m, new_page(Call(space[m]), p))

\* A break past the first page of the direct map crosses that page first.
Next ==
  \E m \in MM :
    \/ run_init(m)
    \/ sys_exec(m)
    \/ \E n \in MM, got \in BOOLEAN : sys_fork(m, n, got)
    \/ sys_exit(m)
    \/ \E n \in 1 .. MAX_PAGES, got \in BOOLEAN : mmap_anywhere(m, n, got)
    \/ \E p \in UserPages \cup KernelPages, n \in 1 .. MAX_PAGES, got \in BOOLEAN :
         mmap_fixed(m, p, n, got)
    \/ \E p \in UserPages \cup KernelPages, n \in 1 .. MAX_PAGES : sys_munmap(m, p, n)
    \/ \E p \in 0 .. PAGES + 1, got \in BOOLEAN : mm_brk(m, p, got)
    \/ \E p \in Page : page_fault(m, p)

Spec == Init /\ [][Next]_vars

-----------------------------------------------------------------------------
(* Properties.                                                             *)

\* Frames and pages are in their ranges.
TypeOK ==
  /\ free \subseteq Frame /\ lost \subseteq Frame
  /\ failed \in BOOLEAN /\ calls \in 0 .. MAX_CALLS /\ stop \in {"no", "panic", "direct"}
  /\ \A m \in MM :
       /\ space[m].pd \in Frame \cup {NONE}
       /\ space[m].pt \in [0 .. TABLES -> Frame \cup {NONE}]
       /\ space[m].page \in [Page -> Frame \cup {NONE}]
       /\ space[m].brk \in 0 .. TOP - 1
       /\ \A v \in space[m].vmas : v.start \in 0 .. TOP - 1 /\ v.end \in 0 .. TOP - 1

\* How often frame f is a directory, a table or a page of address space s.
Uses(s, f) ==
  (IF s.pd = f THEN 1 ELSE 0) + Cardinality({d \in 0 .. TABLES : s.pt[d] = f})
                              + Cardinality({p \in Page : s.page[p] = f})

\* Types are right and address spaces are separate: a frame has one use in one
\* address space, and none while it is free, also after calls that failed half
\* way.  A program that maps or unmaps a page of the direct map, which nothing
\* in mmap, munmap or brk prevents, ends this: the frame is freed in whatever
\* space has it.
FramesPrivate ==
  /\ TypeOK
  /\ stop # "direct" =>
       \A f \in Frame :
         LET total == MapThenSumSet(LAMBDA m : Uses(space[m], f), MM)
         IN  total <= (IF f \in free THEN 0 ELSE 1)

\* A frame that is neither free nor in use was lost in one of four ways, and
\* stays lost: pgdir_clone ran out of memory in the middle of a page table,
\* map_page replaced a mapping, map_page got no page table, or a space went that
\* had pages above the direct map.  No call loses a frame in another way or
\* finds one again.
FramesKept ==
  stop # "direct" =>
    LET used == UNION {FramesOf(space[m]) : m \in MM}
    IN  Frame = free \cup used \cup lost /\ lost \cap (free \cup used) = {}

\* A page of the user half in a VMA is present, whatever brk, mmap and munmap
\* have been called in whatever order, unless an allocation has failed.
VmasPresent ==
  ~failed =>
    \A m \in MM : \A v \in space[m].vmas :
      \A p \in UserPage : v.start <= p /\ p < v.end => space[m].page[p] # NONE

\* README: fork is "a complete clone of the address space".  What a fork that
\* succeeds makes has the VMAs and the break of a space in use, and its pages of
\* the user half; pages above the direct map are not copied.
CloneComplete ==
  [][\A n \in MM \ InUse :
       InUse # {} /\ space'[n].pd # NONE =>
         \E k \in InUse :
           /\ space'[n].vmas = space[k].vmas /\ space'[n].brk = space[k].brk
           /\ \A p \in UserPage :
                (space'[n].page[p] = NONE) = (space[k].page[p] = NONE)]_vars

=============================================================================
