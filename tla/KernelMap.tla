----------------------------- MODULE KernelMap -----------------------------
(***************************************************************************)
(* The kernel half of the page directories, mm/vmm.c: the direct map that  *)
(* paging_init sets up, the kernel heap whose pages page_fault_handler     *)
(* maps on demand in kernel_pgdir, and the copy of the kernel's directory  *)
(* entries that pgdir_create gives each process.  A page table reached     *)
(* from two directories is one table: only the entries are copied.         *)
(***************************************************************************)
EXTENDS Integers, FiniteSets

CONSTANTS
  Proc,     \* processes
  KT,       \* kernel_task, which runs on kernel_pgdir itself
  NONE,
  DIRS,     \* directory entries that cover the heap
  PER_DIR,  \* heap pages an entry covers
  FRAMES,   \* free page frames
  DIRECT    \* how many of them, from the lowest, the direct map reaches

HeapPage == 0 .. DIRS * PER_DIR - 1
Dir(h) == h \div PER_DIR

VARIABLES
  kernel_dirs,   \* heap entries present in kernel_pgdir
  mapped,        \* heap pages mapped in the tables those lead to
  dirs,          \* heap entries in each process's directory, NONE without one
  current,       \* whose directory CR3 holds
  heap_top,      \* heap pages that kmalloc has begun to use
  fault,         \* the heap page whose access has faulted
  used,          \* frames handed out: pmm_alloc gives the lowest
  panic          \* why the kernel has stopped

vars == <<kernel_dirs, mapped, dirs, current, heap_top, fault, used, panic>>

\* kmalloc_init has touched the first page of the heap.
Init ==
  /\ kernel_dirs = {0}
  /\ mapped = {0}
  /\ dirs = [p \in Proc |-> NONE]
  /\ current = KT
  /\ heap_top = 1
  /\ fault = NONE
  /\ used = 0
  /\ panic = "no"

\* The entries the MMU sees.
Present == IF current = KT THEN kernel_dirs ELSE dirs[current]

Accessible(h) == Dir(h) \in Present /\ h \in mapped

Up == panic = "no" /\ fault = NONE

\* pmm_alloc_zero, n times: the frames are cleared through the direct map.
alloc_zero(n) ==
  /\ used' = used + n
  /\ panic' = IF used' > DIRECT THEN "unmapped" ELSE panic

\* pgdir_create for a process, with the entries of the moment.
pgdir_create(p) ==
  /\ Up /\ dirs[p] = NONE /\ used < FRAMES
  /\ alloc_zero(1)
  /\ dirs' = [dirs EXCEPT ![p] = kernel_dirs]
  /\ UNCHANGED <<kernel_dirs, mapped, current, heap_top, fault>>

\* schedule() and paging_switch.
paging_switch(p) ==
  /\ Up /\ dirs[p] # NONE /\ p # current
  /\ current' = p
  /\ UNCHANGED <<kernel_dirs, mapped, dirs, heap_top, fault, used, panic>>

\* Kernel code touches a page of the heap; kmalloc also a page past the top.
touch(h) ==
  /\ Up /\ h <= heap_top
  /\ heap_top' = IF h = heap_top THEN h + 1 ELSE heap_top
  /\ fault' = IF Accessible(h) THEN NONE ELSE h
  /\ UNCHANGED <<kernel_dirs, mapped, dirs, current, used, panic>>

\* The faulting access, made again.
Retry ==
  LET seen == IF current = KT THEN kernel_dirs' ELSE dirs[current]
  IN  fault' = IF panic' = "no" /\ Dir(fault) \in seen /\ fault \in mapped'
               THEN NONE ELSE fault

\* page_fault_handler for the heap: a page, and the table if kernel_pgdir has
\* none, in kernel_pgdir.  Without a frame for the page it panics; that
\* map_page finds none for the table is not looked at.  Then the access is made
\* again.
page_fault_handler ==
  LET need == IF Dir(fault) \in kernel_dirs THEN 1 ELSE 2
  IN  /\ panic = "no" /\ fault # NONE
      /\ \/ /\ used + need <= FRAMES
            /\ alloc_zero(need)
            /\ mapped' = mapped \cup {fault}
            /\ kernel_dirs' = kernel_dirs \cup {Dir(fault)}
         \/ /\ used < FRAMES /\ used + need > FRAMES
            /\ alloc_zero(1)
            /\ UNCHANGED <<mapped, kernel_dirs>>
         \/ /\ used = FRAMES
            /\ panic' = "oom"
            /\ UNCHANGED <<used, mapped, kernel_dirs>>
      /\ Retry
      /\ UNCHANGED <<dirs, current, heap_top>>

Next ==
  \/ \E p \in Proc : pgdir_create(p) \/ paging_switch(p)
  \/ \E h \in HeapPage : touch(h)
  \/ page_fault_handler

Spec == Init /\ [][Next]_vars

-----------------------------------------------------------------------------
(* Properties.                                                             *)

\* heap_sbrk: "pages mapped on demand by page fault handler".  An access to
\* the heap that faults goes through when the handler has run once, in
\* whichever address space it was made, unless memory has run out.
HeapFaultsResolve ==
  [][fault # NONE => fault' = NONE \/ panic' # "no" \/ used' = FRAMES]_vars

=============================================================================
