-------------------------------- MODULE Elf ---------------------------------
(***************************************************************************)
(* What sys_exec, kernel/elf.c, puts in a new address space: the segments  *)
(* of the program and the stack with its strings, pointers and auxiliary   *)
(* vector.  Memory is counted in words: a pointer is one, PAGE make a      *)
(* page, and strings have lengths in words.                                *)
(*                                                                         *)
(* Operators take and return a record: free, the free frames; got, the     *)
(* last one taken; ram, a word for each physical address; pd, table and    *)
(* page, the frames of the page directory, its page tables and the user    *)
(* pages, 0 for none; lost, the frames that are in no table any more, for  *)
(* want of one (table) or because two segments have the page (shared); sp, *)
(* argv and envp, addresses on the stack; err.                             *)
(***************************************************************************)
EXTENDS Integers, Sequences, FiniteSets, FiniteSetsExt, SequencesExt, Eval

CONSTANTS
  PAGE,         \* words in a page
  FRAMES,       \* page frames of the direct map: phys_to_virt reaches no other
  PT_ENTRIES,   \* pages a page table maps
  IMAGE_PAGES,  \* user pages below the stack
  STACK_PAGES,  \* pages of USER_STACK_SIZE
  AUXV          \* words of the auxiliary vector

ASSUME ElfConstants ==
  /\ {PAGE, FRAMES, PT_ENTRIES, IMAGE_PAGES, STACK_PAGES, AUXV} \subseteq Nat \ {0}
  /\ PAGE % 4 = 0
  \* the last page table has two pages of the stack or more
  /\ STACK_PAGES > 1 /\ (IMAGE_PAGES + STACK_PAGES - 1) % PT_ENTRIES > 0

UserPage == 0 .. IMAGE_PAGES + STACK_PAGES - 1
Table == {p \div PT_ENTRIES : p \in UserPage}
stack_top == (IMAGE_PAGES + STACK_PAGES) * PAGE

\* The word of the program file at an offset, word j of string i of a vector,
\* and a word of the auxiliary vector.
FileWord(offset) == 1000 + offset
Char(vector, i, j) == (IF vector = "argv" THEN 2000 ELSE 3000) + 100 * i + j
Aux(i) == 4000 + i

\* No address space yet.
no_mm(free) ==
  [free |-> free, got |-> 0, ram |-> [a \in 0 .. FRAMES * PAGE - 1 |-> 5000],
   pd |-> 0, table |-> [t \in Table |-> 0], page |-> [p \in UserPage |-> 0],
   lost |-> [table |-> {}, shared |-> {}], sp |-> stack_top, argv |-> 0, envp |-> 0, err |-> "ok"]

\* 0 for a page that is not mapped.
virt_to_phys_pd(M, a) ==
  IF M.page[a \div PAGE] = 0 THEN 0 ELSE M.page[a \div PAGE] * PAGE + (a % PAGE)

\* memcpy of a sequence of words to a physical address.
memcpy(M, pa, words) ==
  With(<<M.ram, pa, words>>, LAMBDA x :
    [M EXCEPT !.ram = [a \in DOMAIN x[1] |->
                         IF a - x[2] + 1 \in DOMAIN x[3] THEN x[3][a - x[2] + 1] ELSE x[1][a]]])

\* pmm_alloc_zero: the lowest free frame, or 0.  To clear one outside the direct
\* map is a page fault in the kernel, which stops it.
pmm_alloc_zero(M) ==
  LET f == Min(M.free)
  IN  IF M.free = {} THEN [M EXCEPT !.got = 0]
      ELSE [memcpy(M, f * PAGE, [j \in 1 .. PAGE |-> 0])
              EXCEPT !.free = @ \ {f}, !.got = f, !.err = IF f < FRAMES THEN @ ELSE "direct"]

\* mm_create, with pgdir_create; got says whether there is an mm_struct.
mm_create(M, got) ==
  IF ~got THEN [M EXCEPT !.err = "ENOMEM"]
  ELSE With(pmm_alloc_zero(M), LAMBDA N :
         IF N.got = 0 THEN [N EXCEPT !.err = "ENOMEM"] ELSE [N EXCEPT !.pd = N.got])

\* No page directory, page table or page any more.
cleared(M) == [M EXCEPT !.pd = 0, !.table = [t \in Table |-> 0], !.page = [p \in UserPage |-> 0]]

\* Faulty: the page tables stay.
mm_destroy_pages(M) == cleared([M EXCEPT !.free = @ \cup ((Range(M.page) \cup {M.pd}) \ {0})])

\* mm_destroy, with pgdir_destroy: what the page tables do not have stays lost.
mm_destroy(M) ==
  cleared([M EXCEPT !.free = @ \cup ((Range(M.page) \cup Range(M.table) \cup {M.pd}) \ {0})])

\* get_pte with create.
get_pte(M, t) ==
  IF M.table[t] # 0 THEN M
  ELSE With(pmm_alloc_zero(M), LAMBDA N : [N EXCEPT !.table[t] = N.got])

\* map_page, which fails when there is no page table.  A page that was mapped
\* before is replaced.
map_page(M, page, f) ==
  With(get_pte(M, page \div PT_ENTRIES), LAMBDA N :
    IF N.table[page \div PT_ENTRIES] = 0 THEN [N EXCEPT !.lost.table = @ \cup {f}]
    ELSE [N EXCEPT !.lost.shared = @ \cup ({N.page[page]} \ {0}), !.page[page] = f])

\* A page of a segment or of the stack.  What map_page returns is not looked at.
map_new(M, page) ==
  IF M.err # "ok" THEN M
  ELSE With(pmm_alloc_zero(M), LAMBDA N :
         IF N.err # "ok" THEN N
         ELSE IF N.got = 0 THEN [mm_destroy(N) EXCEPT !.err = "ENOMEM"]
         ELSE map_page(N, page, N.got))

\* What read returns at pos, of a file of size words.
file_read(size, pos, count) ==
  [j \in 1 .. Max({0, Min({count, size - pos})}) |-> FileWord(pos + j - 1)]

\* Faulty: each chunk is a whole page.
read_chunk_page(dst, left) == Min({left, PAGE})

\* A read does not go past the end of the page it fills.
read_chunk(dst, left) == Min({left, PAGE - (dst % PAGE)})

\* The data of a segment, page by page.  That of a page that could not be mapped
\* goes to the first frame of memory.
RECURSIVE read_segment(_, _, _, _, _)
read_segment(M, size, dst, src, left) ==
  IF left = 0 THEN M
  ELSE LET n   == read_chunk(dst, left)
           kva == (virt_to_phys_pd(M, dst) \div PAGE) * PAGE + (dst % PAGE)
       IN  read_segment(memcpy(M, kva, file_read(size, src, n)), size, dst + n, src + n, left - n)

\* One turn of the loop over the program headers.
load_segment(M, size, ph) ==
  LET pages == [k \in 1 .. (ph.vaddr + ph.memsz - 1) \div PAGE - ph.vaddr \div PAGE + 1 |->
                  ph.vaddr \div PAGE + k - 1]
  IN  IF M.err # "ok" \/ ~ph.load \/ ph.memsz = 0 THEN M
      ELSE With(FoldLeft(map_new, M, pages), LAMBDA N :
             IF N.err # "ok" THEN N ELSE read_segment(N, size, ph.vaddr, ph.offset, ph.filesz))

\* push_strings: the strings, the last one highest, then the pointers to them.
\* Each is copied to consecutive physical addresses.  The stack pages are all
\* mapped before: where one of them had no page table, the next had no frame.
push_strings(M, vector, lens, kmalloc) ==
  LET n       == Len(lens)
      at(i)   == M.sp - FoldFunctionOnSet(+, 0, lens, i .. n)
      put(N, i) == memcpy(N, virt_to_phys_pd(N, at(i)), [j \in 1 .. lens[i] |-> Char(vector, i, j)])
      sp      == at(1) - (n + 1)
      Pushed  == FoldLeft(put, M, [k \in 1 .. n |-> n + 1 - k])
      Listed  == memcpy(Pushed, virt_to_phys_pd(M, sp), [i \in 1 .. n + 1 |-> IF i > n THEN 0 ELSE at(i)])
  IN  IF M.err # "ok" THEN M
      ELSE IF ~kmalloc THEN [mm_destroy(M) EXCEPT !.err = "ENOMEM"]
      ELSE IF vector = "argv" THEN [Listed EXCEPT !.sp = sp, !.argv = sp]
      ELSE [Listed EXCEPT !.sp = sp, !.envp = sp]

stack_push32(M, val) ==
  [memcpy(M, virt_to_phys_pd(M, M.sp - 1), <<val>>) EXCEPT !.sp = @ - 1]

\* The auxiliary vector below the strings, aligned to 16 bytes, then argc.
push_auxv(M, argc) ==
  IF M.err # "ok" THEN M
  ELSE stack_push32(FoldLeft(LAMBDA N, k : stack_push32(N, Aux(AUXV + 1 - k)),
                             [M EXCEPT !.sp = @ - (@ % 4)], [k \in 1 .. AUXV |-> k]),
                    argc)

\* The address space that sys_exec builds for a program, once it has seen the
\* ELF header.  nomem names the kernel memory that cannot be had, if any: for
\* the program headers, the mm_struct or the pointers of push_strings.
exec_image(free, prog, args, nomem) ==
  LET headers     == file_read(prog.size, prog.phoff, Len(prog.phdrs))
      load(M, ph) == load_segment(M, prog.size, ph)
      segments(M) == FoldLeft(load, M, prog.phdrs)
      stack(M)    == FoldLeft(map_new, M, [k \in 1 .. STACK_PAGES |-> IMAGE_PAGES + k - 1])
      env(M)      == push_strings(M, "envp", args.envp, nomem # "envp")
      arg(M)      == push_strings(M, "argv", args.argv, nomem # "argv")
      end(M)      == push_auxv(M, Len(args.argv))
  IN  IF nomem = "phdrs" THEN [no_mm(free) EXCEPT !.err = "ENOMEM"]
      ELSE IF Len(headers) # Len(prog.phdrs) THEN [no_mm(free) EXCEPT !.err = "ENOEXEC"]
      ELSE With(With(With(With(With(mm_create(no_mm(free), nomem # "mm"),
                                    segments), stack), env), arg), end)

-----------------------------------------------------------------------------
(* What the result should be.                                              *)

\* What the program reads at a user address.
Word(M, a) == M.ram[virt_to_phys_pd(M, a)]

\* The frames of the stack above sp are consecutive, as push_strings takes for
\* granted.
StackContiguous(M) ==
  \A p \in M.sp \div PAGE + 1 .. stack_top \div PAGE - 1 : M.page[p] = M.page[p - 1] + 1

Covers(ph, p) ==
  ph.load /\ ph.memsz > 0 /\ p \in ph.vaddr \div PAGE .. (ph.vaddr + ph.memsz - 1) \div PAGE

\* Every page that one segment covers holds the words of the file where the
\* segment has them and zeroes elsewhere; other pages are not mapped.
ImageOf(M, prog) ==
  \A p \in 0 .. IMAGE_PAGES - 1 :
    LET segs == {k \in DOMAIN prog.phdrs : Covers(prog.phdrs[k], p)}
    IN  /\ segs = {} => M.page[p] = 0
        /\ \A k \in segs : segs = {k} =>
             LET ph == prog.phdrs[k]
             IN  \A a \in p * PAGE .. (p + 1) * PAGE - 1 :
                   LET o == a - ph.vaddr
                   IN  Word(M, a) = IF o \in 0 .. ph.filesz - 1 /\ ph.offset + o < prog.size
                                    THEN FileWord(ph.offset + o) ELSE 0

\* The vector at an address has a pointer to each string, and ends in null.
VectorOf(M, at, vector, lens) ==
  /\ \A i \in DOMAIN lens : \A j \in 1 .. lens[i] :
       Word(M, Word(M, at + i - 1) + j - 1) = Char(vector, i, j)
  /\ Word(M, at + Len(lens)) = 0

\* sp points to argc and the auxiliary vector, and argv and envp are there.
StackOf(M, args) ==
  /\ Word(M, M.sp) = Len(args.argv)
  /\ \A i \in 1 .. AUXV : Word(M, M.sp + i) = Aux(i)
  /\ VectorOf(M, M.argv, "argv", args.argv)
  /\ VectorOf(M, M.envp, "envp", args.envp)

=============================================================================
