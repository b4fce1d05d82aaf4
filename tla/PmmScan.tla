------------------------------ MODULE PmmScan ------------------------------
(***************************************************************************)
(* The loops with which pmm_alloc and pmm_alloc_contiguous of mm/pmm.c     *)
(* look through the bitmap.  Pmm uses what they should find, the lowest    *)
(* free page and the first free run; here the loops themselves are checked *)
(* against that, on every bitmap the allocator comes to have.              *)
(***************************************************************************)
EXTENDS Pmm, FiniteSetsExt, SequencesExt

CONSTANT WORD   \* bits in a word of the bitmap (32)

ASSUME ScanConstants == WORD \in Nat \ {0} /\ BITMAP_BITS % WORD = 0

BITMAP_WORDS == BITMAP_BITS \div WORD

\* The set bits of word w, by their index in the word.
Word(w) == {b \in 0 .. WORD - 1 : w * WORD + b \in bitmap}

\* pmm_alloc's loop over the words: __builtin_ctz of the first that is not 0,
\* and 0 when there is none.
alloc_scan ==
  LET from[w \in 0 .. BITMAP_WORDS] ==
        IF w = BITMAP_WORDS THEN 0
        ELSE IF Word(w) = {} THEN from[w + 1]
        ELSE w * WORD + Min(Word(w))
  IN  from[0]

\* Faulty: the run counter is not reset at a used page.
run_iter_no_reset(n, at, i) ==
  IF at.ret # 0 \/ i \notin bitmap THEN at
  ELSE LET start == IF at.found = 0 THEN i ELSE at.start
       IN  [found |-> at.found + 1, start |-> start,
            ret |-> IF at.found + 1 = n THEN start ELSE 0]

\* One iteration of pmm_alloc_contiguous's loop over the bits: "at" holds the
\* length and the start of the run it is in, and what it returns once it does.
run_iter(n, at, i) ==
  IF at.ret # 0 THEN at
  ELSE IF i \notin bitmap THEN [at EXCEPT !.found = 0]
  ELSE LET start == IF at.found = 0 THEN i ELSE at.start
       IN  [found |-> at.found + 1, start |-> start,
            ret |-> IF at.found + 1 = n THEN start ELSE 0]

\* The whole loop, from page 1 on.
alloc_contiguous_scan(n) ==
  FoldLeft(LAMBDA at, i : run_iter(n, at, i), [found |-> 0, start |-> 0, ret |-> 0],
           [i \in 1 .. BITMAP_BITS - 1 |-> i]).ret

-----------------------------------------------------------------------------
First(S) == IF S = {} THEN 0 ELSE Min(S)

\* What the scans return is what the actions of Pmm take: the lowest free page,
\* and the first page of the lowest run of n free ones, also where runs are
\* broken by used pages, cross a word or end with the bitmap; 0 if there is
\* none.
ScanCorrect ==
  phase = "up" =>
    /\ alloc_scan = First(bitmap)
    /\ \A n \in 1 .. MAX_RUN : alloc_contiguous_scan(n) = First({s \in Page : FreeRun(s, n)})

=============================================================================
