------------------------------- MODULE MCPmm -------------------------------
(***************************************************************************)
(* Small instances of Pmm: eight pages of two address units, a kernel of   *)
(* one and a half pages, an initrd of one page.                            *)
(***************************************************************************)
EXTENDS PmmScan

Ram(base, length)  == [base |-> base, length |-> length, available |-> TRUE]
Hole(base, length) == [base |-> base, length |-> length, available |-> FALSE]

\* Aligned and unaligned entries, a hole, an entry past the bitmap.
LowMaps == { << Ram(0, 6), Hole(6, 2), Ram(8, 8) >>,
             << Ram(1, 6), Ram(9, 6) >>,
             << Ram(0, 16), Ram(18, 6) >> }
=============================================================================
