----------------------------- MODULE MCProcess -----------------------------
(***************************************************************************)
(* Process with interchangeable task structs: all but init's are alike.    *)
(***************************************************************************)
EXTENDS Process, TLC

Symmetry == Permutations(Task \ {InitTask})

=============================================================================
