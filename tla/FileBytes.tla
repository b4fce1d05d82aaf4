----------------------------- MODULE FileBytes ------------------------------
(***************************************************************************)
(* What a regular file promises: a sequence of bytes, in which a write     *)
(* replaces bytes in place or at the end, and a read gives the bytes from  *)
(* the position of the open file on.  What lies between the old end and    *)
(* new bytes, or is added by truncate, reads as zero where the file has    *)
(* not been as long since it was last empty, and as anything elsewhere.    *)
(* All this holds below 2^32: once a call has an end or a size outside of  *)
(* size_t, nothing is promised.                                            *)
(***************************************************************************)
EXTENDS Integers, Sequences

CONSTANTS File, Byte, HEAP, WORD, MAX_POS

VARIABLES
  bytes, pos, got,
  high,   \* the largest size since the file was last empty
  cut     \* an end or a size outside of size_t

vars == <<bytes, pos, got, high, cut>>

\* The file is cut or extended to n bytes, and has b at the places of S.
Becomes(n, S, b) ==
  /\ bytes' \in [1 .. n -> Byte \cup {0}]
  /\ \A k \in 1 .. n : IF k \in S THEN bytes'[k] = b
                       ELSE IF k <= Len(bytes) THEN bytes'[k] = bytes[k]
                       ELSE k > high => bytes'[k] = 0

Init == bytes = <<>> /\ pos = [f \in File |-> 0] /\ got = <<>> /\ high = 0 /\ cut = {}

\* n times b at p, which leaves the file's position behind them.
Write(f, p, n, b) ==
  LET end == p + n
  IN  /\ Becomes(IF end > Len(bytes) THEN end ELSE Len(bytes), p + 1 .. end, b)
      /\ pos' = [pos EXCEPT ![f] = end]
      /\ high' = IF end > high THEN end ELSE high
      /\ got' = <<>>

Read(f, n) ==
  /\ got' = SubSeq(bytes, pos[f] + 1, IF pos[f] + n < Len(bytes) THEN pos[f] + n ELSE Len(bytes))
  /\ pos' = [pos EXCEPT ![f] = @ + Len(got')]
  /\ UNCHANGED <<bytes, high>>

Seek(f, p) == pos' = [pos EXCEPT ![f] = p] /\ got' = <<>> /\ UNCHANGED <<bytes, high>>

Truncate(n) ==
  /\ Becomes(n, {}, 0)
  /\ high' = IF n = 0 THEN 0 ELSE IF n > high THEN n ELSE high
  /\ got' = <<>>
  /\ UNCHANGED pos

\* A call that fails, or is about other things.
Other == got' = <<>> /\ UNCHANGED <<bytes, pos, high>>

\* A write that ends at 2^32 or beyond, or a truncation to less than nothing.
OutOfRange == cut' # {} /\ \A n \in cut' : n < 0 \/ n >= WORD

Next ==
  \/ /\ cut = {} /\ cut' = {}
     /\ \/ \E f \in File, p \in 0 .. MAX_POS : Seek(f, p)
        \/ \E f \in File, n \in 0 .. HEAP, b \in Byte :
             \E p \in {pos[f], Len(bytes)} : Write(f, p, n, b)
        \/ \E f \in File, n \in 0 .. HEAP : Read(f, n)
        \/ \E n \in 0 .. HEAP : Truncate(n)
        \/ Other
  \/ OutOfRange

Spec == Init /\ [][Next]_vars
=============================================================================
