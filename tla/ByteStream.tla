----------------------------- MODULE ByteStream -----------------------------
(***************************************************************************)
(* What a pipe promises: a bounded stream of bytes.  Bytes come out in the *)
(* order in which they went in, each exactly once, and at most CAPACITY    *)
(* are under way.  A byte is labelled with its place in the stream, modulo *)
(* LABELS.                                                                 *)
(***************************************************************************)
EXTENDS Integers, Sequences

CONSTANTS CAPACITY, LABELS

VARIABLES
  queue,   \* written and not yet read
  sent,    \* label of the next byte to be written
  got      \* the bytes the latest read returned

Init == queue = <<>> /\ sent = 0 /\ got = <<>>

\* n bytes that begin with label k.
Labelled(k, n) == [i \in 1 .. n |-> (k + i - 1) % LABELS]

Put(n) ==
  /\ Len(queue) + n <= CAPACITY
  /\ queue' = queue \o Labelled(sent, n)
  /\ sent' = (sent + n) % LABELS
  /\ UNCHANGED got

Get(n) ==
  /\ n <= Len(queue)
  /\ got' = SubSeq(queue, 1, n)
  /\ queue' = SubSeq(queue, n + 1, Len(queue))
  /\ UNCHANGED sent

Next == \E n \in 1 .. CAPACITY : Put(n) \/ Get(n)

Spec == Init /\ [][Next]_<<queue, sent, got>>
=============================================================================
