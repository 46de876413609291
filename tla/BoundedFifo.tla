---------------------------- MODULE BoundedFifo ----------------------------
(***************************************************************************)
(* What a jring promises to the threads that share it: a queue of at most  *)
(* Capacity elements; a batch is added at the end in one piece, and a      *)
(* batch is taken from the front in one piece.                             *)
(***************************************************************************)
EXTENDS Naturals, Sequences

CONSTANTS Elements, Capacity

VARIABLE queue

FifoInit == queue = <<>>

Put ==
  /\ queue' \in Seq(Elements)
  /\ Len(queue') \in (Len(queue) + 1)..Capacity
  /\ SubSeq(queue', 1, Len(queue)) = queue

Take ==
  \E n \in 1..Len(queue) : queue' = SubSeq(queue, n + 1, Len(queue))

FifoSpec == FifoInit /\ [][Put \/ Take]_queue
=============================================================================
