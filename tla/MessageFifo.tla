---------------------------- MODULE MessageFifo ----------------------------
(***************************************************************************)
(* What a flow promises to the two applications, for one direction: the    *)
(* messages one of them submits reach the other complete, in order, and    *)
(* each exactly once. Several messages may become deliverable at a time,   *)
(* when a packet fills a gap in front of them.                             *)
(***************************************************************************)
EXTENDS Naturals, Sequences

CONSTANT Msgs    \* the messages the sending application will submit

VARIABLES
  submitted,     \* how many of them it has submitted
  delivered      \* the messages handed to the receiving application

fifoVars == <<submitted, delivered>>

FifoInit == submitted = 0 /\ delivered = <<>>

Submit ==
  /\ submitted < Len(Msgs)
  /\ submitted' = submitted + 1
  /\ UNCHANGED delivered

Deliver ==
  /\ \E n \in (Len(delivered) + 1)..submitted : delivered' = SubSeq(Msgs, 1, n)
  /\ UNCHANGED submitted

FifoSpec == FifoInit /\ [][Submit \/ Deliver]_fifoVars
=============================================================================
