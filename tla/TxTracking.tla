----------------------------- MODULE TxTracking -----------------------------
(***************************************************************************)
(* TXTracking (src/include/flow.h): the linked chain of message buffers a  *)
(* flow was given to send and has not released yet.                        *)
(*                                                                         *)
(* chain is the list from oldest_unacked_msgbuf_ to last_msgbuf_ (empty    *)
(* when both are nullptr). oldest_unsent is the place in it of             *)
(* oldest_unsent_msgbuf_, 0 for nullptr. The two counters are kept apart,  *)
(* as in the code; that they agree with the list is something to check.    *)
(***************************************************************************)
EXTENDS Integers, Sequences

InitTx == [chain |-> <<>>, oldest_unsent |-> 0,
           num_unsent |-> 0, num_tracked |-> 0]

\* Append: link the buffers of one message behind the last buffer.
\* (Mutation: the unsent pointer is set only when the chain was empty.)
TxAppend_first(t, bufs) ==
  [chain |-> t.chain \o bufs,
   oldest_unsent |-> IF t.chain = <<>> THEN 1 ELSE t.oldest_unsent,
   num_unsent  |-> t.num_unsent + Len(bufs),
   num_tracked |-> t.num_tracked + Len(bufs)]

TxAppend(t, bufs) ==
  [chain |-> t.chain \o bufs,
   oldest_unsent |-> IF t.chain = <<>> \/ t.oldest_unsent = 0
                       THEN Len(t.chain) + 1 ELSE t.oldest_unsent,
   num_unsent  |-> t.num_unsent + Len(bufs),
   num_tracked |-> t.num_tracked + Len(bufs)]

\* n calls of GetAndUpdateOldestUnsent: what is left of the unsent part, and
\* the buffers handed out. A call finds nothing when the pointer is nullptr.
NumUnsentInChain(t) ==
  IF t.oldest_unsent = 0 THEN 0 ELSE Len(t.chain) - t.oldest_unsent + 1

\* (Mutation: the counter of unsent buffers is not updated.)
TakeUnsent_count(t, n) ==
  [t EXCEPT !.oldest_unsent = IF n = NumUnsentInChain(t) THEN 0 ELSE @ + n]

TakeUnsent(t, n) ==
  [t EXCEPT !.oldest_unsent = IF n = NumUnsentInChain(t) THEN 0 ELSE @ + n,
            !.num_unsent = @ - n]

UnsentBufs(t, n) ==
  SubSeq(t.chain, t.oldest_unsent, t.oldest_unsent + n - 1)

\* ReceiveAcks dereferences a null oldest_unacked_msgbuf_ when it is asked for
\* more than the chain holds, and must never reach an unsent buffer.
CanReceiveAcks(t, n) == n <= Len(t.chain) /\ t.oldest_unsent \notin 1..n

\* (Mutation: the loop frees one buffer too many.)
ReceiveAcks_more(t, n) ==
  [t EXCEPT !.chain = SubSeq(@, n + 2, Len(@)),
            !.oldest_unsent = IF @ = 0 THEN 0 ELSE @ - n,
            !.num_tracked = @ - n]

ReceiveAcks(t, n) ==
  [t EXCEPT !.chain = SubSeq(@, n + 1, Len(@)),
            !.oldest_unsent = IF @ = 0 THEN 0 ELSE @ - n,
            !.num_tracked = @ - n]
=============================================================================
