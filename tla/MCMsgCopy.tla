----------------------------- MODULE MCMsgCopy -----------------------------
EXTENDS MsgCopy

Channel(machnet_slots, app_slots, buf_slots, buffer_size) ==
  [machnet_slots |-> machnet_slots, app_slots |-> app_slots,
   buf_slots |-> buf_slots, buffer_size |-> buffer_size]

\* Two that work, with different sizes of the rings and of the buffers; one
\* with a ring that is no power of two, and one with a ring of no slots; one
\* whose buffers only fit a huge page.
Mixed ==
  {Channel(2, 8, 4, 2), Channel(4, 2, 4, 3), Channel(3, 2, 4, 2),
   Channel(0, 2, 4, 2), Channel(2, 2, 2, 100)}

\* Up to three segments, empty ones among them.
Segments == UNION {[1..n -> {0, 1, 3}] : n \in 1..3}
=============================================================================
