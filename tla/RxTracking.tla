----------------------------- MODULE RxTracking -----------------------------
(***************************************************************************)
(* RXTracking (src/include/flow.h): reassembly of the packets of a flow    *)
(* and delivery of complete messages on the Machnet->application ring.     *)
(*                                                                         *)
(* An rx record holds the reassembly queue (entries [seqno, buf]), the     *)
(* current message train, and the ring. fatal is set where the code calls  *)
(* LOG(FATAL), which ends the process. accepted is a history: every buffer *)
(* that was moved from the queue to a train, in order.                     *)
(***************************************************************************)
EXTENDS Swift, Sequences

CONSTANT RingCapacity   \* slots of the Machnet->application ring

\* sizeof(sizeof(sack_bitmap)) * 8: the number of bits of a size_t, as many as
\* a bucket has.
kReassemblyMaxSeqnoDistance == BucketWidth

ASSUME RxAssumption ==
  /\ kReassemblyMaxSeqnoDistance <= Modulus \div 2
  /\ kReassemblyMaxSeqnoDistance <= PcbBuckets * BucketSize
  /\ RingCapacity \in Nat \ {0}

InitRx == [reass_q |-> <<>>, train |-> <<>>, ring |-> <<>>, fatal |-> FALSE,
           accepted |-> <<>>]

\* A buffer is part pos of the len parts of message msg; the header flags that
\* travel with it say whether it is the last one (MACHNET_MSGBUF_FLAGS_FIN).
is_last(buf) == buf.pos = buf.len

\* One iteration of the loop of PushInOrderMsgbufsToShmTrain, on d = [train,
\* ring, fatal]: append the buffer to the train, and deliver the train when the
\* message is complete.
PushFront(d, buf) ==
  LET train == Append(d.train, buf)
  IN  IF d.fatal THEN d
      ELSE IF ~is_last(buf) THEN [d EXCEPT !.train = train]
      ELSE IF Len(d.ring) >= RingCapacity THEN [d EXCEPT !.fatal = TRUE]
      ELSE [d EXCEPT !.train = <<>>, !.ring = Append(@, train)]

Deliver(rx, bufs) ==
  LET after[i \in 0..Len(bufs)] ==
        IF i = 0 THEN [train |-> rx.train, ring |-> rx.ring, fatal |-> rx.fatal]
                 ELSE PushFront(after[i - 1], bufs[i])
  IN  after[Len(bufs)]

\* How many entries the loop consumes: the longest prefix of the queue that
\* starts at rcv_nxt and has no gap.
\* (Mutations: gaps are not looked for; only the first entry is consumed.)
InOrderCount_gaps(pcb, q) == Len(q)
InOrderCount_first(pcb, q) ==
  IF q # <<>> /\ q[1].seqno = pcb.rcv_nxt THEN 1 ELSE 0

InOrderCount(pcb, q) ==
  CHOOSE n \in 0..Len(q) :
    /\ \A i \in 1..n : q[i].seqno = Wrap(pcb.rcv_nxt + i - 1)
    /\ n < Len(q) => q[n + 1].seqno # Wrap(pcb.rcv_nxt + n)

\* Each iteration also pops the entry, advances rcv_nxt and shifts the bitmap.
PushInOrderMsgbufsToShmTrain(pcb, rx) ==
  LET q == rx.reass_q
      n == InOrderCount(pcb, q)
      bufs == [i \in 1..n |-> q[i].buf]
      d == IF n = 0 THEN rx ELSE Deliver(rx, bufs)
  IN  [pcb |-> sack_bitmap_shift_right(advance_rcv_nxt(pcb, n), n),
       rx  |-> [reass_q |-> SubSeq(q, n + 1, Len(q)), train |-> d.train,
                ring |-> d.ring, fatal |-> d.fatal,
                accepted |-> rx.accepted \o bufs]]

\* std::find_if(entry.seqno >= seqno): a plain integer comparison.
\* (Mutation: push_back.)
FindPos_back(q, seqno) == Len(q) + 1

FindPos(q, seqno) ==
  CHOOSE i \in 1..(Len(q) + 1) :
    /\ i <= Len(q) => q[i].seqno >= seqno
    /\ \A j \in 1..(i - 1) : q[j].seqno < seqno

\* The insertion before position i.
InsertEntry(q, i, entry) == SubSeq(q, 1, i - 1) \o <<entry>> \o SubSeq(q, i, Len(q))

\* Consume: [rc, pcb, rx]. rc = -1 when the channel has no free buffer
\* (alloc_ok is FALSE), and the packet is dropped without an ACK.
Consume(pcb, rx, seqno, buf, alloc_ok) ==
  LET distance == Wrap(seqno - pcb.rcv_nxt)
      in_order == seqno = pcb.rcv_nxt
      at       == IF in_order THEN 1 ELSE FindPos(rx.reass_q, seqno)
      dup      == /\ ~in_order
                  /\ at <= Len(rx.reass_q) /\ rx.reass_q[at].seqno = seqno
      queued   == InsertEntry(rx.reass_q, at, [seqno |-> seqno, buf |-> buf])
      pushed   == PushInOrderMsgbufsToShmTrain(
                    sack_bitmap_bit_set(pcb, distance),
                    [rx EXCEPT !.reass_q = queued])
  IN  IF \/ seqno_lt(seqno, pcb.rcv_nxt)
         \/ distance >= kReassemblyMaxSeqnoDistance
         \/ dup
        THEN [rc |-> 0, pcb |-> pcb, rx |-> rx]
      ELSE IF ~alloc_ok
        THEN [rc |-> -1, pcb |-> pcb, rx |-> rx]
      ELSE [rc |-> 0, pcb |-> pushed.pcb, rx |-> pushed.rx]
=============================================================================
