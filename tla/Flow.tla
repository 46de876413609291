-------------------------------- MODULE Flow --------------------------------
(***************************************************************************)
(* The Machnet transport (src/include/flow.h): the two flow objects of one *)
(* connection, the active opener "client" and the passive opener "server", *)
(* over a network that loses, delays, reorders and duplicates packets.     *)
(*                                                                         *)
(* flow[e] is the Flow object at end e: its state, Pcb, TXTracking and     *)
(* RXTracking. life says whether the engine has the object in its map,     *)
(* callback what the application was told of its connect request, fault    *)
(* whether the process died in the object (LOG(FATAL), or a read through a *)
(* null or wild message buffer pointer).                                   *)
(***************************************************************************)
EXTENDS RxTracking, TxTracking, PacketBag

CONSTANTS
  ClientMsgs, ServerMsgs, \* lengths of the messages each application sends
  MaxDuplicates, \* packets the network may duplicate in a behaviour
  MaxDupAcks,    \* bound on duplicate_acks: later packets are not delivered
  MaxPoolFails,  \* allocation failures (packet or message buffers)
  MaxShutDowns   \* flows the engine shuts down because their channel goes

Ends == {"client", "server"}
Peer(e) == IF e = "client" THEN "server" ELSE "client"
Workload(e) == IF e = "client" THEN ClientMsgs ELSE ServerMsgs

ASSUME FlowAssumption ==
  /\ \A e \in Ends : Workload(e) \in Seq(Nat \ {0})
  /\ {MaxDuplicates, MaxDupAcks, MaxPoolFails, MaxShutDowns} \subseteq Nat

VARIABLES
  flow,        \* [Ends -> Flow object]
  net,         \* bag of packets in flight
  sent,        \* sent[e]: how many messages e's application has submitted
  stream,      \* stream[e]: their buffers, in order (a history)
  recvd,       \* recvd[e]: messages e's application has dequeued, in order
  dups, fails, downs, \* how much of each budget is used
  reopened     \* ends whose flow left Closed after having been closed

vars == <<flow, net, sent, stream, recvd, dups, fails, downs, reopened>>

\* The buffers of message m of e.
Message(e, m) == [i \in 1..Workload(e)[m] |->
                    [msg |-> m, pos |-> i, len |-> Workload(e)[m]]]

InitFlow == [state |-> "Closed", pcb |-> InitPcb, tx |-> InitTx, rx |-> InitRx,
             life |-> "absent", callback |-> "none", fault |-> "none",
             out |-> <<>>]

Init ==
  /\ flow = [e \in Ends |-> InitFlow]
  /\ net = EmptyBag
  /\ sent = [e \in Ends |-> 0]
  /\ stream = [e \in Ends |-> <<>>]
  /\ recvd = [e \in Ends |-> <<>>]
  /\ dups = 0 /\ fails = 0 /\ downs = 0
  /\ reopened = {}

-----------------------------------------------------------------------------
(* Sending. Each operator maps a flow object to a flow object; the packets  *)
(* it sends are appended to out, which the action moves to the network.     *)

\* SendControlPacket and PrepareMachnetHdr: every control packet carries the
\* current ackno and SACK bitmap.
SendControlPacket(f, seqno, flags) ==
  [f EXCEPT !.out = Append(@,
     [flags |-> flags, seqno |-> seqno, ackno |-> f.pcb.rcv_nxt,
      sack |-> HdrBitmap(f.pcb), count |-> f.pcb.sack_bitmap_count])]

SendSyn(f, seqno)    == SendControlPacket(f, seqno, "SYN")
SendSynAck(f, seqno) == SendControlPacket(f, seqno, "SYNACK")
SendAck(f)           == SendControlPacket(f, f.pcb.snd_nxt, "ACK")
SendRst(f)           == SendControlPacket(f, f.pcb.snd_nxt, "RST")

\* PrepareDataPacket and SendPackets for the buffer at place i of the chain.
\* With nothing in the chain the buffer is a null pointer; a place behind the
\* last buffer is the invalid index UINT32_MAX. The process dies reading it.
SendData(f, i, seqno) ==
  CASE i <= Len(f.tx.chain) ->
         [f EXCEPT !.out = Append(@, [flags |-> "DATA", seqno |-> seqno,
                                      buf |-> f.tx.chain[i]])]
    [] i > Len(f.tx.chain) ->
         [f EXCEPT !.fault = IF f.tx.chain = <<>> THEN "no_unacked"
                                                  ELSE "off_chain"]

\* GetOldestUnackedMsgBuf() is the head of the chain.
\* (Mutation: the next sequence number in place of the oldest one.)
FastRetransmit_nxt(f) ==
  LET g == SendData(f, 1, f.pcb.snd_nxt)
  IN  [g EXCEPT !.pcb = rto_reset(@)]

FastRetransmit(f) ==
  LET g == SendData(f, 1, f.pcb.snd_una)
  IN  [g EXCEPT !.pcb = rto_reset(@)]

RTORetransmit(f) ==
  LET g == CASE f.state = "Established" -> SendData(f, 1, f.pcb.snd_una)
             [] f.state = "SynReceived" -> SendSynAck(f, f.pcb.snd_una)
             [] f.state = "SynSent"     -> SendSyn(f, f.pcb.snd_una)
      p == rto_reset(g.pcb)
  IN  [g EXCEPT !.pcb = [p EXCEPT !.rto_rexmits = p.rto_rexmits + 1]]

\* TransmitPackets: as many unsent buffers as the window allows. The window is
\* at most one batch, so a failed allocation (pool_ok is FALSE) sends nothing
\* and leaves the timer alone.
TransmitCount(f) ==
  LET wnd == effective_wnd(f.pcb)
  IN  IF wnd < f.tx.num_unsent THEN wnd ELSE f.tx.num_unsent

TransmitPackets(f, pool_ok) ==
  LET n == TransmitCount(f)
      bufs == UnsentBufs(f.tx, n)
      pkts == [i \in 1..n |-> [flags |-> "DATA", buf |-> bufs[i],
                               seqno |-> Wrap(f.pcb.snd_nxt + i - 1)]]
      pcb  == advance_snd_nxt(f.pcb, n)
  IN  IF n = 0 \/ ~pool_ok THEN f
      ELSE [f EXCEPT !.tx = TakeUnsent(@, n), !.out = @ \o pkts,
                     !.pcb = IF rto_disabled(pcb) THEN rto_reset(pcb) ELSE pcb]

-----------------------------------------------------------------------------
(* Receiving.                                                               *)

\* The reader's view of bit i of the SACK bitmap in a header.
SackBit(h, i) ==
  <<HdrBuckets - 1 - i \div BucketSize, i % BucketSize>> \in h.sack

\* The walk of process_ack in fast recovery, over the chain from its head: it
\* skips duplicate_acks - kRexmitThreshold holes, retransmits the next one, and
\* ends when it has seen as many received packets as the header counts.
HdrBits == HdrBuckets * BucketSize
Seen(h, i) == Cardinality({j \in 0..(i - 1) : SackBit(h, j)})
Holes(h, skip) == {i \in 0..(HdrBits - 1) :
                     ~SackBit(h, i) /\ i - Seen(h, i) = skip
                                    /\ Seen(h, i) < h.count}
WalkEnds(h) == {i \in 0..HdrBits : Seen(h, i) = h.count}

FastRecovery(f, h, pool_ok) ==
  LET holes == Holes(h, f.pcb.duplicate_acks - kRexmitThreshold)
      hole  == CHOOSE i \in holes : TRUE
      last  == CHOOSE i \in WalkEnds(h) : \A j \in WalkEnds(h) : i <= j
  IN  IF holes # {}
        THEN [SendData(f, hole + 1, Wrap(f.pcb.snd_una + hole))
                EXCEPT !.pcb = rto_reset(@)]
      ELSE IF WalkEnds(h) = {} \/ last > Len(f.tx.chain)
        THEN [f EXCEPT !.fault = "off_chain"]
      ELSE TransmitPackets(f, pool_ok)

DuplicateAck(f, h, pool_ok) ==
  LET g == [f EXCEPT !.pcb.duplicate_acks = @ + 1,
                     !.pcb.snd_ooo_acks = h.count]
      d == g.pcb.duplicate_acks
  IN  CASE d < kRexmitThreshold -> TransmitPackets(g, pool_ok)
        [] d = kRexmitThreshold -> TransmitPackets(FastRetransmit(g), pool_ok)
        [] d > kRexmitThreshold -> FastRecovery(g, h, pool_ok)

\* (Mutation: the handshake's ACK counts as an acknowledgement of a buffer.)
NewAck_syn(f, h, pool_ok) ==
  LET n   == Wrap(h.ackno - f.pcb.snd_una)
      pcb == [f.pcb EXCEPT !.snd_una = h.ackno, !.duplicate_acks = 0,
                           !.snd_ooo_acks = 0, !.rto_rexmits = 0]
      g   == [f EXCEPT !.state = "Established", !.tx = ReceiveAcks(@, n),
                       !.pcb = rto_maybe_reset(pcb)]
  IN  IF CanReceiveAcks(f.tx, n) THEN TransmitPackets(g, pool_ok)
      ELSE [f EXCEPT !.fault = "over_ack"]

NewAck(f, h, pool_ok) ==
  LET syn == IF f.state = "SynReceived" THEN 1 ELSE 0
      n   == Wrap(h.ackno - f.pcb.snd_una) - syn
      pcb == [f.pcb EXCEPT !.snd_una = h.ackno, !.duplicate_acks = 0,
                           !.snd_ooo_acks = 0, !.rto_rexmits = 0]
      g   == [f EXCEPT !.state = IF syn = 1 THEN "Established" ELSE @,
                       !.tx = ReceiveAcks(@, n), !.pcb = rto_maybe_reset(pcb)]
  IN  IF CanReceiveAcks(f.tx, n) THEN TransmitPackets(g, pool_ok)
      ELSE [f EXCEPT !.fault = "over_ack"]

process_ack(f, h, pool_ok) ==
  CASE seqno_lt(h.ackno, f.pcb.snd_una) -> f
    [] seqno_eq(h.ackno, f.pcb.snd_una) -> DuplicateAck(f, h, pool_ok)
    [] seqno_gt(h.ackno, f.pcb.snd_una) ->
         IF seqno_gt(h.ackno, f.pcb.snd_nxt) THEN TransmitPackets(f, pool_ok)
         ELSE NewAck(f, h, pool_ok)

\* The five cases of InputPacket. The retransmission timer is not started when
\* a SYN-ACK is sent.
InputSyn(f, h) ==
  CASE f.state = "Closed" ->
         LET g == [f EXCEPT !.pcb.rcv_nxt = Wrap(h.seqno + 1),
                            !.state = "SynReceived"]
         IN  [SendSynAck(g, f.pcb.snd_nxt)
                EXCEPT !.pcb = advance_snd_nxt(@, 1)]
    [] f.state = "SynReceived" -> SendSynAck(f, f.pcb.snd_una)
    [] OTHER -> f

InputSynAck(f, h) ==
  LET pcb == [f.pcb EXCEPT !.snd_una = Wrap(@ + 1),
                           !.rcv_nxt = Wrap(h.seqno + 1)]
      g   == [f EXCEPT !.pcb = rto_maybe_reset(pcb), !.state = "Established",
                       !.callback = "up"]
  IN  IF f.state \notin {"SynSent", "Established"} \/ h.ackno # f.pcb.snd_nxt
        THEN f
      ELSE SendAck(IF f.state = "SynSent" THEN g ELSE f)

InputRst(f, h) ==
  IF seqno_eq(h.seqno, f.pcb.rcv_nxt) THEN [f EXCEPT !.state = "Closed"] ELSE f

InputData(f, h, pool_ok) ==
  LET r == Consume(f.pcb, f.rx, h.seqno, h.buf, pool_ok)
      g == [f EXCEPT !.pcb = r.pcb, !.rx = r.rx,
                     !.fault = IF r.rx.fatal THEN "ring_full" ELSE @]
  IN  IF f.state # "Established" THEN f
      ELSE IF r.rc = 0 /\ ~r.rx.fatal THEN SendAck(g)
      ELSE g

HandlePacket(f, h, pool_ok) ==
  CASE h.flags = "SYN"    -> InputSyn(f, h)
    [] h.flags = "SYNACK" -> InputSynAck(f, h)
    [] h.flags = "RST"    -> InputRst(f, h)
    [] h.flags = "ACK"    -> process_ack(f, h, pool_ok)
    [] h.flags = "DATA"   -> InputData(f, h, pool_ok)

-----------------------------------------------------------------------------
(* Actions.                                                                 *)

\* The packets a handler sent, on their way to the peer.
Outgoing(e, f) == [i \in DOMAIN f.out |-> [to |-> Peer(e), hdr |-> f.out[i]]]

\* End e takes the step from flow[e] to f; in_flight is what is left of net.
Step(e, f, in_flight) ==
  /\ flow' = [flow EXCEPT ![e] = [f EXCEPT !.out = <<>>]]
  /\ net' = AddAll(in_flight, Outgoing(e, f))

Running(e) == flow[e].life = "live" /\ flow[e].fault = "none"

\* An allocation may fail while the budget lasts.
PoolOk(ok) == /\ ok \/ fails < MaxPoolFails
              /\ fails' = IF ok THEN fails ELSE fails + 1

\* The engine creates the client's flow for a connect request.
\* (Mutation: the timer is not started.)
InitiateHandshake_untimed(e) ==
  LET f == [flow[e] EXCEPT !.life = "live", !.state = "SynSent",
                           !.pcb = advance_snd_nxt(@, 1)]
  IN  /\ e = "client" /\ flow[e].life = "absent"
      /\ Step(e, SendSyn(f, flow[e].pcb.snd_nxt), net)
      /\ UNCHANGED <<sent, stream, recvd, dups, fails, downs, reopened>>

InitiateHandshake(e) ==
  LET f == [flow[e] EXCEPT !.life = "live", !.state = "SynSent",
                           !.pcb = rto_reset(advance_snd_nxt(@, 1))]
  IN  /\ e = "client" /\ flow[e].life = "absent"
      /\ Step(e, SendSyn(f, flow[e].pcb.snd_nxt), net)
      /\ UNCHANGED <<sent, stream, recvd, dups, fails, downs, reopened>>

\* A packet reaches the engine of its destination, which hands it to the flow;
\* a SYN for the listening port creates the server's flow. again: the network
\* delivers a copy and keeps the packet.
InputPacket(e, p, again, ok) ==
  LET f == [flow[e] EXCEPT !.life = "live"]
  IN  /\ p.to = e
      /\ \/ Running(e)
         \/ e = "server" /\ p.hdr.flags = "SYN" /\ flow[e].life = "absent"
      /\ p.hdr.flags = "ACK" => flow[e].pcb.duplicate_acks < MaxDupAcks
      /\ again => dups < MaxDuplicates
      /\ dups' = IF again THEN dups + 1 ELSE dups
      /\ p.hdr.flags \in {"SYN", "SYNACK", "RST"} => ok
      /\ PoolOk(ok)
      /\ Step(e, HandlePacket(f, p.hdr, ok),
              IF again THEN net ELSE RemoveOne(net, p))
      /\ reopened' = IF /\ p.hdr.flags = "SYN" /\ flow[e].life = "live"
                        /\ flow[e].state = "Closed"
                       THEN reopened \cup {e} ELSE reopened
      /\ UNCHANGED <<sent, stream, recvd, downs>>

\* The application knows the flow once its connect completed or it received a
\* message on it, and may use it until the engine drops it.
Known(e) == IF e = "client" THEN flow[e].callback = "up" ELSE recvd[e] # <<>>

\* The bound on the streams: n more buffers stay within half of the sequence
\* space. (Reassembly is about what happens behind it.)
SeqnosLeft(e, n) == Len(stream[e]) + n + 1 < Modulus \div 2

OutputMessage(e, ok) ==
  LET f == [flow[e] EXCEPT !.tx = TxAppend(@, Message(e, sent[e] + 1))]
  IN  /\ Running(e) /\ Known(e) /\ sent[e] < Len(Workload(e))
      /\ SeqnosLeft(e, Workload(e)[sent[e] + 1])
      /\ PoolOk(ok)
      /\ Step(e, TransmitPackets(f, ok), net)
      /\ sent' = [sent EXCEPT ![e] = @ + 1]
      /\ stream' = [stream EXCEPT ![e] = @ \o Message(e, sent[e] + 1)]
      /\ UNCHANGED <<recvd, dups, downs, reopened>>

\* A slow-timer tick: PeriodicCheck, and the engine's HandleRTO that drops the
\* flow when it returns false.
Tick(f) ==
  LET g == [f EXCEPT !.pcb = rto_advance(@)]
      dropped == [g EXCEPT
                    !.life = "removed",
                    !.callback = IF f.state = "SynSent" THEN "failed" ELSE @]
  IN  CASE f.state = "Closed" -> [f EXCEPT !.life = "removed"]
        [] f.state # "Closed" /\ max_rexmits_reached(f.pcb) -> dropped
        [] OTHER -> IF rto_expired(g.pcb) THEN RTORetransmit(g) ELSE g

PeriodicCheck(e) ==
  /\ Running(e)
  /\ ~(flow[e].state # "Closed" /\ rto_disabled(flow[e].pcb))
  /\ Step(e, Tick(flow[e]), net)
  /\ UNCHANGED <<sent, stream, recvd, dups, fails, downs, reopened>>

\* The channel of the flow is removed: the engine shuts the flow down, telling
\* the peer unless the flow is closed already, and drops it.
Shut(f) ==
  LET g == [f EXCEPT !.pcb = rto_disable(@), !.state = "Closed"]
  IN  [IF f.state = "Closed" THEN f ELSE SendRst(g) EXCEPT !.life = "removed"]

ShutDown(e) ==
  /\ Running(e) /\ downs < MaxShutDowns
  /\ downs' = downs + 1
  /\ Step(e, Shut(flow[e]), net)
  /\ UNCHANGED <<sent, stream, recvd, dups, fails, reopened>>

\* machnet_recvmsg takes the next message off the ring.
AppRecv(e) ==
  /\ flow[e].rx.ring # <<>>
  /\ recvd' = [recvd EXCEPT ![e] = Append(@, Head(flow[e].rx.ring))]
  /\ flow' = [flow EXCEPT ![e].rx.ring = Tail(@)]
  /\ UNCHANGED <<net, sent, stream, dups, fails, downs, reopened>>

Next ==
  \E e \in Ends :
    \/ InitiateHandshake(e)
    \/ \E p \in BagToSet(net), again, ok \in BOOLEAN : InputPacket(e, p, again, ok)
    \/ \E ok \in BOOLEAN : OutputMessage(e, ok)
    \/ PeriodicCheck(e)
    \/ ShutDown(e)
    \/ AppRecv(e)

Spec == Init /\ [][Next]_vars

-----------------------------------------------------------------------------
(* Properties.                                                              *)

\* The messages e's application submitted, and those the flow handed to it,
\* dequeued or still on the ring.
Submitted(e) == [m \in 1..sent[e] |-> Message(e, m)]
Delivered(e) == recvd[e] \o flow[e].rx.ring

BufType == [msg: Nat, pos: Nat, len: Nat]
TxType  == [chain: Seq(BufType), oldest_unsent: Nat, num_unsent: Nat,
            num_tracked: Nat]
HdrType ==
  [flags: {"SYN", "SYNACK", "ACK", "RST"}, seqno: 0..(Modulus - 1),
   ackno: 0..(Modulus - 1), sack: SUBSET (Int \X Int), count: 0..255]
  \cup [flags: {"DATA"}, seqno: 0..(Modulus - 1), buf: BufType]

FlowFieldsOK(f) ==
  /\ f.state \in {"Closed", "SynSent", "SynReceived", "Established"}
  /\ f.life \in {"absent", "live", "removed"}
  /\ f.callback \in {"none", "up", "failed"}
  /\ f.fault \in {"none", "no_unacked", "off_chain", "over_ack", "ring_full"}
  /\ f.pcb \in PcbType
  /\ f.tx \in TxType
  /\ f.rx.reass_q \in Seq([seqno: 0..(Modulus - 1), buf: BufType])
  /\ f.rx.accepted \in Seq(BufType)
  /\ f.out \in Seq(HdrType)

\* The fields of the two Flow objects, of the packets and of the budgets have
\* their types: the sequence numbers fit their width, the timer never runs past
\* its threshold, and the retransmissions never exceed their limit.
TypeOK ==
  /\ \A e \in Ends : FlowFieldsOK(flow[e])
  /\ IsABag(net) /\ BagToSet(net) \subseteq [to: Ends, hdr: HdrType]
  /\ sent \in [Ends -> Nat]
  /\ stream \in [Ends -> Seq(BufType)]
  /\ dups \in 0..MaxDuplicates /\ fails \in 0..MaxPoolFails
  /\ downs \in 0..MaxShutDowns
  /\ reopened \subseteq Ends

\* Messages reach an application complete, in the order the other one submitted
\* them, none twice, whatever the network does, also when channels are torn
\* down. (A closed flow that a SYN opens again starts over in the middle of the
\* stream: those ends are left out.)
InOrderDelivery ==
  \A e \in Ends \ reopened :
    \E n \in 0..sent[Peer(e)] : Delivered(e) = SubSeq(Submitted(Peer(e)), 1, n)

\* ReceiveAcks gives a buffer back to the pool only when the receiver has
\* taken it: what left the sender's chain is in the stream the other end
\* accepted, and that stream is a prefix of what was submitted.
ReleasedWasAccepted ==
  reopened = {} => \A e \in Ends :
    LET acc == flow[e].rx.accepted
        released == Len(stream[Peer(e)]) - Len(flow[Peer(e)].tx.chain)
    IN  /\ Len(acc) <= Len(stream[Peer(e)])
        /\ \A i \in 1..Len(acc) : acc[i] = stream[Peer(e)][i]
        /\ released <= Len(acc)

\* First transmissions, RTO and fast retransmissions and the retransmissions of
\* fast recovery all pair a sequence number with the same buffer: the s-th one
\* submitted (the SYN has number 0).
WireConsistent ==
  reopened = {} => \A p \in BagToSet(net) : p.hdr.flags = "DATA" =>
      /\ p.hdr.seqno \in 1..Len(stream[Peer(p.to)])
      /\ p.hdr.buf = stream[Peer(p.to)][p.hdr.seqno]

\* TXTracking's counters and pointers agree with the chain, and the chain with
\* the Pcb: the sent part of it is what lies between snd_una and snd_nxt, the
\* SYN apart.
TxConsistent ==
  \A e \in Ends :
    LET f == flow[e]
        syn == IF f.state \in {"SynSent", "SynReceived"} THEN 1 ELSE 0
    IN  /\ f.tx.num_tracked = Len(f.tx.chain)
        /\ f.tx.num_unsent = NumUnsentInChain(f.tx)
        /\ f.state # "Closed" /\ e \notin reopened =>
             Wrap(f.pcb.snd_nxt - f.pcb.snd_una)
               = Len(f.tx.chain) - f.tx.num_unsent + syn

\* The assertions of ReceiveAcks hold: no ACK that process_ack accepts covers
\* more than what was sent ("Releasing an unsent msgbuf!", flow.h:57).
NeverOverAcked ==
  \A e \in Ends \ reopened : flow[e].fault # "over_ack"

\* The reassembly queue is sorted, without duplicates, strictly ahead of
\* rcv_nxt and within reach of the bitmap, and the SACK count in the ACKs is
\* its length (Consume and PushInOrderMsgbufsToShmTrain keep them together).
ReassemblyAhead ==
  \A e \in Ends \ reopened :
    LET q == flow[e].rx.reass_q
        dist(i) == Wrap(q[i].seqno - flow[e].pcb.rcv_nxt)
    IN  flow[e].fault = "none" =>
          /\ \A i \in 1..Len(q) : dist(i) \in 1..(kReassemblyMaxSeqnoDistance - 1)
          /\ \A i \in 1..(Len(q) - 1) : dist(i) < dist(i + 1)
          /\ flow[e].pcb.sack_bitmap_count = Len(q)

\* In both directions the connection implements the FIFO of MessageFifo: every
\* step is a submission, a delivery of the next messages, or invisible.
ToServer == INSTANCE MessageFifo
  WITH Msgs <- [m \in 1..Len(ClientMsgs) |-> Message("client", m)],
       submitted <- sent["client"], delivered <- Delivered("server")
ToClient == INSTANCE MessageFifo
  WITH Msgs <- [m \in 1..Len(ServerMsgs) |-> Message("server", m)],
       submitted <- sent["server"], delivered <- Delivered("client")

\* Both directions refine the FIFO (connections that nobody shuts down).
RefinesFifo == ToServer!FifoSpec /\ ToClient!FifoSpec

-----------------------------------------------------------------------------
(* Liveness. The engine calls PeriodicProcess from its polling loop for as  *)
(* long as it runs, so a slow-timer tick always comes again. Nothing is     *)
(* assumed of the network: it may lose every packet.                        *)
FairSpec == Spec /\ \A e \in Ends : WF_vars(PeriodicCheck(e))

\* A connect request is always answered: the flow reports success or failure,
\* or its channel goes away.
ConnectCompletes ==
  flow["client"].state = "SynSent" ~>
    flow["client"].callback # "none" \/ flow["client"].life = "removed"

\* Data does not stay unacknowledged forever: it is acknowledged, or the flow
\* gives up and is removed (or its process dies).
OutstandingResolved ==
  \A e \in Ends :
    (Running(e) /\ flow[e].state = "Established"
       /\ flow[e].pcb.snd_una # flow[e].pcb.snd_nxt)
    ~> (~Running(e) \/ flow[e].pcb.snd_una = flow[e].pcb.snd_nxt)

-----------------------------------------------------------------------------
(* What a comment says that the code does not do.                           *)

\* "Retransmit the oldest unacknowledged message buffer." (flow.h:767): there
\* is one whenever the flow retransmits.
RetransmitHasBuffer == \A e \in Ends : flow[e].fault # "no_unacked"
=============================================================================
