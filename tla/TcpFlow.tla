------------------------------- MODULE TcpFlow -------------------------------
(***************************************************************************)
(* The TCP transport (src/include/tcp_flow.h): two TcpFlow objects, the    *)
(* client opened by InitiateHandshake and the server by StartPassiveOpen,  *)
(* over a network that loses, repeats and reorders segments. Octets are    *)
(* small numbers, and a message is framed by its length in                 *)
(* kMsgLenPrefixSize octets. A handler is an operator on the record of a   *)
(* flow; what it sends is collected in the field "out" and what it hands   *)
(* to the application in "del"; "pkts", "bufs" and "room" say how many     *)
(* packets and buffers it can allocate and whether the channel's ring has  *)
(* room, and "skip" that the rest of a segment is not looked at.           *)
(***************************************************************************)
EXTENDS Integers, Sequences, FiniteSets, FiniteSetsExt, SequencesExt

CONSTANTS
  Modulus,             \* 2^32: sequence numbers are uint32_t
  Isn,                 \* Isn[e]: GenerateISN of each end
  Base,                \* 256: values of an octet
  kMsgLenPrefixSize,   \* 4
  MACHNET_MSG_MAX_LEN, \* longest message
  kMaxSendBuf,         \* two of them
  kDefaultMSS,         \* 1400
  PeerMSS,             \* PeerMSS[e]: the MSS option that end e receives
  kInitialWindowSize,  \* 65535
  kMaxRetransmissions, \* 10
  kInitialRTO,         \* 3 ticks
  kTimeWaitTicks,      \* 5 ticks
  BufSize,             \* GetUsableBufSize of a MsgBuf
  Scenarios            \* what the ends do and which failures there are

Ends == {"client", "server"}
Other(e) == IF e = "client" THEN "server" ELSE "client"

ASSUME TcpAssumption ==
  /\ {Modulus, Base, kMsgLenPrefixSize, MACHNET_MSG_MAX_LEN, kMaxSendBuf,
      kDefaultMSS, kInitialWindowSize, BufSize} \subseteq Nat \ {0}
  /\ {kMaxRetransmissions, kInitialRTO, kTimeWaitTicks} \subseteq Nat
  /\ Isn \in [Ends -> 0..(Modulus - 1)] /\ PeerMSS \in [Ends -> Nat]
  /\ \A s \in Scenarios :
       /\ s.toSend \in [Ends -> Seq(Seq(0..(Base - 1)))]
       /\ s.windows \in [Ends -> SUBSET (0..kInitialWindowSize)]
       /\ s.closers \subseteq Ends
       /\ {s.maxPoolFailures, s.maxBufFailures} \subseteq Nat

VARIABLES
  scenario, \* toSend[e]: messages to send at e; windows[e]: windows that e is
            \* advertised; closers: ends that may shut down; bounds on the
            \* packet and the buffer allocations that fail
  tcp,      \* tcp[e]: the TcpFlow at end e
  net,      \* every segment ever sent, with its destination
  sent,     \* sent[e]: messages that OutputMessage took at e (history)
  calls,    \* calls[e]: how many OutputMessage calls were made at e
  failures  \* allocations that have failed so far

vars == <<scenario, tcp, net, sent, calls, failures>>

-----------------------------------------------------------------------------
(* Sequence numbers and segments.                                          *)

Wrap(n) == n % Modulus
SeqLt(a, b)  == Wrap(a - b) >= Modulus \div 2
SeqLeq(a, b) == a = b \/ SeqLt(a, b)

Segment(flags, seq, ack, data) ==
  [flags |-> flags, seq |-> seq, ack |-> ack, data |-> data]

Send(t, seg) == [t EXCEPT !.out = @ \cup {seg}]

\* A retransmitted SYN or SYN-ACK has the sequence number of the first.
SendSyn(t) ==
  [Send(t, Segment({"SYN"}, t.isn, 0, <<>>)) EXCEPT !.nxt = Wrap(t.isn + 1)]
SendSynAck(t) ==
  [Send(t, Segment({"SYN", "ACK"}, t.isn, t.rcv, <<>>))
     EXCEPT !.nxt = Wrap(t.isn + 1)]
SendAck(t) == Send(t, Segment({"ACK"}, t.nxt, t.rcv, <<>>))
SendRst(t) == Send(t, Segment({"RST"}, t.nxt, 0, <<>>))

ArmTimer(t) == [t EXCEPT !.rtoOn = TRUE, !.rtoLeft = kInitialRTO]
StopTimer(t) == [t EXCEPT !.rtoOn = FALSE]

\* A new flow.
Fresh(e) ==
  [st |-> "CLOSED", una |-> Isn[e], nxt |-> Isn[e], isn |-> Isn[e], rcv |-> 0,
   wnd |-> kInitialWindowSize, mss |-> kDefaultMSS, buf |-> <<>>,
   rtoOn |-> FALSE, rtoLeft |-> kInitialRTO, rexmits |-> 0,
   twLeft |-> kTimeWaitTicks, finPending |-> FALSE, finSent |-> FALSE,
   finSeq |-> 0, lenBuf |-> <<>>, msgLen |-> 0, msg |-> <<>>,
   del |-> <<>>, cb |-> <<>>, out |-> {}, pkts |-> 0, bufs |-> 0,
   room |-> TRUE, skip |-> FALSE]

Callback(t, success) == [t EXCEPT !.cb = Append(@, success)]

-----------------------------------------------------------------------------
(* Sending.                                                                *)

SndBufferedEndSeq(t) == Wrap(t.una + Len(t.buf))
FinOutstanding(t) == t.finSent /\ SeqLt(t.una, Wrap(t.finSeq + 1))
EffectiveMSS(t) == Min({t.mss, kDefaultMSS})

\* The octets of the send buffer from sequence number seq on.
DataSegment(t, seq, len) ==
  LET off == Wrap(seq - t.una)
  IN Segment({"ACK"}, seq, t.rcv, SubSeq(t.buf, off + 1, off + len))

\* The loop of PumpSend sends full segments up to the window's edge or the
\* end of the data, while the pool has packets (pkts of them).
SendData(t, pkts) ==
  LET span == Min({Wrap(SndBufferedEndSeq(t) - t.nxt),
                   Wrap(t.una + t.wnd - t.nxt)})
      open == SeqLt(t.nxt, SndBufferedEndSeq(t))
              /\ SeqLt(t.nxt, Wrap(t.una + t.wnd))
      mss == EffectiveMSS(t)
      n == IF open THEN Min({pkts, (span + mss - 1) \div mss}) ELSE 0
      done == Min({span, n * mss})
  IN IF n = 0 THEN t
     ELSE [t EXCEPT
             !.out = @ \cup {DataSegment(t, Wrap(t.nxt + i * mss),
                                         Min({mss, span - i * mss})) :
                               i \in 0..(n - 1)},
             !.nxt = Wrap(@ + done), !.pkts = @ - n]

\* The FIN follows the last octet of data.
FinDue(t) == t.finPending /\ ~t.finSent /\ t.nxt = SndBufferedEndSeq(t)

SendFin(t) ==
  IF FinDue(t) /\ t.pkts > 0
  THEN [Send(t, Segment({"FIN", "ACK"}, t.nxt, t.rcv, <<>>)) EXCEPT
          !.finSeq = t.nxt, !.nxt = Wrap(@ + 1), !.finSent = TRUE]
  ELSE t

SendingStates == {"ESTABLISHED", "CLOSE_WAIT", "FIN_WAIT_1", "LAST_ACK"}

\* PumpSend, with the packets that the pool can give.
\* (Mutation: only what is in flight keeps the timer armed.)
MustWait_inflight(t) == t.nxt # t.una \/ FinOutstanding(t)
MustWait(t) == t.nxt # t.una \/ FinOutstanding(t)
               \/ SeqLt(t.nxt, SndBufferedEndSeq(t))

PumpSend(t) ==
  IF t.st \notin SendingStates THEN t
  ELSE LET u == SendFin(SendData(t, t.pkts))
       IN IF MustWait(u) /\ ~u.rtoOn THEN ArmTimer(u) ELSE u

\* Go-back-N.
RetransmitUnacked(t) == PumpSend([t EXCEPT !.nxt = t.una, !.finSent = FALSE])

\* One octet at nxt, which does not move.
SendZeroWindowProbe(t) ==
  IF t.pkts > 0 THEN Send(t, DataSegment(t, t.nxt, 1)) ELSE t

\* Big-endian length prefix.
EncodeLen(n) ==
  [i \in 1..kMsgLenPrefixSize |->
     (n \div (Base ^ (kMsgLenPrefixSize - i))) % Base]
DecodeLen(octets) == FoldLeft(LAMBDA n, o : n * Base + o, 0, octets)

MayOutput(t) == t.st \in {"ESTABLISHED", "CLOSE_WAIT"}

\* OutputMessage takes the message unless the send buffer is too full.
Fits(t, msg) == Len(t.buf) + kMsgLenPrefixSize + Len(msg) <= kMaxSendBuf
OutputMessage(t, msg) ==
  PumpSend([t EXCEPT !.buf = @ \o EncodeLen(Len(msg)) \o msg])

\* ShutDown queues a FIN, or resets a flow that is not open.
ShutDown(t) ==
  IF t.st \in {"ESTABLISHED", "CLOSE_WAIT"}
  THEN PumpSend([t EXCEPT !.finPending = TRUE,
                   !.st = IF @ = "ESTABLISHED" THEN "FIN_WAIT_1" ELSE "LAST_ACK"])
  ELSE StopTimer([SendRst(t) EXCEPT !.st = "CLOSED"])

InitiateHandshake(t) == ArmTimer([SendSyn(t) EXCEPT !.st = "SYN_SENT"])
StartPassiveOpen(t) == [t EXCEPT !.st = "LISTEN"]

-----------------------------------------------------------------------------
(* Receiving.                                                              *)

\* ConsumePayload, one octet at a time. A length that is not allowed, or a
\* buffer that cannot be had, ends the processing of the segment.
TakeLength(t, octet) ==
  LET got == Append(t.lenBuf, octet)
      len == DecodeLen(got)
  IN IF Len(got) < kMsgLenPrefixSize THEN [t EXCEPT !.lenBuf = got]
     ELSE IF len \in 1..MACHNET_MSG_MAX_LEN
     THEN [t EXCEPT !.lenBuf = <<>>, !.msgLen = len, !.msg = <<>>]
     ELSE [t EXCEPT !.lenBuf = <<>>, !.skip = TRUE]

TakePayload(t, octet) ==
  LET needsBuf == Len(t.msg) % BufSize = 0
      got == Append(t.msg, octet)
  IN IF needsBuf /\ t.bufs = 0
     THEN [t EXCEPT !.msgLen = 0, !.msg = <<>>, !.skip = TRUE]
     ELSE [t EXCEPT
             !.bufs = IF needsBuf THEN @ - 1 ELSE @,
             !.msg = IF Len(got) = t.msgLen THEN <<>> ELSE got,
             !.msgLen = IF Len(got) = t.msgLen THEN 0 ELSE @,
             !.del = IF Len(got) = t.msgLen /\ t.room THEN Append(@, got)
                     ELSE @]

TakeOctet(t, octet) ==
  IF t.skip THEN t
  ELSE IF t.msgLen = 0 THEN TakeLength(t, octet) ELSE TakePayload(t, octet)

ConsumePayload(t, data) == [FoldLeft(TakeOctet, t, data) EXCEPT !.skip = FALSE]

\* ProcessInOrderPayload skips what was received before.
\* (Mutation: an overlapping segment is taken as a whole.)
ProcessInOrderPayload_whole(t, seg) ==
  LET end == Wrap(seg.seq + Len(seg.data))
  IN IF SeqLeq(seg.seq, t.rcv) /\ SeqLt(t.rcv, end)
     THEN [ConsumePayload(t, seg.data) EXCEPT !.rcv = end]
     ELSE t

\* (Mutation: a segment that is old as a whole moves rcv back.)
ProcessInOrderPayload_old(t, seg) ==
  LET end == Wrap(seg.seq + Len(seg.data))
      overlap == Wrap(t.rcv - seg.seq)
  IN IF SeqLeq(seg.seq, t.rcv)
     THEN [ConsumePayload(t, SubSeq(seg.data, overlap + 1, Len(seg.data)))
             EXCEPT !.rcv = end]
     ELSE t

ProcessInOrderPayload(t, seg) ==
  LET end == Wrap(seg.seq + Len(seg.data))
      overlap == Wrap(t.rcv - seg.seq)
  IN IF SeqLeq(seg.seq, t.rcv) /\ SeqLt(t.rcv, end)
     THEN [ConsumePayload(t, SubSeq(seg.data, overlap + 1, Len(seg.data)))
             EXCEPT !.rcv = end]
     ELSE t

\* Payload is acknowledged whether it was new or not.
TakeData(t, seg) ==
  IF seg.data = <<>> THEN t ELSE SendAck(ProcessInOrderPayload(t, seg))

\* AdvanceSndUna.
AckIsNew(t, ack) == SeqLt(t.una, ack) /\ SeqLeq(ack, t.nxt)

AdvanceSndUna(t, ack) ==
  IF ~AckIsNew(t, ack) THEN t
  ELSE LET drop == Min({Wrap(ack - t.una), Len(t.buf)})
           u == [t EXCEPT !.buf = SubSeq(@, drop + 1, Len(@)), !.una = ack,
                          !.rexmits = 0]
       IN IF u.una = u.nxt /\ u.buf = <<>> /\ ~FinOutstanding(u)
          THEN StopTimer(u)
          ELSE [u EXCEPT !.rtoLeft = kInitialRTO]

OnAck(t, seg) == IF "ACK" \in seg.flags THEN AdvanceSndUna(t, seg.ack) ELSE t

\* The MSS option of a SYN; 0 stands for the default.
ParseTcpOptions(t, mss) ==
  [t EXCEPT !.mss = IF mss = 0 THEN kDefaultMSS ELSE mss]

\* The peer has acknowledged the SYN.
Established(t, seg, w) ==
  [StopTimer(t) EXCEPT !.st = "ESTABLISHED", !.una = seg.ack, !.wnd = w,
                       !.rexmits = 0]

HandleListen(t, seg, mss) ==
  IF "SYN" \notin seg.flags THEN t
  ELSE ArmTimer([SendSynAck([ParseTcpOptions(t, mss) EXCEPT
                               !.rcv = Wrap(seg.seq + 1)])
                   EXCEPT !.st = "SYN_RECEIVED"])

HandleSynSent(t, seg, w, mss) ==
  LET synced == [ParseTcpOptions(t, mss) EXCEPT !.rcv = Wrap(seg.seq + 1)]
  IN CASE {"SYN", "ACK"} \subseteq seg.flags /\ seg.ack = t.nxt ->
            Callback(Established(SendAck(synced), seg, w), TRUE)
       [] "SYN" \in seg.flags /\ "ACK" \notin seg.flags ->
            [SendSynAck(synced) EXCEPT !.st = "SYN_RECEIVED"]
       [] OTHER -> t

HandleSynReceived(t, seg, w) ==
  IF "ACK" \notin seg.flags \/ seg.ack # t.nxt THEN t
  ELSE LET u == Established(t, seg, w)
           v == ProcessInOrderPayload(u, seg)
       IN IF v.rcv # u.rcv THEN SendAck(v) ELSE v

\* A FIN is taken at the expected sequence number.
\* (Mutation: a FIN is taken wherever it is.)
TakeFin_any(t, seg) ==
  IF "FIN" \notin seg.flags THEN t
  ELSE [SendAck([t EXCEPT !.rcv = Wrap(seg.seq + 1)]) EXCEPT !.st = "CLOSE_WAIT"]

TakeFin(t, seg) ==
  LET finSeq == Wrap(seg.seq + Len(seg.data))
  IN CASE "FIN" \in seg.flags /\ finSeq = t.rcv ->
            [SendAck([t EXCEPT !.rcv = Wrap(@ + 1)]) EXCEPT !.st = "CLOSE_WAIT"]
       [] "FIN" \in seg.flags /\ SeqLt(finSeq, t.rcv) -> SendAck(t)
       [] OTHER -> t

HandleEstablished(t, seg, w) ==
  IF "SYN" \in seg.flags THEN SendAck(t)
  ELSE LET u == IF "ACK" \in seg.flags
                THEN [AdvanceSndUna(t, seg.ack) EXCEPT !.wnd = w] ELSE t
       IN TakeFin(TakeData(u, seg), seg)

\* In FIN_WAIT_1 and FIN_WAIT_2 every FIN leads to TIME_WAIT.
ToTimeWait(t, seg) ==
  LET inOrder == Wrap(seg.seq + Len(seg.data)) = t.rcv
  IN [SendAck([t EXCEPT !.rcv = IF inOrder THEN Wrap(@ + 1) ELSE @])
        EXCEPT !.st = "TIME_WAIT", !.twLeft = kTimeWaitTicks]

HandleFinWait1(t, seg) ==
  LET u == TakeData(OnAck(t, seg), seg)
  IN CASE "FIN" \in seg.flags -> ToTimeWait(u, seg)
       [] "FIN" \notin seg.flags /\ u.finSent /\ ~FinOutstanding(u) ->
            [u EXCEPT !.st = "FIN_WAIT_2"]
       [] OTHER -> u

HandleFinWait2(t, seg) ==
  LET u == TakeData(t, seg)
  IN IF "FIN" \in seg.flags THEN ToTimeWait(u, seg) ELSE u

HandleLastAck(t, seg) ==
  IF "ACK" \in seg.flags THEN [OnAck(t, seg) EXCEPT !.st = "CLOSED"] ELSE t

\* InputPacket: w is the window that the segment advertises, mss its option.
InputPacket(t, seg, w, mss) ==
  IF "RST" \in seg.flags THEN [t EXCEPT !.st = "CLOSED"]
  ELSE PumpSend(
         CASE t.st = "LISTEN"       -> HandleListen(t, seg, mss)
           [] t.st = "SYN_SENT"     -> HandleSynSent(t, seg, w, mss)
           [] t.st = "SYN_RECEIVED" -> HandleSynReceived(t, seg, w)
           [] t.st = "ESTABLISHED"  -> HandleEstablished(t, seg, w)
           [] t.st = "FIN_WAIT_1"   -> HandleFinWait1(t, seg)
           [] t.st = "FIN_WAIT_2"   -> HandleFinWait2(t, seg)
           [] t.st = "CLOSE_WAIT"   -> OnAck(t, seg)
           [] t.st = "LAST_ACK"     -> HandleLastAck(t, seg)
           [] t.st = "TIME_WAIT"    -> t
           [] t.st = "CLOSED"       -> SendRst(t))

-----------------------------------------------------------------------------
(* The timer.                                                              *)

\* What is sent again when the timer has run out.
Retransmit(t) ==
  CASE t.st = "SYN_SENT" -> SendSyn(t)
    [] t.st = "SYN_RECEIVED" -> SendSynAck(t)
    [] t.st \in SendingStates ->
         IF t.wnd = 0 /\ SeqLt(t.nxt, SndBufferedEndSeq(t))
         THEN SendZeroWindowProbe(t) ELSE RetransmitUnacked(t)
    [] OTHER -> t

\* The flow is given up after too many retransmissions.
GiveUp(t) == t.rexmits >= kMaxRetransmissions

PeriodicCheck(t) ==
  CASE t.st = "TIME_WAIT" ->
         IF t.twLeft > 0 THEN [t EXCEPT !.twLeft = @ - 1]
         ELSE [t EXCEPT !.st = "CLOSED"]
    [] t.st # "TIME_WAIT" /\ t.rtoOn /\ t.rtoLeft > 0 ->
         [t EXCEPT !.rtoLeft = @ - 1]
    [] t.st # "TIME_WAIT" /\ t.rtoOn /\ t.rtoLeft = 0 ->
         IF GiveUp(t) THEN [Callback(t, FALSE) EXCEPT !.st = "CLOSED"]
         ELSE [Retransmit([t EXCEPT !.rexmits = @ + 1])
                 EXCEPT !.rtoLeft = kInitialRTO]
    [] OTHER -> t

-----------------------------------------------------------------------------
(* The two ends and the network.                                           *)

\* Allocations of a handler: as many as it wants, or a failure: of the packet
\* pool, of the channel's buffer pool, or of its ring.
Plenty == Modulus
Resources ==
  {[pkts |-> Plenty, bufs |-> Plenty, room |-> TRUE, pool |-> 0, buf |-> 0]}
  \cup {[pkts |-> n, bufs |-> Plenty, room |-> TRUE, pool |-> 1, buf |-> 0] :
          n \in {k \in 0..1 : failures.pool < scenario.maxPoolFailures}}
  \cup {[pkts |-> Plenty, bufs |-> n, room |-> n = 0, pool |-> 0, buf |-> 1] :
          n \in {k \in {0, Plenty} : failures.buf < scenario.maxBufFailures}}

Given(t, r) == [t EXCEPT !.pkts = r.pkts, !.bufs = r.bufs, !.room = r.room]

\* The end of a handler: its segments are on the wire.
Commit(e, t, r) ==
  /\ tcp' = [tcp EXCEPT ![e] = [t EXCEPT !.out = {}, !.pkts = 0, !.bufs = 0,
                                        !.room = TRUE]]
  /\ net' = net \cup {[to |-> Other(e), seg |-> s] : s \in t.out}
  /\ failures' = [pool |-> failures.pool + r.pool, buf |-> failures.buf + r.buf]
  /\ UNCHANGED scenario

Init ==
  LET client == InitiateHandshake(Fresh("client"))
  IN /\ tcp = [e \in Ends |->
                 IF e = "client" THEN [client EXCEPT !.out = {}]
                 ELSE StartPassiveOpen(Fresh("server"))]
     /\ net = {[to |-> "server", seg |-> s] : s \in client.out}
     /\ sent = [e \in Ends |-> <<>>] /\ calls = [e \in Ends |-> 0]
     /\ failures = [pool |-> 0, buf |-> 0]
     /\ scenario \in Scenarios

\* A segment arrives, now or later, once or more often, or never.
Receive(e) ==
  \E m \in net, w \in scenario.windows[e], r \in Resources :
    /\ m.to = e
    /\ Commit(e, InputPacket(Given(tcp[e], r), m.seg, w, PeerMSS[e]), r)
    /\ UNCHANGED <<sent, calls>>

\* process_msg hands a message to the flow.
Output(e) ==
  /\ calls[e] < Len(scenario.toSend[e])
  /\ calls' = [calls EXCEPT ![e] = @ + 1]
  /\ LET msg == scenario.toSend[e][calls[e] + 1]
     IN \/ /\ MayOutput(tcp[e]) /\ Fits(tcp[e], msg)
           /\ \E r \in Resources :
                Commit(e, OutputMessage(Given(tcp[e], r), msg), r)
           /\ sent' = [sent EXCEPT ![e] = Append(@, msg)]
        \/ /\ ~(MayOutput(tcp[e]) /\ Fits(tcp[e], msg))
           /\ UNCHANGED <<scenario, tcp, net, sent, failures>>

Close(e) ==
  /\ e \in scenario.closers
  /\ tcp[e].st \in {"SYN_SENT", "SYN_RECEIVED", "ESTABLISHED", "CLOSE_WAIT"}
  /\ \E r \in Resources : Commit(e, ShutDown(Given(tcp[e], r)), r)
  /\ UNCHANGED <<sent, calls>>

\* HandleRTO of the engine. A flow that is CLOSED is no longer checked.
Tick(e) ==
  /\ tcp[e].st # "CLOSED"
  /\ \E r \in Resources : Commit(e, PeriodicCheck(Given(tcp[e], r)), r)
  /\ UNCHANGED <<sent, calls>>

Next == \E e \in Ends : Receive(e) \/ Output(e) \/ Close(e) \/ Tick(e)

Spec == Init /\ [][Next]_vars

\* The slow timer ticks at both ends as long as a tick matters (this is the
\* weak fairness of Tick); the network promises nothing.
TickDue(e) == tcp[e].st # "CLOSED" /\ (tcp[e].st = "TIME_WAIT" \/ tcp[e].rtoOn)
FairSpec ==
  Spec /\ \A e \in Ends : []<>~TickDue(e) \/ []<><<Tick(e)>>_vars

-----------------------------------------------------------------------------
(* Properties.                                                             *)

\* Octets leave the send buffer (AdvanceSndUna) only when the peer has
\* received them: retransmission can always go back to what is missing.
NothingLost ==
  \A e \in Ends : tcp[Other(e)].st \notin {"LISTEN", "SYN_SENT", "CLOSED"} =>
                   SeqLeq(tcp[e].una, tcp[Other(e)].rcv)

\* The messages delivered at one end are a prefix of the ones that the other
\* end accepted, whole, in order and once, whatever the network and the
\* packet pool do (OutputMessage, ProcessInOrderPayload, ConsumePayload). A
\* receiver whose buffers or ring ran out has dropped a part of the stream.
InOrderDelivery ==
  failures.buf = 0 => \A e \in Ends : IsPrefix(tcp[e].del, sent[Other(e)])

\* An end that has seen the peer's FIN in order (CLOSE_WAIT) has delivered
\* every message that the peer accepted before it, as long as its buffers and
\* its ring had room.
FinMeansAll ==
  failures.buf = 0 =>
    \A e \in Ends : tcp[e].st = "CLOSE_WAIT" => tcp[e].del = sent[Other(e)]

\* A handshake ends, with or without success, and accepted data is
\* acknowledged in the end or the flow closes, although nothing is known of
\* the network (PeriodicCheck).
Unresolved(e) == \/ tcp[e].st \in {"SYN_SENT", "SYN_RECEIVED"}
                 \/ tcp[e].st # "CLOSED" /\ tcp[e].buf # <<>>
FlowResolved == \A e \in Ends : Unresolved(e) ~> ~Unresolved(e)

=============================================================================
