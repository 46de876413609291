---------------------------- MODULE FlowDelivery ----------------------------
(***************************************************************************)
(* The theorems about what the two ends do together. TXTracking and the    *)
(* Pcb of an end agree in every state, and ReceiveAcks is never asked to   *)
(* release a buffer that was not sent. The messages of a connection arrive *)
(* whole, once and in order: what an end has handed to its application     *)
(* keeps step with what it accepted of the stream of its peer, and so both *)
(* directions are queues of messages.                                      *)
(***************************************************************************)
EXTENDS FlowTheorems

-----------------------------------------------------------------------------
(* The other actions keep the invariant of the senders.                     *)

\* A packet, delivered once or again, keeps the invariant.
LEMMA InputPacketSender ==
  ASSUME Inv, SenderInv, NEW e \in Ends, NEW p \in BagToSet(net),
         NEW again \in BOOLEAN, NEW ok \in BOOLEAN, InputPacket(e, p, again, ok)
  PROVE  SenderInv'
<1> DEFINE o == flow[e]
           f == [o EXCEPT !.life = "live"]
           h == p.hdr
           g == HandlePacket(f, h, ok)
           in_flight == IF again THEN net ELSE RemoveOne(net, p)
           again_open == h.flags = "SYN" /\ o.life = "live" /\ o.state = "Closed"
<1>1. /\ Good(o) /\ Roomy(o) /\ NoRst(o) /\ Silent(o) /\ SenderOK(e)
      /\ Fresh(o) /\ Quiet /\ NoReset
      /\ Len(o.tx.chain) <= Len(stream[e])
      /\ Len(o.tx.chain) \in Nat /\ Len(stream[e]) \in Nat
      /\ e = "server" => o.state # "SynSent"
      /\ stream = [stream EXCEPT ![e] = stream[e]]
  BY SenderFacts, Zenon
<1>2. /\ Step(e, g, in_flight) /\ recvd' = recvd /\ stream' = stream
      /\ reopened' = IF again_open THEN reopened \cup {e} ELSE reopened
      /\ \/ o.life = "live" /\ o.fault = "none"
         \/ e = "server" /\ h.flags = "SYN" /\ o.life = "absent"
  BY Zenon DEF InputPacket, Running
<1>3. h \in HdrType
  BY Zenon DEF Inv, TypeOK
<1>4. IsABag(in_flight) /\ BagToSet(in_flight) \subseteq BagToSet(net)
  BY NetFacts, TakeOK, Zenon
<1> HIDE DEF in_flight
<1>5. Fields(f, o.state, o.pcb, o.tx, o.rx, "live", o.callback, o.fault, o.out)
  BY <1>1, Zenon DEF Good, FlowShape, Fields
<1> HIDE DEF f
<1>6. Good(f)
  <2>1. FlowShape(f)
    BY <1>1, <1>5, Zenon DEF Good, FlowShape, Fields
  <2>2. FlowFieldsOK(f)
    BY <1>1, <1>5, Zenon DEF Good, FlowFieldsOK, Fields
  <2>3. TimerOK(f)
    BY <1>1, <1>2, <1>5, Zenon DEF Good, TimerOK, Fields
  <2> QED
    BY <1>1, <1>5, <2>1, <2>2, <2>3, Zenon DEF Good, Fields
<1>7. /\ Roomy(f) /\ NoRst(f) /\ Silent(f)
      /\ Numbered(o) => Numbered(f)
  <2>1. f.state = o.state /\ f.pcb = o.pcb /\ f.tx = o.tx /\ f.out = o.out
    BY <1>5, Zenon DEF Fields
  <2>2. NoRst(f) /\ Silent(f)
    BY <1>1, <2>1, Zenon DEF NoRst, Silent
  <2> QED
    BY <1>1, <2>1, <2>2, Zenon
    DEF Roomy, Numbered, Outstanding, InFlight, SynPending
<1>8. Good(g) /\ g.life = "live"
  <2>1. Good(g) /\ g.life = f.life
    BY <1>3, <1>6, AnyContext, HandlePacketOK, Zenon
  <2> QED
    BY <1>5, <2>1, Zenon DEF Fields
<1>9. Takes(f, h, g) /\ (h.flags \notin {"ACK", "DATA"} => Hushed(f, g))
  BY <1>3, <1>6, <1>7, HandlePacketTakes, Zenon
<1> HIDE DEF g, h
<1>10. /\ f.state = o.state /\ f.pcb = o.pcb /\ f.tx = o.tx /\ f.rx = o.rx
       /\ f.callback = o.callback /\ f.fault = "none"
  BY <1>1, <1>2, <1>5, Zenon DEF Fields, Fresh
<1>11. Len(g.tx.chain) <= Len(stream[e])
  <2>1. Len(g.tx.chain) \in Nat
    BY <1>8 DEF Good, FlowFieldsOK, TxType
  <2>2. Len(g.tx.chain) <= Len(o.tx.chain)
    BY <1>9, <1>10, Zenon DEF Takes
  <2> QED
    BY <1>1, <2>1, <2>2, SMTT(20)
<1>12. Unanswered => h.flags \notin {"ACK", "DATA"}
  BY <1>1, Zenon DEF Quiet, h
<1>13. e \notin reopened' =>
         Numbered(g) /\ (g.fault = "over_ack" => g.state = "Closed")
  <2> SUFFICES ASSUME e \notin reopened'
               PROVE  Numbered(g) /\ (g.fault = "over_ack" => g.state = "Closed")
    BY Zenon
  <2>1. e \notin reopened /\ ~again_open
    BY <1>2, Zenon
  <2>2. Numbered(f)
    BY <1>1, <1>7, <2>1, Zenon DEF SenderOK
  <2>3. h.flags = "SYN" /\ f.state = "Closed" => f.pcb = InitPcb /\ f.tx = InitTx
    BY <1>1, <1>2, <1>10, <2>1, Zenon DEF Fresh
  <2>4. h.flags = "ACK" => f.state # "SynSent"
    <3>1. f.state = "SynSent" => Unanswered
      BY <1>1, <1>10, Zenon DEF Unanswered, Ends
    <3> QED
      BY <1>12, <3>1, Zenon
  <2>5. f.fault # "over_ack"
    BY <1>10, Zenon
  <2> QED
    BY <1>9, <2>2, <2>3, <2>4, <2>5, Zenon DEF Takes
<1>14. e = "server" => g.state # "SynSent"
  BY <1>1, <1>9, <1>10, Zenon DEF Takes
<1>15. e = "server" /\ Unanswered =>
         /\ g.state \notin {"Established", "SynSent"} /\ g.rx.ring = <<>>
         /\ Silent(g)
  <2> SUFFICES ASSUME e = "server", Unanswered
               PROVE  /\ g.state \notin {"Established", "SynSent"}
                      /\ g.rx.ring = <<>> /\ Silent(g)
    BY Zenon
  <2>1. o.state \notin {"Established", "SynSent"} /\ o.rx.ring = <<>>
    BY <1>1, Zenon DEF Quiet
  <2>2. Hushed(f, g)
    BY <1>9, <1>12, Zenon
  <2> QED
    BY <1>7, <1>10, <2>1, <2>2, Zenon DEF Hushed
<1>16. e = "client" /\ g.state = "SynSent" =>
         Unanswered /\ g.callback # "up" /\ Silent(g)
  <2> SUFFICES ASSUME e = "client", g.state = "SynSent"
               PROVE  Unanswered /\ g.callback # "up" /\ Silent(g)
    BY Zenon
  <2>1. f.state = "SynSent"
    BY <1>9, Zenon DEF Takes
  <2>2. Unanswered
    BY <1>10, <2>1, Zenon DEF Unanswered
  <2>3. g = f
    BY <1>9, <1>12, <2>2, SMTT(20) DEF Hushed
  <2> QED
    BY <1>1, <1>7, <1>10, <2>2, <2>3, Zenon DEF Quiet
<1>17. MaxShutDowns = 0 => reopened' = {} /\ g.state # "Closed" /\ NoRst(g)
  <2> SUFFICES ASSUME MaxShutDowns = 0
               PROVE  reopened' = {} /\ g.state # "Closed" /\ NoRst(g)
    BY Zenon
  <2>1. /\ reopened = {} /\ h.flags # "RST"
        /\ o.state = "Closed" => o.life = "absent"
    BY <1>1, Zenon DEF NoReset, h
  <2>2. ~again_open /\ (o.state = "Closed" => h.flags = "SYN")
    BY <1>2, <2>1, Zenon
  <2> QED
    BY <1>2, <1>7, <1>9, <1>10, <2>1, <2>2, Zenon DEF Takes
<1>18. stream' = [stream EXCEPT ![e] = stream[e]] /\ reopened \subseteq reopened'
  BY <1>1, <1>2, Zenon
<1>19. Step(e, g, in_flight) /\ recvd' = recvd /\ g.life # "absent"
  BY <1>2, <1>8, Zenon
<1> HIDE DEF o, again_open
<1> QED
  BY <1>4, <1>8, <1>11, <1>13, <1>14, <1>15, <1>16, <1>17, <1>18, <1>19,
     SenderStep, ZenonT(60)

\* A submission keeps the invariant.
LEMMA OutputMessageSender ==
  ASSUME Inv, SenderInv, NEW e \in Ends, NEW ok \in BOOLEAN, OutputMessage(e, ok)
  PROVE  SenderInv'
<1> DEFINE f == flow[e]
           m == Message(e, sent[e] + 1)
           st == stream[e] \o m
           k == [f EXCEPT !.tx = TxAppend(@, m)]
           g == TransmitPackets(k, ok)
<1>1. /\ Good(f) /\ NoRst(f) /\ SenderOK(e) /\ Quiet /\ NoReset
      /\ Len(f.tx.chain) <= Len(stream[e])
      /\ Len(f.tx.chain) \in Nat /\ Len(stream[e]) \in Nat
      /\ e = "server" => f.state # "SynSent"
  BY SenderFacts, Zenon
<1>2. /\ Step(e, g, net) /\ recvd' = recvd /\ reopened' = reopened
      /\ stream' = [stream EXCEPT ![e] = st]
      /\ f.life = "live" /\ f.fault = "none" /\ Known(e)
      /\ sent[e] < Len(Workload(e))
      /\ Len(stream[e]) + Workload(e)[sent[e] + 1] + 1 < Modulus \div 2
  BY Zenon DEF OutputMessage, SeqnosLeft, Running
<1>3. sent[e] \in Nat /\ stream[e] \in Seq(BufType)
  BY EndFacts, Zenon DEF Inv, TypeOK
<1>4. /\ m \in Seq(BufType) /\ Len(m) = Workload(e)[sent[e] + 1] /\ Len(m) > 0
      /\ Len(m) \in Nat
  BY <1>2, <1>3, MessageOK
<1> HIDE DEF m
<1>5. Len(st) = Len(stream[e]) + Len(m)
  BY <1>3, <1>4, ConcatFacts, Zenon
<1>6. Len(f.tx.chain) + Len(m) + 1 < Modulus \div 2
  <2>1. Len(stream[e]) + Len(m) + 1 < Modulus \div 2
    BY <1>2, <1>4, Zenon
  <2>2. /\ Len(f.tx.chain) <= Len(stream[e]) /\ Len(f.tx.chain) \in Nat
        /\ Len(stream[e]) \in Nat
    BY <1>1, Zenon
  <2>3. Modulus \div 2 \in Int
    BY HalfModulus
  <2> HIDE DEF f
  <2> QED
    BY ONLY <1>4, <2>1, <2>2, <2>3, SMTT(60)
<1>7. Good(g)
  <2>1. Good(k)
    BY <1>1, <1>4, AnyContext, SubmitOK, Zenon
  <2> HIDE DEF k
  <2> QED
    BY <2>1, AnyContext, TransmitPacketsOK, Zenon
<1>8. /\ Len(g.tx.chain) = Len(f.tx.chain) + Len(m)
      /\ g.state = f.state /\ g.life = f.life /\ g.callback = f.callback
      /\ f.fault # "over_ack" => g.fault # "over_ack"
      /\ NoRst(f) => NoRst(g)
      /\ Numbered(f) => Numbered(g)
  BY <1>1, <1>4, <1>6, SubmitSender, Zenon
<1> HIDE DEF g, st
<1>9. Len(g.tx.chain) <= Len(st)
  BY <1>1, <1>4, <1>5, <1>8, SMTT(20)
<1>10. IsABag(net) /\ BagToSet(net) \subseteq BagToSet(net)
  BY NetFacts, Zenon
<1>11. e \notin reopened' =>
         Numbered(g) /\ (g.fault = "over_ack" => g.state = "Closed")
  BY <1>1, <1>2, <1>8, Zenon DEF SenderOK
<1>12. ~(e = "server" /\ Unanswered) /\ ~(e = "client" /\ g.state = "SynSent")
  <2>1. ~(e = "server" /\ Unanswered)
    BY <1>1, <1>2, Zenon DEF Known, Quiet
  <2>2. ~(e = "client" /\ f.state = "SynSent")
    BY <1>1, <1>2, Zenon DEF Known, Quiet, Unanswered
  <2> QED
    BY <1>8, <2>1, <2>2, Zenon
<1>13. MaxShutDowns = 0 => reopened' = {} /\ g.state # "Closed" /\ NoRst(g)
  BY <1>1, <1>2, <1>8, Zenon DEF NoReset
<1>14. /\ g.life # "absent" /\ reopened \subseteq reopened'
       /\ e = "server" => g.state # "SynSent"
  BY <1>1, <1>2, <1>8, Zenon
<1> HIDE DEF f
<1> QED
  BY <1>2, <1>7, <1>9, <1>10, <1>11, <1>12, <1>13, <1>14, SenderStep,
     ZenonT(60)

\* A dequeue by the application keeps the invariant: the server's application
\* finds nothing while the client waits for the SYN-ACK.
LEMMA AppRecvSender ==
  ASSUME Inv, SenderInv, NEW e \in Ends, AppRecv(e)
  PROVE  SenderInv'
<1> DEFINE P == Peer(e)
           f == flow[e]
           rx == [f.rx EXCEPT !.ring = Tail(@)]
           h == [f EXCEPT !.rx = rx]
<1>1. P \in Ends /\ Peer(P) = e /\ P # e /\ \A x \in Ends : x = e \/ x = P
  BY PeerFacts, Zenon
<1>2. /\ f.rx.ring # <<>> /\ flow' = [flow EXCEPT ![e] = h]
      /\ net' = net /\ stream' = stream /\ reopened' = reopened
      /\ recvd' = [recvd EXCEPT ![e] = Append(recvd[e], Head(f.rx.ring))]
  <2>1. flow' = [flow EXCEPT ![e].rx.ring = Tail(@)]
    BY Zenon DEF AppRecv
  <2>2. flow' = [flow EXCEPT ![e] = h]
    BY <2>1, Zenon
  <2> QED
    BY <2>2, Zenon DEF AppRecv
<1> HIDE DEF rx
<1>3. Fields(h, f.state, f.pcb, f.tx, rx, f.life, f.callback, f.fault, f.out)
  BY Zenon DEF Inv, FlowShape, Fields
<1> HIDE DEF h
<1>4. /\ flow'[e] = h /\ flow'[P] = flow[P] /\ recvd'[P] = recvd[P]
  BY <1>1, <1>2, Zenon DEF Inv
<1>5. ASSUME NEW x \in Ends
      PROVE  /\ flow'[x].state = flow[x].state /\ flow'[x].pcb = flow[x].pcb
             /\ flow'[x].tx = flow[x].tx /\ flow'[x].life = flow[x].life
             /\ flow'[x].fault = flow[x].fault
             /\ flow'[x].callback = flow[x].callback
  BY <1>1, <1>3, <1>4, Zenon DEF Fields
<1>6. ASSUME NEW x \in Ends
      PROVE  /\ SenderOK(x)' /\ Fresh(flow[x])'
             /\ (Len(flow[x].tx.chain) <= Len(stream[x]))'
  <2>1. /\ SenderOK(x) /\ Fresh(flow[x])
        /\ Len(flow[x].tx.chain) <= Len(stream[x])
    BY Zenon DEF SenderInv
  <2>2. SenderOK(x)'
    BY <1>2, <1>5, <2>1, Zenon
    DEF SenderOK, Numbered, Outstanding, InFlight, SynPending
  <2> QED
    BY <1>2, <1>5, <2>1, <2>2, Zenon DEF Fresh
<1>7. "client" \in Ends /\ "server" \in Ends
  BY Zenon DEF Ends
<1>8. Quiet'
  <2> SUFFICES ASSUME Unanswered'
               PROVE  /\ flow'["server"].state \notin {"Established", "SynSent"}
                      /\ flow'["server"].rx.ring = <<>>
                      /\ recvd'["server"] = <<>>
                      /\ flow'["client"].callback # "up"
                      /\ \A p \in BagToSet(net') :
                           p.hdr.flags \notin {"ACK", "DATA"}
    BY Zenon DEF Quiet
  <2>1. Unanswered
    BY <1>5, <1>7, Zenon DEF Unanswered
  <2>2. /\ flow["server"].state \notin {"Established", "SynSent"}
        /\ flow["server"].rx.ring = <<>> /\ recvd["server"] = <<>>
        /\ flow["client"].callback # "up"
        /\ \A p \in BagToSet(net) : p.hdr.flags \notin {"ACK", "DATA"}
    BY <2>1, Zenon DEF SenderInv, Quiet
  <2>3. P = "server"
    BY <1>1, <1>2, <1>7, <2>2, Zenon
  <2> QED
    BY <1>2, <1>4, <1>5, <1>7, <2>2, <2>3, Zenon
<1>9. NoReset'
  <2>1. NoReset
    BY Zenon DEF SenderInv
  <2> QED
    BY <1>2, <1>5, <2>1, Zenon DEF NoReset
<1>10. flow'["server"].state # "SynSent"
  BY <1>5, <1>7, Zenon DEF SenderInv
<1> QED
  BY <1>6, <1>8, <1>9, <1>10, Zenon DEF SenderInv

\* The invariant of the senders holds initially,
LEMMA InitSender == Init => SenderInv
<1> SUFFICES ASSUME Init
             PROVE  SenderInv
  BY Zenon
<1> DEFINE f == InitFlow
<1>1. Fields(f, "Closed", InitPcb, InitTx, InitRx, "absent", "none", "none", <<>>)
  BY Zenon DEF InitFlow, Fields
<1>2. Len(InitTx.chain) <= Len(<<>>) /\ InitRx.ring = <<>>
  BY DEF InitTx, InitRx
<1> HIDE DEF f
<1>3. \A e \in Ends : flow[e] = f /\ stream[e] = <<>> /\ recvd[e] = <<>>
  BY Zenon DEF Init, f
<1>4. BagToSet(net) = {} /\ reopened = {}
  BY Zenon DEF Init, EmptyBag, BagToSet
<1>5. "client" \in Ends /\ "server" \in Ends
  BY Zenon DEF Ends
<1>6. ASSUME NEW e \in Ends
      PROVE  /\ SenderOK(e) /\ Fresh(flow[e])
             /\ Len(flow[e].tx.chain) <= Len(stream[e])
  BY <1>1, <1>2, <1>3, Zenon DEF SenderOK, Numbered, Fresh, Fields
<1>7. Quiet
  BY <1>1, <1>2, <1>3, <1>4, <1>5, Zenon DEF Quiet, Fields
<1>8. NoReset
  BY <1>1, <1>3, <1>4, Zenon DEF NoReset, Fields
<1>9. flow["server"].state # "SynSent"
  BY <1>1, <1>3, <1>5, Zenon DEF Fields
<1> QED
  BY <1>6, <1>7, <1>8, <1>9, Zenon DEF SenderInv

\* and every step keeps it.
LEMMA NextSender == Inv /\ SenderInv /\ [Next]_vars => SenderInv'
<1> SUFFICES ASSUME Inv, SenderInv, [Next]_vars
             PROVE  SenderInv'
  BY Zenon
<1>1. CASE UNCHANGED vars
  BY <1>1, Zenon
  DEF vars, SenderInv, SenderOK, Fresh, Quiet, Unanswered, NoReset, Numbered,
      Outstanding, InFlight, SynPending
<1>2. CASE Next
  <2>1. PICK e \in Ends :
          \/ InitiateHandshake(e)
          \/ \E p \in BagToSet(net), again, ok \in BOOLEAN :
               InputPacket(e, p, again, ok)
          \/ \E ok \in BOOLEAN : OutputMessage(e, ok)
          \/ PeriodicCheck(e)
          \/ ShutDown(e)
          \/ AppRecv(e)
    BY <1>2, Zenon DEF Next
  <2> QED
    BY <2>1, InitiateHandshakeSender, InputPacketSender, OutputMessageSender,
       PeriodicCheckSender, ShutDownSender, AppRecvSender, Zenon
<1> QED
  BY <1>1, <1>2, Zenon

\* The invariant of the senders holds in every reachable state, whatever the
\* network does and also when flows are opened a second time.
THEOREM SenderInvariance == Spec => []SenderInv
<1>1. Init => Inv /\ SenderInv
  BY InitInv, InitSender, Zenon
<1>2. (Inv /\ SenderInv) /\ [Next]_vars => (Inv /\ SenderInv)'
  BY NextInv, NextSender, Zenon
<1> QED
  BY <1>1, <1>2, PTL DEF Spec

\* TXTracking's counters and pointers describe its chain, and for a flow that
\* was not opened twice the sent part of the chain is what lies between snd_una
\* and snd_nxt: TransmitPackets, process_ack, both kinds of retransmission and
\* the handshake move the two together, at any place of the sequence space.
THEOREM TxStaysConsistent == Spec => []TxConsistent
<1>1. Inv /\ SenderInv => TxConsistent
  <2> SUFFICES ASSUME Inv, SenderInv, NEW e \in Ends
               PROVE  /\ flow[e].tx.num_tracked = Len(flow[e].tx.chain)
                      /\ flow[e].tx.num_unsent = NumUnsentInChain(flow[e].tx)
                      /\ flow[e].state # "Closed" /\ e \notin reopened =>
                           Wrap(flow[e].pcb.snd_nxt - flow[e].pcb.snd_una)
                             = Len(flow[e].tx.chain) - flow[e].tx.num_unsent
                               + SynPending(flow[e])
    BY Zenon DEF TxConsistent, SynPending
  <2>1. Good(flow[e]) /\ SenderOK(e)
    BY SenderFacts, Zenon
  <2>2. /\ TxOK(flow[e].tx) /\ flow[e].tx.num_unsent \in Nat
        /\ Len(flow[e].tx.chain) \in Nat
    BY <2>1, SMTT(20) DEF Good, FlowFieldsOK, TxType
  <2>3. flow[e].tx.num_unsent = NumUnsentInChain(flow[e].tx)
    BY <2>2, SMTT(20) DEF TxOK, NumUnsentInChain
  <2>4. flow[e].state # "Closed" /\ e \notin reopened =>
          Outstanding(flow[e]) = InFlight(flow[e]) + SynPending(flow[e])
    BY <2>1, Zenon DEF SenderOK, Numbered
  <2> QED
    BY <2>2, <2>3, <2>4, Zenon DEF TxOK, Outstanding, InFlight
<1> QED
  BY <1>1, Invariance, SenderInvariance, PTL

\* Where no channel goes away, no ACK that process_ack accepts covers a buffer
\* that was not sent: the assertions of ReceiveAcks hold ("Releasing an unsent
\* msgbuf!", flow.h:57). (A reset can close a flow ahead of an ACK that the
\* handshake of the flow still needs.)
THEOREM AcksCoverSent ==
  ASSUME MaxShutDowns = 0
  PROVE  Spec => []NeverOverAcked
<1>1. SenderInv => NeverOverAcked
  <2> SUFFICES ASSUME SenderInv, NEW e \in Ends, e \notin reopened,
                      flow[e].fault = "over_ack"
               PROVE  FALSE
    BY Zenon DEF NeverOverAcked
  <2>1. flow[e].state = "Closed"
    BY Zenon DEF SenderInv, SenderOK
  <2>2. flow[e].life = "absent"
    BY <2>1, Zenon DEF SenderInv, NoReset
  <2> QED
    BY <2>2, Zenon DEF SenderInv, Fresh
<1> QED
  BY <1>1, SenderInvariance, PTL

-----------------------------------------------------------------------------
(* The steps of the two ends.                                               *)

\* What a step may do to the messages of the two applications: hand over more,
\* or submit one.
Progress ==
  \/ sent' = sent /\ \A x \in Ends : Len(Delivered(x)') >= Len(Delivered(x))
  \/ \E e \in Ends : /\ sent[e] < Len(Workload(e))
                     /\ sent' = [sent EXCEPT ![e] = sent[e] + 1]
                     /\ \A x \in Ends : Delivered(x)' = Delivered(x)

\* What the invariant says of the receiving side rx of e, whose peer has the
\* stream st.
HandedTo(e, st, rx) ==
  DeliveryFields(rx) /\ Handed(Peer(e), st, Len(rx.accepted), recvd[e], rx)

\* What the invariants say of one receiver.
LEMMA ReceiverFacts ==
  ASSUME Inv, DeliveryInv, NEW e \in Ends
  PROVE  /\ stream[e] \in Seq(BufType) /\ sent[e] \in Nat
         /\ Laid(e, stream[e], sent[e]) /\ sent[e] <= Len(Workload(e))
         /\ reopened = {} =>
              /\ HandedTo(e, stream[Peer(e)], flow[e].rx)
              /\ recvd[e] \in Seq(Seq(BufType))
              /\ flow[e].rx.ring \in Seq(Seq(BufType))
              /\ Delivered(e) \in Seq(Seq(BufType))
<1>1. stream[e] \in Seq(BufType) /\ sent[e] \in Nat
  BY Zenon DEF Inv, TypeOK
<1>2. Laid(e, stream[e], sent[e])
  BY Zenon DEF DeliveryInv
<1>3. sent[e] <= Len(Workload(e))
  BY <1>2, Zenon DEF Laid
<1>4. ASSUME reopened = {}
      PROVE  /\ HandedTo(e, stream[Peer(e)], flow[e].rx)
             /\ recvd[e] \in Seq(Seq(BufType))
             /\ flow[e].rx.ring \in Seq(Seq(BufType))
  <2>1. HandedTo(e, stream[Peer(e)], flow[e].rx)
    BY <1>4, Zenon DEF DeliveryInv, HandedTo
  <2> QED
    BY <1>4, <2>1, Zenon DEF DeliveryInv, HandedTo, DeliveryFields
<1>5. reopened = {} => Delivered(e) \in Seq(Seq(BufType))
  <2>1. PICK S : S = Seq(BufType)
    BY Zenon
  <2> QED
    BY <1>4, <2>1 DEF Delivered
<1> QED
  BY <1>1, <1>2, <1>3, <1>4, <1>5, Zenon

\* End e takes a step that leaves what its peer was handed alone.
LEMMA DeliveryStep ==
  ASSUME Inv, DeliveryInv, NEW e \in Ends, NEW f, FlowShape(f), NEW in_flight,
         Step(e, f, in_flight), recvd' = recvd, reopened \subseteq reopened',
         \A x \in Ends : Laid(x, stream'[x], sent'[x]),
         reopened' = {} =>
           /\ HandedTo(e, stream'[Peer(e)], f.rx)
           /\ HandedTo(Peer(e), stream'[e], flow[Peer(e)].rx)
           /\ Len(f.rx.ring) >= Len(flow[e].rx.ring)
  PROVE  /\ DeliveryInv'
         /\ reopened' = {} =>
              /\ \A x \in Ends : Len(Delivered(x)') >= Len(Delivered(x))
              /\ f.rx = flow[e].rx =>
                   \A x \in Ends : Delivered(x)' = Delivered(x)
<1> DEFINE P == Peer(e)
           h == [f EXCEPT !.out = <<>>]
<1>1. P \in Ends /\ Peer(P) = e /\ P # e /\ \A x \in Ends : x = e \/ x = P
  BY PeerFacts, Zenon
<1>2. h.rx = f.rx
  BY WithOut, Zenon DEF Fields
<1>3. flow'[e] = h /\ flow'[P] = flow[P]
  BY <1>1, Zenon DEF Step, Inv
<1> HIDE DEF h, P
<1>4. ASSUME reopened' = {}
      PROVE  /\ recvd' \in [Ends -> Seq(Seq(BufType))]
             /\ \A x \in Ends : HandedTo(x, stream'[Peer(x)], flow'[x].rx)
  <2>1. recvd' \in [Ends -> Seq(Seq(BufType))]
    BY <1>4, Zenon DEF DeliveryInv
  <2> QED
    BY <1>1, <1>2, <1>3, <1>4, <2>1, Zenon DEF P
<1>5. DeliveryInv'
  BY <1>4, Zenon DEF DeliveryInv, HandedTo
<1>6. ASSUME reopened' = {}, NEW x \in Ends
      PROVE  /\ Len(Delivered(x)') >= Len(Delivered(x))
             /\ f.rx = flow[e].rx => Delivered(x)' = Delivered(x)
  <2> DEFINE ring == flow[x].rx.ring
             new == flow'[x].rx.ring
  <2>1. reopened = {}
    BY <1>6, Zenon
  <2>2. PICK S : S = Seq(BufType)
    BY Zenon
  <2>3. recvd[x] \in Seq(S) /\ ring \in Seq(S) /\ new \in Seq(S)
    <3>1. DeliveryFields(flow'[x].rx)
      BY <1>4, <1>6, Zenon DEF HandedTo
    <3>2. recvd[x] \in Seq(Seq(BufType)) /\ ring \in Seq(Seq(BufType))
      BY <2>1, ReceiverFacts, Zenon
    <3> QED
      BY <2>2, <3>1, <3>2, Zenon DEF DeliveryFields
  <2>4. Len(new) >= Len(ring) /\ (f.rx = flow[e].rx => new = ring)
    <3>1. CASE x = e
      BY <1>2, <1>3, <1>6, <3>1, Zenon
    <3>2. CASE x = P
      BY <1>3, <2>3, <3>2
    <3> QED
      BY <1>1, <3>1, <3>2, Zenon
  <2>5. Delivered(x) = recvd[x] \o ring /\ Delivered(x)' = recvd[x] \o new
    BY Zenon DEF Delivered
  <2> HIDE DEF ring, new
  <2>6. Len(recvd[x] \o ring) = Len(recvd[x]) + Len(ring)
        /\ Len(recvd[x] \o new) = Len(recvd[x]) + Len(new)
        /\ Len(recvd[x]) \in Nat /\ Len(ring) \in Nat /\ Len(new) \in Nat
    BY <2>3
  <2>7. Len(recvd[x] \o new) >= Len(recvd[x] \o ring)
    BY <2>4, <2>6
  <2> QED
    BY <2>4, <2>5, <2>7, Zenon
<1> QED
  BY <1>5, <1>6, Zenon

\* The handlers that leave what was received alone.
LEMMA QuietDelivery ==
  ASSUME Inv, DeliveryInv, NEW e \in Ends, NEW f, FlowShape(f), NEW in_flight,
         Step(e, f, in_flight), UNCHANGED <<recvd, sent, stream>>,
         reopened \subseteq reopened', f.rx = flow[e].rx
  PROVE  DeliveryInv' /\ (reopened' = {} => Progress)
<1> DEFINE P == Peer(e)
<1>1. P \in Ends /\ Peer(P) = e
  BY PeerFacts, Zenon
<1>2. \A x \in Ends : Laid(x, stream'[x], sent'[x])
  BY Zenon DEF DeliveryInv
<1>3. ASSUME reopened' = {}
      PROVE  /\ HandedTo(e, stream'[Peer(e)], f.rx)
             /\ HandedTo(P, stream'[e], flow[P].rx)
             /\ Len(f.rx.ring) >= Len(flow[e].rx.ring)
  <2>1. reopened = {}
    BY <1>3, Zenon
  <2>2. HandedTo(e, stream[P], flow[e].rx) /\ HandedTo(P, stream[e], flow[P].rx)
    BY <1>1, <2>1, ReceiverFacts, Zenon
  <2>3. Len(flow[e].rx.ring) \in Nat
    BY <2>2 DEF HandedTo, DeliveryFields
  <2> QED
    BY <2>2, <2>3
<1>4. /\ DeliveryInv'
      /\ reopened' = {} => \A x \in Ends : Len(Delivered(x)') >= Len(Delivered(x))
  BY <1>2, <1>3, DeliveryStep, Zenon
<1> QED
  BY <1>4, Zenon DEF Progress

\* A connect keeps the invariant.
LEMMA InitiateHandshakeDelivery ==
  ASSUME Inv, SenderInv, DeliveryInv, NEW e \in Ends, InitiateHandshake(e)
  PROVE  DeliveryInv' /\ (reopened' = {} => Progress)
<1> DEFINE f == flow[e]
           p == [f EXCEPT !.life = "live", !.state = "SynSent",
                          !.pcb = rto_reset(advance_snd_nxt(@, 1))]
           g == SendSyn(p, f.pcb.snd_nxt)
<1>1. Good(f) /\ Fresh(f)
  BY SenderFacts, Zenon
<1>2. /\ Step(e, g, net) /\ f.life = "absent"
      /\ UNCHANGED <<recvd, sent, stream>> /\ reopened' = reopened
  BY Zenon DEF InitiateHandshake
<1>3. f.pcb = InitPcb /\ f.tx = InitTx
  BY <1>1, <1>2, Zenon DEF Fresh
<1>4. Good(g)
  BY <1>1, <1>2, AnyContext, ConnectOK, Zenon
<1>5. g.rx = f.rx
  BY <1>1, <1>3, ConnectSender, Zenon
<1> HIDE DEF g
<1> QED
  BY <1>2, <1>4, <1>5, QuietDelivery, Zenon DEF Good

\* A slow-timer tick keeps the invariant.
LEMMA PeriodicCheckDelivery ==
  ASSUME Inv, DeliveryInv, NEW e \in Ends, PeriodicCheck(e)
  PROVE  DeliveryInv' /\ (reopened' = {} => Progress)
<1> DEFINE f == flow[e]
           g == Tick(f)
<1>1. Good(f) /\ f.life = "live"
  BY EndFacts, Zenon DEF PeriodicCheck, Running
<1>2. /\ Step(e, g, net)
      /\ UNCHANGED <<recvd, sent, stream>> /\ reopened' = reopened
  BY Zenon DEF PeriodicCheck
<1>3. Good(g)
  BY <1>1, AnyContext, TickOK, Zenon
<1>4. g.rx = f.rx
  BY <1>1, TickSender, Zenon
<1> HIDE DEF g
<1> QED
  BY <1>2, <1>3, <1>4, QuietDelivery, Zenon DEF Good

\* The removal of a channel keeps the invariant.
LEMMA ShutDownDelivery ==
  ASSUME Inv, DeliveryInv, NEW e \in Ends, ShutDown(e)
  PROVE  DeliveryInv' /\ (reopened' = {} => Progress)
<1> DEFINE f == flow[e]
           g == Shut(f)
<1>1. Good(f) /\ f.life = "live"
  BY EndFacts, Zenon DEF ShutDown, Running
<1>2. /\ Step(e, g, net)
      /\ UNCHANGED <<recvd, sent, stream>> /\ reopened' = reopened
  BY Zenon DEF ShutDown
<1>3. Good(g)
  BY <1>1, AnyContext, ShutOK, Zenon
<1>4. g.rx = f.rx
  BY <1>1, ShutSender, Zenon
<1> HIDE DEF g
<1> QED
  BY <1>2, <1>3, <1>4, QuietDelivery, Zenon DEF Good

\* Of the packets only data reaches the receiving side, through Consume.
LEMMA HandlePacketRx ==
  ASSUME NEW f, Good(f), Roomy(f), NEW h \in HdrType, NEW ok \in BOOLEAN
  PROVE  \/ HandlePacket(f, h, ok).rx = f.rx
         \/ /\ h.seqno \in 0..(Modulus - 1) /\ h.buf \in BufType
            /\ HandlePacket(f, h, ok).rx
                 = Consume(f.pcb, f.rx, h.seqno, h.buf, ok).rx
<1>1. CASE h.flags \notin {"ACK", "DATA"}
  BY <1>1, HandlePacketTakes, Zenon DEF Hushed
<1>2. CASE h.flags = "ACK"
  <2>1. /\ HandlePacket(f, h, ok) = process_ack(f, h, ok)
        /\ h.ackno \in 0..(Modulus - 1) /\ h.count \in 0..255
    BY <1>2, Zenon DEF HandlePacket, HdrType
  <2> QED
    BY <1>2, <2>1, ProcessAckTakes
<1>3. CASE h.flags = "DATA"
  <2> DEFINE c == Consume(f.pcb, f.rx, h.seqno, h.buf, ok)
             fault == IF c.rx.fatal THEN "ring_full" ELSE f.fault
             g == [f EXCEPT !.pcb = c.pcb, !.rx = c.rx, !.fault = fault]
             k == SendAck(g)
  <2>1. /\ HandlePacket(f, h, ok) = InputData(f, h, ok)
        /\ h.seqno \in 0..(Modulus - 1) /\ h.buf \in BufType
    BY <1>3, Zenon DEF HandlePacket, HdrType
  <2>2. InputData(f, h, ok) \in {f, g, k}
    BY Zenon DEF InputData
  <2>3. g.rx = c.rx /\ k.rx = c.rx
    <3> HIDE DEF c, fault
    <3>1. Fields(g, f.state, c.pcb, f.tx, c.rx, f.life, f.callback, fault, f.out)
      BY Zenon DEF Good, FlowShape, Fields
    <3> HIDE DEF g
    <3>2. k.rx = g.rx
      BY <3>1, Zenon DEF SendAck, SendControlPacket, Fields
    <3> QED
      BY <3>1, <3>2, Zenon DEF Fields
  <2> HIDE DEF g, k
  <2> QED
    BY <2>1, <2>2, <2>3, Zenon
<1> QED
  BY <1>1, <1>2, <1>3, Zenon

\* A packet keeps the invariant.
LEMMA InputPacketDelivery ==
  ASSUME Inv, SenderInv, DeliveryInv, NEW e \in Ends, NEW p \in BagToSet(net),
         NEW again \in BOOLEAN, NEW ok \in BOOLEAN, InputPacket(e, p, again, ok)
  PROVE  DeliveryInv' /\ (reopened' = {} => Progress)
<1> DEFINE P == Peer(e)
           f == [flow[e] EXCEPT !.life = "live"]
           g == HandlePacket(f, p.hdr, ok)
           in_flight == IF again THEN net ELSE RemoveOne(net, p)
           st == stream[P]
<1>1. P \in Ends /\ Peer(P) = e
  BY PeerFacts, Zenon
<1>2. /\ Good(flow[e]) /\ Roomy(flow[e]) /\ flow[e].life \in {"live", "absent"}
      /\ p.hdr \in HdrType /\ Context(<<>>, <<>>, 0)
  BY SenderFacts, ContextOK, Zenon DEF InputPacket, Running, Inv, TypeOK
<1>3. /\ Step(e, g, in_flight) /\ UNCHANGED <<recvd, sent, stream>>
      /\ reopened \subseteq reopened'
  BY Zenon DEF InputPacket
<1>4. Inv'
  BY InputPacketStep, Zenon
<1> HIDE DEF in_flight
<1>5. Fields(f, flow[e].state, flow[e].pcb, flow[e].tx, flow[e].rx, "live",
             flow[e].callback, flow[e].fault, flow[e].out)
  BY <1>2, Zenon DEF Good, FlowShape, Fields
<1> HIDE DEF f
<1>6. Good(f) /\ Roomy(f)
  <2>1. FlowShape(f)
    BY <1>2, <1>5, Zenon DEF Good, FlowShape, Fields
  <2>2. FlowFieldsOK(f)
    BY <1>2, <1>5, Zenon DEF Good, FlowFieldsOK, Fields
  <2> QED
    BY <1>2, <1>5, <2>1, <2>2, Zenon DEF Good, TimerOK, Fields, Roomy
<1>7. Good(g)
  BY <1>2, <1>6, HandlePacketOK, Zenon
<1>8. CASE g.rx = f.rx
  <2>1. g.rx = flow[e].rx
    BY <1>5, <1>8, Zenon DEF Fields
  <2> HIDE DEF g
  <2> QED
    BY <1>3, <1>7, <2>1, QuietDelivery, Zenon DEF Good
<1>9. ASSUME p.hdr.seqno \in 0..(Modulus - 1), p.hdr.buf \in BufType,
             g.rx = Consume(f.pcb, f.rx, p.hdr.seqno, p.hdr.buf, ok).rx
      PROVE  DeliveryInv' /\ (reopened' = {} => Progress)
  <2> DEFINE rx == flow[e].rx
             pcb == flow[e].pcb
             s == p.hdr.seqno
             buf == p.hdr.buf
  <2>1. g.rx = Consume(pcb, rx, s, buf, ok).rx
    BY <1>5, <1>9, SMTT(20) DEF Fields
  <2>2. /\ pcb \in PcbType /\ rx.reass_q \in Seq(EntryType)
        /\ rx.accepted \in Seq(BufType)
        /\ RxFields(rx, rx.reass_q, rx.train, rx.ring, rx.fatal, rx.accepted)
    BY <1>2, SMTT(20) DEF Good, FlowFieldsOK, FlowShape, EntryType
  <2> HIDE DEF g
  <2>3. ASSUME reopened' = {}
        PROVE  /\ HandedTo(e, stream'[P], g.rx)
               /\ HandedTo(P, stream'[e], flow[P].rx)
               /\ Len(g.rx.ring) >= Len(rx.ring)
    <3>1. reopened = {}
      BY <1>3, <2>3, Zenon
    <3>2. /\ st \in Seq(BufType) /\ sent[P] \in Nat /\ Laid(P, st, sent[P])
          /\ DeliveryFields(rx) /\ Handed(P, st, Len(rx.accepted), recvd[e], rx)
          /\ recvd[e] \in Seq(Seq(BufType))
          /\ HandedTo(P, stream[e], flow[P].rx)
      BY <1>1, <3>1, ReceiverFacts, Zenon DEF HandedTo
    <3>3. RcvOK(g.rx, st)
      <4>1. flow'[e].rx = g.rx
        <5>1. flow'[e] = [g EXCEPT !.out = <<>>]
          BY <1>3, Zenon DEF Step, Inv
        <5> QED
          BY <1>7, <5>1, WithOut, Zenon DEF Good, Fields
      <4>2. RcvOK(flow'[e].rx, stream'[Peer(e)])
        BY <1>4, <2>3, Zenon DEF Inv, StreamInv, EndOK
      <4> QED
        BY <1>3, <4>1, <4>2, Zenon
    <3> HIDE DEF rx, st, pcb, s, buf, P
    <3>4. RcvOK(Consume(pcb, rx, s, buf, ok).rx, st)
      BY <2>1, <3>3, Zenon
    <3>5. s \in 0..(Modulus - 1) /\ buf \in BufType
      BY <1>9, Zenon DEF s, buf
    <3>6. LET r == Consume(pcb, rx, s, buf, ok).rx
          IN  /\ DeliveryFields(r) /\ Handed(P, st, Len(r.accepted), recvd[e], r)
              /\ Len(r.ring) >= Len(rx.ring)
      BY <1>1, <2>2, <3>2, <3>4, <3>5, ConsumeHands, ZenonT(60)
    <3> QED
      BY <1>3, <2>1, <3>2, <3>6, Zenon DEF HandedTo, st, P
  <2>4. \A x \in Ends : Laid(x, stream'[x], sent'[x])
    BY <1>3, Zenon DEF DeliveryInv
  <2>5. /\ DeliveryInv'
        /\ reopened' = {} => \A x \in Ends : Len(Delivered(x)') >= Len(Delivered(x))
    BY <1>3, <1>7, <2>3, <2>4, DeliveryStep, Zenon DEF Good
  <2> QED
    BY <1>3, <2>5, Zenon DEF Progress
<1> QED
  BY <1>2, <1>6, <1>8, <1>9, HandlePacketRx, Zenon

\* A submission keeps the invariant.
LEMMA OutputMessageDelivery ==
  ASSUME Inv, SenderInv, DeliveryInv, NEW e \in Ends, NEW ok \in BOOLEAN,
         OutputMessage(e, ok)
  PROVE  DeliveryInv' /\ (reopened' = {} => Progress)
<1> DEFINE P == Peer(e)
           n == sent[e]
           m == Message(e, n + 1)
           st == stream[e]
           f == [flow[e] EXCEPT !.tx = TxAppend(@, m)]
           g == TransmitPackets(f, ok)
<1>1. P \in Ends /\ Peer(P) = e /\ P # e /\ \A x \in Ends : x = e \/ x = P
  BY PeerFacts, Zenon
<1>2. /\ Step(e, g, net) /\ recvd' = recvd /\ reopened' = reopened
      /\ stream' = [stream EXCEPT ![e] = st \o m]
      /\ sent' = [sent EXCEPT ![e] = n + 1]
      /\ n < Len(Workload(e))
      /\ Len(st) + Workload(e)[n + 1] + 1 < Modulus \div 2
  BY Zenon DEF OutputMessage, SeqnosLeft
<1>3. /\ Good(flow[e]) /\ Len(flow[e].tx.chain) <= Len(st)
      /\ Len(flow[e].tx.chain) \in Nat /\ Len(st) \in Nat
      /\ flow[e].life = "live" /\ Context(<<>>, <<>>, 0)
  BY SenderFacts, ContextOK, Zenon DEF OutputMessage, Running
<1>4. /\ st \in Seq(BufType) /\ n \in Nat /\ Laid(e, st, n)
      /\ reopened = {} => HandedTo(e, stream[P], flow[e].rx)
                          /\ HandedTo(P, st, flow[P].rx)
  BY <1>1, ReceiverFacts, Zenon
<1>5. /\ m \in Seq(BufType) /\ Len(m) = Workload(e)[n + 1] /\ Len(m) > 0
      /\ Len(m) \in Nat
  BY <1>2, <1>4, MessageOK
<1>6. Laid(e, st \o m, n + 1)
  BY <1>2, <1>4, LaidGrows, Zenon
<1> HIDE DEF m, n
<1>7. Good(f)
  BY <1>3, <1>5, SubmitOK, Zenon
<1>8. Good(g)
  BY <1>3, <1>7, TransmitPacketsOK, Zenon
<1>9. g.rx = flow[e].rx
  <2>1. Len(flow[e].tx.chain) + Len(m) + 1 < Modulus \div 2
    <3>1. \A c, l, k, half \in Nat : c <= l /\ l + k + 1 < half => c + k + 1 < half
      OBVIOUS
    <3>2. Len(st) + Len(m) + 1 < Modulus \div 2 /\ Modulus \div 2 \in Nat
      BY <1>2, <1>5, HalfModulus, Zenon
    <3> QED
      BY ONLY <1>3, <1>5, <3>1, <3>2, Zenon
  <2> QED
    BY <1>3, <1>5, <2>1, SubmitSender, Zenon
<1> HIDE DEF g, f, st, P
<1>10. /\ stream'[e] = st \o m /\ stream'[P] = stream[P]
       /\ sent'[e] = n + 1 /\ sent'[P] = sent[P]
  BY <1>1, <1>2, Zenon DEF Inv, TypeOK
<1>11. ASSUME NEW x \in Ends
       PROVE  Laid(x, stream'[x], sent'[x])
  <2>1. Laid(P, stream[P], sent[P])
    BY <1>1, Zenon DEF DeliveryInv
  <2> QED
    BY <1>1, <1>6, <1>10, <2>1, Zenon
<1>12. ASSUME reopened' = {}
       PROVE  /\ HandedTo(e, stream'[P], g.rx)
              /\ HandedTo(P, stream'[e], flow[P].rx)
              /\ Len(g.rx.ring) >= Len(flow[e].rx.ring)
  <2>1. HandedTo(e, stream[P], flow[e].rx) /\ HandedTo(P, st, flow[P].rx)
    BY <1>2, <1>4, <1>12, Zenon
  <2>2. flow[P].rx.accepted \in Seq(BufType)
        /\ Len(flow[P].rx.accepted) <= Len(st)
    <3>1. RcvOK(flow[P].rx, stream[e])
      BY <1>1, <1>2, <1>12, Zenon DEF Inv, StreamInv, EndOK
    <3> QED
      BY <1>1, <3>1, Zenon DEF Inv, TypeOK, FlowFieldsOK, RcvOK, st
  <2>3. HandedTo(P, st \o m, flow[P].rx)
    BY <1>1, <1>4, <1>5, <2>1, <2>2, HandedGrows, Zenon DEF HandedTo
  <2>4. Len(flow[e].rx.ring) \in Nat
    BY <2>1 DEF HandedTo, DeliveryFields
  <2> QED
    BY <1>9, <1>10, <2>1, <2>3, <2>4
<1>13. /\ DeliveryInv'
       /\ reopened' = {} => \A x \in Ends : Delivered(x)' = Delivered(x)
  <2>1. reopened \subseteq reopened' /\ FlowShape(g)
    BY <1>2, <1>8, Zenon DEF Good
  <2> QED
    BY <1>2, <1>9, <1>11, <1>12, <2>1, DeliveryStep, ZenonT(30) DEF P
<1> QED
  BY <1>2, <1>13, Zenon DEF Progress, n

\* Moving the head of t to the end of s leaves their concatenation alone.
LEMMA HeadMoves ==
  ASSUME NEW S, NEW s \in Seq(S), NEW t \in Seq(S), t # <<>>
  PROVE  /\ Append(s, Head(t)) \o Tail(t) = s \o t
         /\ Append(s, Head(t)) \in Seq(S) /\ Tail(t) \in Seq(S)
  OBVIOUS

\* A dequeue by the application keeps the invariant.
LEMMA AppRecvDelivery ==
  ASSUME Inv, DeliveryInv, NEW e \in Ends, AppRecv(e)
  PROVE  DeliveryInv' /\ (reopened' = {} => Progress)
<1> DEFINE P == Peer(e)
           f == flow[e]
           rx == [f.rx EXCEPT !.ring = Tail(@)]
           h == [f EXCEPT !.rx = rx]
           rc == Append(recvd[e], Head(f.rx.ring))
<1>1. P \in Ends /\ Peer(P) = e /\ P # e /\ \A x \in Ends : x = e \/ x = P
  BY PeerFacts, Zenon
<1>2. /\ f.rx.ring # <<>>
      /\ flow' = [flow EXCEPT ![e] = h]
      /\ UNCHANGED <<sent, stream, reopened>>
      /\ recvd' = [recvd EXCEPT ![e] = rc]
  <2>1. flow' = [flow EXCEPT ![e].rx.ring = Tail(@)]
    BY Zenon DEF AppRecv
  <2>2. flow' = [flow EXCEPT ![e] = h]
    BY <2>1, Zenon
  <2> QED
    BY <2>2, Zenon DEF AppRecv
<1>3. RxFields(rx, f.rx.reass_q, f.rx.train, Tail(f.rx.ring), f.rx.fatal,
               f.rx.accepted)
  BY Zenon DEF Inv, FlowShape, RxFields
<1> HIDE DEF rx
<1>4. h.rx = rx
  BY Zenon DEF Inv, FlowShape, Fields
<1> HIDE DEF h
<1>5. /\ flow'[e] = h /\ flow'[P] = flow[P]
      /\ recvd'[e] = rc /\ recvd'[P] = recvd[P]
  BY <1>1, <1>2, Zenon DEF Inv
<1>6. \A x \in Ends : Laid(x, stream'[x], sent'[x])
  BY <1>2, Zenon DEF DeliveryInv
<1>7. ASSUME reopened' = {}
      PROVE  /\ recvd' \in [Ends -> Seq(Seq(BufType))]
             /\ \A x \in Ends :
                  /\ DeliveryFields(flow'[x].rx)
                  /\ Handed(Peer(x), stream'[Peer(x)], Len(flow'[x].rx.accepted),
                            recvd'[x], flow'[x].rx)
             /\ Progress
  <2>1. reopened = {} /\ recvd \in [Ends -> Seq(Seq(BufType))]
    BY <1>2, <1>7, Zenon DEF DeliveryInv
  <2>2. /\ HandedTo(e, stream[P], f.rx) /\ HandedTo(P, stream[e], flow[P].rx)
        /\ recvd[e] \in Seq(Seq(BufType)) /\ f.rx.ring \in Seq(Seq(BufType))
        /\ Delivered(e) \in Seq(Seq(BufType)) /\ Delivered(P) \in Seq(Seq(BufType))
    BY <1>1, <2>1, ReceiverFacts, SMTT(20)
  <2> HIDE DEF f, rc, P
  <2>3. /\ rc \o Tail(f.rx.ring) = recvd[e] \o f.rx.ring
        /\ rc \in Seq(Seq(BufType)) /\ Tail(f.rx.ring) \in Seq(Seq(BufType))
    <3>1. PICK S : S = Seq(BufType)
      BY Zenon
    <3>2. recvd[e] \in Seq(S) /\ f.rx.ring \in Seq(S)
      BY <2>2, <3>1, Zenon
    <3>3. /\ rc \o Tail(f.rx.ring) = recvd[e] \o f.rx.ring
          /\ rc \in Seq(S) /\ Tail(f.rx.ring) \in Seq(S)
      BY ONLY <1>2, <3>2, HeadMoves, Zenon DEF rc
    <3> QED
      BY <3>1, <3>3, Zenon
  <2>4. recvd' \in [Ends -> Seq(Seq(BufType))]
    BY <1>2, <2>1, <2>3, Zenon
  <2>5. DeliveryFields(rx)
    BY <1>3, <2>2, <2>3, Zenon DEF HandedTo, DeliveryFields, RxFields
  <2>6. Handed(P, stream[P], Len(rx.accepted), rc, rx)
    <3>1. Handed(P, stream[P], Len(f.rx.accepted), recvd[e], f.rx)
      BY <2>2, Zenon DEF HandedTo, P
    <3>2. /\ rx.accepted = f.rx.accepted /\ rx.train = f.rx.train
          /\ rx.fatal = f.rx.fatal /\ rx.ring = Tail(f.rx.ring)
      BY <1>3, Zenon DEF RxFields
    <3> QED
      BY <2>3, <3>1, <3>2, Zenon DEF Handed
  <2>7. ASSUME NEW x \in Ends
        PROVE  /\ DeliveryFields(flow'[x].rx)
               /\ Handed(Peer(x), stream'[Peer(x)], Len(flow'[x].rx.accepted),
                         recvd'[x], flow'[x].rx)
    <3>1. CASE x = e
      BY <1>2, <1>4, <1>5, <2>5, <2>6, <3>1, SMTT(20) DEF P
    <3>2. CASE x = P
      BY <1>1, <1>2, <1>5, <2>2, <3>2, Zenon DEF HandedTo
    <3> QED
      BY <1>1, <3>1, <3>2, Zenon
  <2>8. ASSUME NEW x \in Ends
        PROVE  Len(Delivered(x)') >= Len(Delivered(x))
    <3>1. Delivered(x)' = Delivered(x)
      <4>1. CASE x = e
        <5>1. rx.ring = Tail(f.rx.ring)
          BY <1>3, Zenon DEF RxFields
        <5> QED
          BY <1>4, <1>5, <2>3, <4>1, <5>1, Zenon DEF Delivered, f
      <4>2. CASE x = P
        BY <1>5, <4>2, Zenon DEF Delivered
      <4> QED
        BY <1>1, <4>1, <4>2, Zenon
    <3>2. Len(Delivered(x)) \in Nat
      <4>1. Delivered(x) \in Seq(Seq(BufType))
        BY <1>1, <2>2, Zenon
      <4> QED
        BY <4>1
    <3> QED
      BY <3>1, <3>2
  <2> QED
    BY <1>2, <2>4, <2>7, <2>8, SMTT(20) DEF Progress
<1> QED
  BY <1>6, <1>7, Zenon DEF DeliveryInv

\* The invariant of the receivers holds initially,
LEMMA InitDelivery == Init => DeliveryInv
<1> SUFFICES ASSUME Init
             PROVE  DeliveryInv
  BY Zenon
<1>1. \A e \in Ends : /\ flow[e].rx = InitRx /\ stream[e] = <<>>
                      /\ recvd[e] = <<>> /\ sent[e] = 0
  BY Zenon DEF Init, InitFlow
<1>2. recvd \in [Ends -> Seq(Seq(BufType))]
  BY DEF Init
<1>3. DeliveryFields(InitRx) /\ InitRx.ring = <<>> /\ InitRx.train = <<>>
      /\ InitRx.accepted = <<>>
  BY DEF InitRx, DeliveryFields
<1>4. ASSUME NEW e \in Ends
      PROVE  Laid(e, <<>>, 0)
  <2>1. Whole(<<>>, 0) = 0 /\ Part(<<>>, 0) = 0
    BY Zenon DEF Whole, Part
  <2>2. 0 <= Len(Workload(e)) /\ Len(<<>>) = 0 /\ 0..(0 - 1) = {}
    <3>1. Len(Workload(e)) \in Nat
      BY FlowAssumption DEF FlowAssumption
    <3> QED
      BY <3>1
  <2> QED
    BY <2>1, <2>2, Zenon DEF Laid
<1>5. ASSUME NEW e \in Ends
      PROVE  Handed(e, <<>>, 0, <<>>, InitRx)
  <2>1. Whole(<<>>, 0) = 0 /\ Part(<<>>, 0) = 0 /\ 0 \in 0..0
    BY DEF Whole, Part
  <2>2. <<>> \o <<>> = [m \in 1..0 |-> Message(e, m)]
    OBVIOUS
  <2>3. <<>> = Train(e, 0 + 1, 0)
    BY DEF Train
  <2> QED
    BY <1>3, <2>1, <2>2, <2>3, Zenon DEF Handed
<1>6. ASSUME NEW e \in Ends
      PROVE  /\ Laid(e, stream[e], sent[e]) /\ DeliveryFields(flow[e].rx)
             /\ Handed(Peer(e), stream[Peer(e)], Len(flow[e].rx.accepted),
                       recvd[e], flow[e].rx)
  <2>1. Peer(e) \in Ends
    BY PeerFacts, Zenon
  <2>2. Len(<<>>) = 0
    BY Zenon
  <2> QED
    BY <1>1, <1>3, <1>4, <1>5, <2>1, <2>2, Zenon
<1> QED
  BY <1>2, <1>6, Zenon DEF DeliveryInv

\* and every step keeps it, submitting a message or handing some over.
LEMMA NextDelivery ==
  ASSUME Inv, SenderInv, DeliveryInv, [Next]_vars
  PROVE  DeliveryInv' /\ (reopened' = {} => Progress \/ UNCHANGED vars)
<1>1. CASE UNCHANGED vars
  BY <1>1, Zenon DEF vars, DeliveryInv
<1>2. CASE Next
  <2>1. PICK e \in Ends :
          \/ InitiateHandshake(e)
          \/ \E p \in BagToSet(net), again, ok \in BOOLEAN :
               InputPacket(e, p, again, ok)
          \/ \E ok \in BOOLEAN : OutputMessage(e, ok)
          \/ PeriodicCheck(e)
          \/ ShutDown(e)
          \/ AppRecv(e)
    BY <1>2, Zenon DEF Next
  <2> QED
    BY <2>1, InitiateHandshakeDelivery, InputPacketDelivery,
       OutputMessageDelivery, PeriodicCheckDelivery, ShutDownDelivery,
       AppRecvDelivery, Zenon
<1> QED
  BY <1>1, <1>2, Zenon

\* What the receivers have handed over (Deliver, PushFront and the rings) keeps
\* step with what they accepted of the streams, in every reachable state.
THEOREM DeliveryInvariance == Spec => []DeliveryInv
<1>1. Init => Inv /\ SenderInv /\ DeliveryInv
  BY InitInv, InitSender, InitDelivery, Zenon
<1>2. (Inv /\ SenderInv /\ DeliveryInv) /\ [Next]_vars
        => (Inv /\ SenderInv /\ DeliveryInv)'
  BY NextInv, NextSender, NextDelivery, Zenon
<1> QED
  BY <1>1, <1>2, PTL DEF Spec

\* The invariant of FlowInv, which the runs check, holds in every reachable
\* state: both streams, both senders and both receivers.
THEOREM WholeInvariance == Spec => []FlowInv
<1>1. Inv /\ SenderInv /\ DeliveryInv => FlowInv
  BY Zenon DEF Inv, FlowInv
<1> QED
  BY <1>1, Invariance, SenderInvariance, DeliveryInvariance, PTL

-----------------------------------------------------------------------------
(* The promise to the applications.                                         *)

\* s holds the first messages of e, of which n were submitted.
PrefixOf(e, n, s) ==
  \E k \in 0..n : /\ s = [m \in 1..k |-> Message(e, m)] /\ Len(s) = k
                  /\ n \in 0..Len(Workload(e))

\* What was handed over is a prefix of what was submitted.
LEMMA HandedIsPrefix ==
  ASSUME NEW e \in Ends, NEW st \in Seq(BufType), NEW n \in Nat, Laid(e, st, n),
         NEW a \in 0..Len(st), NEW rc, NEW d, Handed(e, st, a, rc, d)
  PROVE  PrefixOf(e, n, rc \o d.ring)
<1>1. Whole(st, a) \in 0..n
  BY WholeRange, Zenon
<1>2. PICK k \in 0..Whole(st, a) : rc \o d.ring = [m \in 1..k |-> Message(e, m)]
  BY Zenon DEF Handed
<1>3. n <= Len(Workload(e)) /\ Len(Workload(e)) \in Nat
  BY FlowAssumption DEF Laid, FlowAssumption
<1>4. k \in 0..n /\ k \in 0..Len(Workload(e))
  BY <1>1, <1>3
<1>5. Len([m \in 1..k |-> Message(e, m)]) = k
  BY <1>4, MessagesFacts, Zenon
<1> QED
  BY <1>2, <1>3, <1>4, <1>5 DEF PrefixOf

\* A prefix of messages of a longer sequence of them.
LEMMA PrefixOfMessages ==
  ASSUME NEW e \in Ends, NEW n \in 0..Len(Workload(e)), NEW k \in 0..n
  PROVE  SubSeq([m \in 1..n |-> Message(e, m)], 1, k)
           = [m \in 1..k |-> Message(e, m)]
<1> DEFINE s == [m \in 1..n |-> Message(e, m)]
           t == SubSeq(s, 1, k)
<1>1. s \in Seq(Seq(BufType)) /\ Len(s) = n
  BY MessagesFacts, Zenon
<1>2. n \in Nat /\ k \in Nat /\ k <= n
  BY FlowAssumption DEF FlowAssumption
<1>3. t = [i \in 1..k |-> s[i]]
  BY <1>1, <1>2
<1>4. \A i \in 1..k : s[i] = Message(e, i)
  BY <1>2
<1> HIDE DEF s
<1> QED
  BY <1>3, <1>4, Zenon DEF s

\* Each end has got the first messages of those that its peer submitted.
Prefixes ==
  \A e \in Ends : PrefixOf(Peer(e), sent[Peer(e)], Delivered(e))

\* The invariants say so.
LEMMA GotPrefix == Inv /\ DeliveryInv /\ reopened = {} => Prefixes
<1> SUFFICES ASSUME Inv, DeliveryInv, reopened = {}, NEW e \in Ends
             PROVE  PrefixOf(Peer(e), sent[Peer(e)], Delivered(e))
  BY Zenon DEF Prefixes
<1> DEFINE p == Peer(e)
           a == Len(flow[e].rx.accepted)
<1>1. p \in Ends
  BY PeerFacts, Zenon
<1>2. sent[p] \in Nat /\ stream[p] \in Seq(BufType) /\ sent[p] <= Len(Workload(p))
  BY <1>1, ReceiverFacts, Zenon
<1>3. Laid(p, stream[p], sent[p]) /\ Handed(p, stream[p], a, recvd[e], flow[e].rx)
  BY <1>1, Zenon DEF DeliveryInv
<1>4. a \in 0..Len(stream[p])
  <2>1. RcvOK(flow[e].rx, stream[p])
    BY Zenon DEF Inv, StreamInv, EndOK
  <2>2. flow[e].rx.accepted \in Seq(BufType) /\ a <= Len(stream[p])
    BY <2>1, Zenon DEF Inv, TypeOK, FlowFieldsOK, RcvOK
  <2> QED
    BY <1>2, <2>2
<1> HIDE DEF p, a
<1>5. PrefixOf(p, sent[p], recvd[e] \o flow[e].rx.ring)
  BY <1>1, <1>2, <1>3, <1>4, HandedIsPrefix, Zenon
<1> QED
  BY <1>5, Zenon DEF p, Delivered

\* As long as no flow was opened a second time, the messages an application
\* receives are the first ones that the other submitted, whole and in order.
THEOREM DeliveryInOrder == Spec => [](reopened = {} => InOrderDelivery)
<1>1. Inv /\ DeliveryInv => (reopened = {} => InOrderDelivery)
  <2> SUFFICES ASSUME Inv, DeliveryInv, reopened = {}, NEW e \in Ends
               PROVE  \E n \in 0..sent[Peer(e)] :
                        Delivered(e) = SubSeq(Submitted(Peer(e)), 1, n)
    BY Zenon DEF InOrderDelivery
  <2>1. Prefixes /\ Peer(e) \in Ends
    BY GotPrefix, PeerFacts, Zenon
  <2>2. PICK k \in 0..sent[Peer(e)] :
          /\ Delivered(e) = [m \in 1..k |-> Message(Peer(e), m)]
          /\ sent[Peer(e)] \in 0..Len(Workload(Peer(e)))
    BY <2>1, Zenon DEF Prefixes, PrefixOf
  <2>3. SubSeq(Submitted(Peer(e)), 1, k) = [m \in 1..k |-> Message(Peer(e), m)]
    BY <2>1, <2>2, PrefixOfMessages, Zenon DEF Submitted
  <2> QED
    BY <2>2, <2>3, Zenon
<1> QED
  BY <1>1, Invariance, DeliveryInvariance, PTL

\* Where no channel goes away no flow is opened a second time, and the
\* messages always arrive whole and in order.
THEOREM MessagesInOrder ==
  ASSUME MaxShutDowns = 0
  PROVE  Spec => []InOrderDelivery
<1>1. SenderInv => reopened = {}
  BY Zenon DEF SenderInv, NoReset
<1> QED
  BY <1>1, DeliveryInOrder, SenderInvariance, PTL

\* One direction of a step, from s to r: it submits the next message, hands
\* over further ones, or neither.
LEMMA OneDirection ==
  ASSUME Prefixes, Prefixes', Progress, NEW s \in Ends, NEW r \in Ends,
         Peer(r) = s, sent \in [Ends -> Nat]
  PROVE  LET msgs == [m \in 1..Len(Workload(s)) |-> Message(s, m)]
         IN  \/ /\ sent[s] < Len(msgs) /\ sent'[s] = sent[s] + 1
                /\ Delivered(r)' = Delivered(r)
             \/ /\ \E n \in (Len(Delivered(r)) + 1)..sent[s] :
                     Delivered(r)' = SubSeq(msgs, 1, n)
                /\ sent'[s] = sent[s]
             \/ sent'[s] = sent[s] /\ Delivered(r)' = Delivered(r)
<1> DEFINE N == Len(Workload(s))
           msgs == [m \in 1..N |-> Message(s, m)]
<1>1. N \in Nat /\ N \in 0..N
  BY FlowAssumption DEF FlowAssumption
<1>2. Len(msgs) = N
  BY <1>1, MessagesFacts, Zenon
<1>3. PICK k \in 0..sent[s] :
        /\ Delivered(r) = [m \in 1..k |-> Message(s, m)]
        /\ Len(Delivered(r)) = k /\ sent[s] \in 0..N
  BY Zenon DEF Prefixes, PrefixOf
<1>4. PICK j \in 0..sent'[s] :
        /\ Delivered(r)' = [m \in 1..j |-> Message(s, m)]
        /\ Len(Delivered(r)') = j /\ sent'[s] \in 0..N
  BY Zenon DEF Prefixes, PrefixOf
<1> HIDE DEF N, msgs
<1>5. CASE sent' = sent /\ \A x \in Ends : Len(Delivered(x)') >= Len(Delivered(x))
  <2>1. j >= k /\ j \in 0..N /\ j \in Nat /\ k \in Nat
    BY <1>1, <1>3, <1>4, <1>5
  <2>2. CASE j = k
    BY <1>3, <1>4, <1>5, <2>2, Zenon
  <2>3. CASE j # k
    <3>1. j \in (Len(Delivered(r)) + 1)..sent[s]
      BY <1>1, <1>3, <1>4, <1>5, <2>1, <2>3
    <3>2. SubSeq(msgs, 1, j) = [m \in 1..j |-> Message(s, m)]
      BY <1>1, <2>1, PrefixOfMessages, Zenon DEF msgs, N
    <3> QED
      BY <1>4, <1>5, <3>1, <3>2, Zenon DEF msgs, N
  <2> QED
    BY <2>2, <2>3, Zenon
<1>6. ASSUME NEW e \in Ends, sent[e] < Len(Workload(e)),
             sent' = [sent EXCEPT ![e] = sent[e] + 1],
             \A x \in Ends : Delivered(x)' = Delivered(x)
      PROVE  /\ Delivered(r)' = Delivered(r)
             /\ \/ sent[s] < N /\ sent'[s] = sent[s] + 1
                \/ sent'[s] = sent[s]
  BY <1>6, Zenon DEF N
<1> QED
  BY <1>2, <1>5, <1>6, Zenon DEF Progress, N, msgs

\* Every step maps to steps of the two queues.
LEMMA StepsAreFifo ==
  ASSUME Prefixes, Prefixes', Progress \/ UNCHANGED vars, sent \in [Ends -> Nat]
  PROVE  /\ [ToServer!Submit \/ ToServer!Deliver]_(ToServer!fifoVars)
         /\ [ToClient!Submit \/ ToClient!Deliver]_(ToClient!fifoVars)
<1>1. "client" \in Ends /\ "server" \in Ends
  BY Zenon DEF Ends
<1>2. Peer("server") = "client" /\ Peer("client") = "server"
  BY Zenon DEF Peer
<1>3. Workload("client") = ClientMsgs /\ Workload("server") = ServerMsgs
  BY Zenon DEF Workload
<1>4. CASE Progress
  <2>1. [ToServer!Submit \/ ToServer!Deliver]_(ToServer!fifoVars)
    BY <1>1, <1>2, <1>3, <1>4, OneDirection, Zenon
       DEF ToServer!Submit, ToServer!Deliver, ToServer!fifoVars
  <2>2. [ToClient!Submit \/ ToClient!Deliver]_(ToClient!fifoVars)
    BY <1>1, <1>2, <1>3, <1>4, OneDirection, Zenon
       DEF ToClient!Submit, ToClient!Deliver, ToClient!fifoVars
  <2> QED
    BY <2>1, <2>2, Zenon
<1>5. CASE UNCHANGED vars
  BY <1>5, Zenon DEF vars, Delivered, ToServer!fifoVars, ToClient!fifoVars
<1> QED
  BY <1>4, <1>5, Zenon

\* Where no channel goes away both directions of a connection are queues of
\* messages: whatever the network loses, duplicates or reorders, each message is
\* handed over whole, once and in the order of submission.
THEOREM FlowIsFifo ==
  ASSUME MaxShutDowns = 0
  PROVE  Spec => RefinesFifo
<1>1. Init => ToServer!FifoInit /\ ToClient!FifoInit
  BY DEF Init, InitFlow, InitRx, Delivered, Ends, ToServer!FifoInit, ToClient!FifoInit
<1>2. SenderInv => reopened = {}
  BY Zenon DEF SenderInv, NoReset
<1>3. Inv => sent \in [Ends -> Nat]
  BY Zenon DEF Inv, TypeOK
<1>4. Inv /\ DeliveryInv /\ SenderInv => Prefixes
  BY <1>2, GotPrefix, Zenon
<1>5. ASSUME Inv, SenderInv, SenderInv', DeliveryInv, Prefixes, Prefixes', [Next]_vars
      PROVE  /\ [ToServer!Submit \/ ToServer!Deliver]_(ToServer!fifoVars)
             /\ [ToClient!Submit \/ ToClient!Deliver]_(ToClient!fifoVars)
  <2>1. reopened' = {}
    BY <1>5, Zenon DEF SenderInv, NoReset
  <2>2. Progress \/ UNCHANGED vars
    BY <1>5, <2>1, NextDelivery, Zenon
  <2> QED
    BY <1>3, <1>5, <2>2, StepsAreFifo, Zenon
<1> QED
  BY <1>1, <1>4, <1>5, Invariance, SenderInvariance, DeliveryInvariance, PTL
     DEF Spec, RefinesFifo, ToServer!FifoSpec, ToClient!FifoSpec,
         ToServer!fifoVars, ToClient!fifoVars

=============================================================================
