---------------------------- MODULE FlowTheorems ----------------------------
(***************************************************************************)
(* The theorems about the two ends of Flow: its type invariant, that a     *)
(* buffer is released only when the peer has accepted it and that a        *)
(* sequence number always stands for the same buffer, for every workload,  *)
(* window, threshold and size of the sequence space, and for any network.  *)
(* An operation that keeps one flow consistent keeps the invariant of the  *)
(* whole system (StepOK); every action is such an operation. The same for  *)
(* the invariant of the two senders (SenderStep).                          *)
(***************************************************************************)
EXTENDS FlowHandlers, FiniteSetTheorems

-----------------------------------------------------------------------------
(* The invariant, and what every action but AppRecv has in common.          *)

Inv ==
  /\ TypeOK /\ StreamInv
  /\ flow = [e \in Ends |-> flow[e]] /\ recvd = [e \in Ends |-> recvd[e]]
  /\ \A e \in Ends : FlowShape(flow[e])

\* The peer of an end.
LEMMA PeerFacts ==
  ASSUME NEW e \in Ends
  PROVE  /\ Peer(e) \in Ends /\ Peer(Peer(e)) = e /\ Peer(e) # e
         /\ \A x \in Ends : x = e \/ x = Peer(e)
  BY Zenon DEF Peer, Ends

\* The packets a handler wrote are added to those in flight.
LEMMA OutgoingOK ==
  ASSUME NEW e, NEW f, f.out \in Seq(HdrType), NEW B, IsABag(B)
  PROVE  LET C == AddAll(B, Outgoing(e, f))
         IN  /\ IsABag(C)
             /\ \A p \in BagToSet(C) :
                  \/ p \in BagToSet(B)
                  \/ \E i \in 1..Len(f.out) :
                       p = [to |-> Peer(e), hdr |-> f.out[i]]
<1> DEFINE n == Len(f.out)
           pkts == Outgoing(e, f)
           at(p) == {i \in DOMAIN pkts : pkts[i] = p}
           new == {pkts[i] : i \in DOMAIN pkts}
           C == AddAll(B, pkts)
<1>1. /\ n \in Nat /\ DOMAIN pkts = 1..n
      /\ \A i \in 1..n : pkts[i] = [to |-> Peer(e), hdr |-> f.out[i]]
  BY DEF Outgoing
<1> HIDE DEF pkts
<1>2. ASSUME NEW p
      PROVE  /\ Cardinality(at(p)) \in Nat
             /\ p \in new => /\ Cardinality(at(p)) # 0
                             /\ \E i \in 1..n :
                                  p = [to |-> Peer(e), hdr |-> f.out[i]]
  <2>1. at(p) \subseteq 1..n /\ (p \in new => at(p) # {})
    BY <1>1, Zenon
  <2>2. p \in new => \E i \in 1..n : p = [to |-> Peer(e), hdr |-> f.out[i]]
    BY <1>1, Zenon
  <2> HIDE DEF at, new
  <2>3. IsFiniteSet(1..n)
    BY <1>1, FS_Interval
  <2>4. IsFiniteSet(at(p))
    BY <2>1, <2>3, FS_Subset, Zenon
  <2>5. Cardinality(at(p)) \in Nat /\ (Cardinality(at(p)) = 0 <=> at(p) = {})
    BY <2>4, FS_CardinalityType, FS_EmptySet, Zenon
  <2> QED
    BY <2>1, <2>2, <2>5, Zenon
<1>3. \A p \in DOMAIN B : B[p] \in Nat \ {0}
  BY Zenon DEF IsABag
<1>4. C = [p \in DOMAIN B \cup new |-> CopiesIn(p, B) + Cardinality(at(p))]
  BY Zenon DEF AddAll
<1> HIDE DEF new, at, C
<1>5. \A p \in DOMAIN B \cup new :
        CopiesIn(p, B) + Cardinality(at(p)) \in Nat \ {0}
  BY <1>2, <1>3 DEF CopiesIn
<1>6. DOMAIN C = DOMAIN B \cup new /\ IsABag(C)
  BY <1>4, <1>5, Zenon DEF IsABag
<1> QED
  BY <1>2, <1>6, Zenon DEF BagToSet, C, pkts

\* One packet leaves the network.
LEMMA TakeOK ==
  ASSUME NEW B, IsABag(B), NEW p
  PROVE  LET C == RemoveOne(B, p)
         IN  IsABag(C) /\ BagToSet(C) \subseteq BagToSet(B)
<1> DEFINE C == RemoveOne(B, p)
           S == {r \in DOMAIN B : r = p => B[p] > 1}
<1>1. \A x \in DOMAIN B : B[x] \in Nat \ {0}
  BY Zenon DEF IsABag
<1>2. C = [q \in S |-> IF q = p THEN B[p] - 1 ELSE B[q]]
  BY Zenon DEF RemoveOne
<1>3. \A q \in S : (IF q = p THEN B[p] - 1 ELSE B[q]) \in Nat \ {0}
  BY <1>1
<1>4. S \subseteq DOMAIN B
  BY Zenon
<1> HIDE DEF C, S
<1>5. DOMAIN C = S /\ IsABag(C)
  BY <1>2, <1>3, Zenon DEF IsABag
<1> QED
  BY <1>4, <1>5, Zenon DEF BagToSet, C

\* What the invariant says of one end.
LEMMA EndFacts ==
  ASSUME Inv, NEW e \in Ends
  PROVE  /\ Good(flow[e]) /\ flow[e].out = <<>>
         /\ stream[e] \in Seq(BufType) /\ Len(stream[e]) + 1 < Modulus \div 2
         /\ flow[e].pcb.rcv_nxt \in Nat
         /\ reopened = {} => Safe(flow[e], stream[e], stream[Peer(e)],
                                  flow[Peer(e)].pcb.rcv_nxt)
<1>1. Good(flow[e]) /\ flow[e].out = <<>>
  BY Zenon DEF Inv, TypeOK, StreamInv, Good
<1>2. stream[e] \in Seq(BufType) /\ Len(stream[e]) + 1 < Modulus \div 2
  BY SMTT(20) DEF Inv, TypeOK, StreamInv
<1>3. flow[e].pcb.rcv_nxt \in Nat
  <2>1. flow[e].pcb \in PcbType
    BY Zenon DEF Inv, TypeOK, FlowFieldsOK
  <2> QED
    BY ONLY <2>1, HalfModulus DEF PcbType
<1>4. ASSUME reopened = {}
      PROVE  Safe(flow[e], stream[e], stream[Peer(e)],
                  flow[Peer(e)].pcb.rcv_nxt)
  <2>1. EndOK(flow[e], stream[e], stream[Peer(e)], flow[Peer(e)].pcb.rcv_nxt)
    BY <1>4, Zenon DEF Inv, StreamInv
  <2>2. OutOK(flow[e], stream[e])
    BY <1>1 DEF OutOK
  <2> QED
    BY <2>1, <2>2, Zenon DEF Safe
<1> QED
  BY <1>1, <1>2, <1>3, <1>4, Zenon

\* The handlers of end e run in a context, its peer being consistent.
LEMMA ContextOK ==
  ASSUME Inv, NEW e \in Ends
  PROVE  /\ Context(<<>>, <<>>, 0)
         /\ reopened = {} => Context(stream[e], stream[Peer(e)],
                                     flow[Peer(e)].pcb.rcv_nxt)
<1> DEFINE P == Peer(e)
<1>1. P \in Ends /\ Peer(P) = e
  BY PeerFacts, Zenon
<1>2. Context(<<>>, <<>>, 0)
  BY HalfModulus DEF Context
<1>3. ASSUME reopened = {}
      PROVE  flow[P].pcb.rcv_nxt <= Len(stream[e]) + 1
  <2>1. SndOK(flow[P], stream[P]) /\ RcvOK(flow[P].rx, stream[e])
    BY <1>1, <1>3, Zenon DEF Inv, StreamInv, EndOK
  <2>2. Len(stream[e]) \in Nat
    BY EndFacts
  <2>3. flow[P].rx.accepted \in Seq(BufType)
    BY <1>1, Zenon DEF Inv, TypeOK, FlowFieldsOK
  <2>4. CASE Opening(flow[P], stream[P])
    BY <2>2, <2>4, SMTT(20) DEF Opening
  <2>5. CASE Open(flow[P], stream[P])
    BY <2>1, <2>2, <2>3, <2>5 DEF Open, RcvOK
  <2> QED
    BY <2>1, <2>4, <2>5, Zenon DEF SndOK
<1> QED
  BY <1>1, <1>2, <1>3, EndFacts, Zenon DEF Context

\* A consistent end stays consistent when its peer's stream grows and its
\* peer's rcv_nxt advances.
LEMMA PeerMoves ==
  ASSUME NEW f, Good(f), NEW st \in Seq(BufType), NEW peer_st \in Seq(BufType),
         NEW more \in Seq(BufType), Len(peer_st) <= Len(more),
         \A i \in 1..Len(peer_st) : more[i] = peer_st[i],
         NEW r \in Nat, NEW r2 \in Nat, r <= r2, EndOK(f, st, peer_st, r)
  PROVE  EndOK(f, st, more, r2)
<1>1. f.rx.accepted \in Seq(BufType) /\ f.pcb.snd_una \in Nat
  <2>1. f.pcb \in PcbType
    BY Zenon DEF Good, FlowFieldsOK
  <2>2. f.pcb.snd_una \in Nat
    BY ONLY <2>1, HalfModulus DEF PcbType
  <2> QED
    BY <2>2, Zenon DEF Good, FlowFieldsOK
<1>2. RcvOK(f.rx, more)
  <2>1. RcvOK(f.rx, peer_st)
    BY Zenon DEF EndOK
  <2>2. Len(f.rx.accepted) \in Nat /\ Len(f.rx.accepted) <= Len(peer_st)
        /\ Len(peer_st) \in Nat /\ Len(more) \in Nat
    BY <1>1, <2>1 DEF RcvOK
  <2>3. ASSUME NEW i \in 1..Len(f.rx.accepted)
        PROVE  f.rx.accepted[i] = more[i]
    <3>1. i \in 1..Len(peer_st)
      BY <2>2
    <3> QED
      BY <2>1, <3>1, Zenon DEF RcvOK
  <2>4. ASSUME NEW i \in 1..Len(f.rx.reass_q)
        PROVE  LET q == f.rx.reass_q[i]
               IN  q.seqno \in 1..Len(more) /\ q.buf = more[q.seqno]
    <3>1. LET q == f.rx.reass_q[i]
          IN  q.seqno \in 1..Len(peer_st) /\ q.buf = peer_st[q.seqno]
      BY <2>1, Zenon DEF RcvOK
    <3> QED
      BY <2>2, <3>1, SMTT(60)
  <2> QED
    BY <2>1, <2>2, <2>3, <2>4 DEF RcvOK
<1>3. AckedOK(f, st, r2)
  BY <1>1 DEF EndOK, AckedOK
<1> QED
  BY <1>2, <1>3, Zenon DEF EndOK

\* A flow is as consistent as before once its packets have been handed over.
LEMMA ClearedOK ==
  ASSUME NEW f, Good(f), NEW h,
         Fields(h, f.state, f.pcb, f.tx, f.rx, f.life, f.callback, f.fault, <<>>)
  PROVE  Good(h)
<1>1. /\ h.state = f.state /\ h.pcb = f.pcb /\ h.tx = f.tx /\ h.rx = f.rx
      /\ h.life = f.life /\ h.callback = f.callback /\ h.fault = f.fault
      /\ h.out = <<>>
  BY Zenon DEF Fields
<1>2. FlowShape(h)
  <2>1. Fields(h, h.state, h.pcb, h.tx, h.rx, h.life, h.callback, h.fault, h.out)
    BY <1>1, Zenon
  <2>2. RxFields(h.rx, h.rx.reass_q, h.rx.train, h.rx.ring, h.rx.fatal,
                 h.rx.accepted)
    BY <1>1, Zenon DEF Good, FlowShape
  <2> QED
    BY <2>1, <2>2, Zenon DEF FlowShape
<1>3. FlowFieldsOK(h)
  <2>1. FlowFieldsOK(f)
    BY Zenon DEF Good
  <2>2. <<>> \in Seq(HdrType)
    OBVIOUS
  <2> QED
    BY ONLY <1>1, <2>1, <2>2, Zenon DEF FlowFieldsOK
<1>4. TxOK(h.tx) /\ TimerOK(h)
  BY <1>1, Zenon DEF Good, TimerOK
<1> QED
  BY <1>2, <1>3, <1>4, Zenon DEF Good

\* A step of one end that keeps its flow consistent keeps the invariant.
LEMMA StepOK ==
  ASSUME Inv, NEW e \in Ends, NEW f, Good(f), NEW in_flight, IsABag(in_flight),
         BagToSet(in_flight) \subseteq BagToSet(net), Step(e, f, in_flight),
         recvd' = recvd, sent' \in [Ends -> Nat],
         dups' \in 0..MaxDuplicates, fails' \in 0..MaxPoolFails,
         downs' \in 0..MaxShutDowns,
         reopened \subseteq reopened', reopened' \subseteq Ends,
         NEW st \in Seq(BufType), stream' = [stream EXCEPT ![e] = st],
         Len(st) + 1 < Modulus \div 2, Len(stream[e]) <= Len(st),
         \A i \in 1..Len(stream[e]) : st[i] = stream[e][i],
         reopened' = {} =>
           /\ Safe(f, st, stream[Peer(e)], flow[Peer(e)].pcb.rcv_nxt)
           /\ f.pcb.rcv_nxt >= flow[e].pcb.rcv_nxt
  PROVE  Inv'
<1> DEFINE P == Peer(e)
           h == [f EXCEPT !.out = <<>>]
<1>1. P \in Ends /\ Peer(P) = e /\ P # e /\ \A x \in Ends : x = e \/ x = P
  BY PeerFacts, Zenon
<1>2. Fields(h, f.state, f.pcb, f.tx, f.rx, f.life, f.callback, f.fault, <<>>)
  BY WithOut, SMTT(60) DEF Good
<1>3. flow' = [flow EXCEPT ![e] = h] /\ net' = AddAll(in_flight, Outgoing(e, f))
  BY Zenon DEF Step
<1> HIDE DEF h
<1>4. Good(h)
  BY <1>2, ClearedOK, Zenon
<1>5. /\ flow'[e] = h /\ flow'[P] = flow[P]
      /\ flow' = [x \in Ends |-> flow'[x]]
  BY <1>1, <1>3, SMTT(60) DEF Inv
<1>6. /\ stream'[e] = st /\ stream'[P] = stream[P]
      /\ stream' \in [Ends -> Seq(BufType)]
  BY <1>1, Zenon DEF Inv, TypeOK
<1>7. f.out \in Seq(HdrType)
  BY Zenon DEF Good, FlowFieldsOK
<1>8. /\ IsABag(net')
      /\ \A p \in BagToSet(net') : \/ p \in BagToSet(net)
                                   \/ \E i \in 1..Len(f.out) :
                                        p = [to |-> P, hdr |-> f.out[i]]
  BY <1>3, <1>7, OutgoingOK
<1>9. BagToSet(net') \subseteq [to: Ends, hdr: HdrType]
  <2>1. BagToSet(net) \subseteq [to: Ends, hdr: HdrType]
    BY Zenon DEF Inv, TypeOK
  <2>2. \A i \in 1..Len(f.out) : f.out[i] \in HdrType
    BY <1>7
  <2> QED
    BY ONLY <1>1, <1>8, <2>1, <2>2
<1>10. TypeOK'
  <2>1. \A x \in Ends : FlowFieldsOK(flow'[x])
    BY <1>1, <1>4, <1>5, Zenon DEF Good, Inv, TypeOK
  <2> QED
    BY <1>6, <1>8, <1>9, <2>1, Zenon DEF TypeOK
<1>11. \A x \in Ends : FlowShape(flow'[x])
  BY <1>1, <1>4, <1>5, Zenon DEF Good, Inv
<1>12. recvd' = [x \in Ends |-> recvd'[x]]
  BY Zenon DEF Inv
<1>13. \A x \in Ends : /\ TxOK(flow'[x].tx) /\ TimerOK(flow'[x])
                       /\ flow'[x].out = <<>>
                       /\ Len(stream'[x]) + 1 < Modulus \div 2
  <2>1. TxOK(h.tx) /\ TimerOK(h) /\ h.out = <<>>
    BY <1>2, <1>4, Zenon DEF Good, Fields
  <2>2. /\ TxOK(flow[P].tx) /\ TimerOK(flow[P]) /\ flow[P].out = <<>>
        /\ Len(stream[P]) + 1 < Modulus \div 2
    BY <1>1, Zenon DEF Inv, StreamInv
  <2> QED
    BY <1>1, <1>5, <1>6, <2>1, <2>2, SMTT(60)
<1>14. ASSUME reopened' = {}
       PROVE  /\ \A x \in Ends :
                   /\ EndOK(flow'[x], stream'[x], stream'[Peer(x)],
                            flow'[Peer(x)].pcb.rcv_nxt)
                   /\ recvd'[x] # <<>> => flow'[x].pcb.rcv_nxt > 1
              /\ \A p \in BagToSet(net') :
                   HdrOK(p.hdr, stream'[Peer(p.to)],
                         flow'[Peer(p.to)].pcb.rcv_nxt)
  <2>1. /\ reopened = {} /\ Safe(f, st, stream[P], flow[P].pcb.rcv_nxt)
        /\ f.pcb.rcv_nxt >= flow[e].pcb.rcv_nxt
    BY <1>14, Zenon
  <2>2. /\ flow[e].pcb.rcv_nxt \in Nat /\ f.pcb.rcv_nxt \in Nat
        /\ flow[P].pcb.rcv_nxt \in Nat /\ h.pcb = f.pcb
        /\ stream[e] \in Seq(BufType) /\ stream[P] \in Seq(BufType)
        /\ Good(flow[P])
    <3>1. f.pcb \in PcbType
      BY Zenon DEF Good, FlowFieldsOK
    <3>2. f.pcb.rcv_nxt \in Nat
      BY ONLY <3>1, HalfModulus DEF PcbType
    <3> QED
      BY <1>1, <1>2, <3>2, EndFacts, Zenon DEF Fields
  <2>3. EndOK(h, st, stream[P], flow[P].pcb.rcv_nxt)
    BY <1>2, <2>1, Zenon
    DEF Safe, EndOK, SndOK, Opening, Open, AckedOK, Fields
  <2>4. EndOK(flow[P], stream[P], st, h.pcb.rcv_nxt)
    <3>1. EndOK(flow[P], stream[P], stream[e], flow[e].pcb.rcv_nxt)
      BY <1>1, <2>1, Zenon DEF Inv, StreamInv
    <3> QED
      <4>1. h.pcb.rcv_nxt \in Nat /\ flow[e].pcb.rcv_nxt <= h.pcb.rcv_nxt
        BY <2>1, <2>2, Zenon
      <4> DEFINE old == stream[e]
                 r == flow[e].pcb.rcv_nxt
                 r2 == h.pcb.rcv_nxt
                 g == flow[P]
                 own == stream[P]
      <4>2. /\ Good(g) /\ own \in Seq(BufType) /\ old \in Seq(BufType)
            /\ st \in Seq(BufType) /\ Len(old) <= Len(st)
            /\ \A i \in 1..Len(old) : st[i] = old[i]
            /\ r \in Nat /\ r2 \in Nat /\ r <= r2 /\ EndOK(g, own, old, r)
        BY <2>2, <3>1, <4>1, Zenon
      <4> HIDE DEF old, r, r2, g, own
      <4>3. EndOK(g, own, st, r2)
        BY ONLY <4>2, PeerMoves, Zenon
      <4> QED
        BY <4>3, Zenon DEF r2, g, own
  <2>5. \A x \in Ends : recvd'[x] # <<>> => flow'[x].pcb.rcv_nxt > 1
    <3>1. \A x \in Ends : recvd[x] # <<>> => flow[x].pcb.rcv_nxt > 1
      BY <2>1, Zenon DEF Inv, StreamInv
    <3> QED
      <4>1. recvd[e] # <<>> => h.pcb.rcv_nxt > 1
        BY <2>1, <2>2, <3>1, SMTT(60)
      <4>2. recvd[P] # <<>> => flow[P].pcb.rcv_nxt > 1
        BY <1>1, <3>1, Zenon
      <4> QED
        BY <1>1, <1>5, <4>1, <4>2, SMTT(60)
  <2>6. ASSUME NEW p \in BagToSet(net')
        PROVE  HdrOK(p.hdr, stream'[Peer(p.to)], flow'[Peer(p.to)].pcb.rcv_nxt)
    <3>1. CASE p \in BagToSet(net)
      <4>1. /\ p.hdr \in HdrType /\ p.to \in Ends
            /\ HdrOK(p.hdr, stream[Peer(p.to)], flow[Peer(p.to)].pcb.rcv_nxt)
        BY <2>1, <3>1, SMTT(60) DEF Inv, TypeOK, StreamInv
      <4>2. CASE Peer(p.to) = e
        BY <1>5, <1>6, <2>1, <2>2, <4>1, <4>2, HdrMono, SMTT(60)
      <4>3. CASE Peer(p.to) = P
        BY <1>5, <1>6, <4>1, <4>3, Zenon
      <4> QED
        BY <1>1, <4>1, <4>2, <4>3, PeerFacts, SMTT(20)
    <3>2. CASE \E i \in 1..Len(f.out) : p = [to |-> P, hdr |-> f.out[i]]
      <4>1. PICK i \in 1..Len(f.out) : p = [to |-> P, hdr |-> f.out[i]]
        BY <3>2, Zenon
      <4>2. p.to = P /\ p.hdr = f.out[i]
        BY ONLY <4>1, Zenon
      <4>3. HdrOK(f.out[i], st, f.pcb.rcv_nxt)
        BY <2>1, SMTT(60) DEF Safe, OutOK
      <4> QED
        BY <1>1, <1>5, <1>6, <2>2, <4>2, <4>3, SMTT(60)
    <3> QED
      BY <1>8, <3>1, <3>2, SMTT(60)
  <2> QED
    BY <1>1, <1>5, <1>6, <2>3, <2>4, <2>5, <2>6, SMTT(60)
<1>15. StreamInv'
  BY <1>13, <1>14, Zenon DEF StreamInv
<1> QED
  BY <1>5, <1>10, <1>11, <1>12, <1>15, Zenon DEF Inv

-----------------------------------------------------------------------------
(* Every action keeps the invariant.                                        *)

\* The invariant holds initially.
LEMMA InitInv == Init => Inv
<1> SUFFICES ASSUME Init
             PROVE  Inv
  BY Zenon
<1> DEFINE f == InitFlow
<1>1. Fields(f, "Closed", InitPcb, InitTx, InitRx, "absent", "none", "none", <<>>)
  BY Zenon DEF InitFlow, Fields
<1>2. RxFields(InitRx, <<>>, <<>>, <<>>, FALSE, <<>>)
  BY Zenon DEF InitRx, RxFields
<1> HIDE DEF f
<1>3. FlowShape(f)
  BY <1>1, <1>2, Zenon DEF FlowShape, Fields, RxFields
<1>4. /\ InitTx \in TxType /\ TxOK(InitTx) /\ InitTx.chain = <<>>
  BY DEF InitTx, TxType, TxOK
<1>5. FlowFieldsOK(f)
  BY <1>1, <1>2, <1>4, InitPcbType DEF FlowFieldsOK, Fields, RxFields
<1>6. TimerOK(f)
  BY <1>1, SwiftAssumption
  DEF TimerOK, Fields, InitPcb, kRtoDisabled, SwiftAssumption
<1>7. EndOK(f, <<>>, <<>>, f.pcb.rcv_nxt)
  <2>1. Opening(f, <<>>)
    BY <1>1, <1>2 DEF Opening, Fields, RxFields, InitPcb
  <2>2. IsRest(f.tx.chain, <<>>)
    BY <1>1, <1>4 DEF IsRest, Fields
  <2>3. RcvOK(f.rx, <<>>)
    BY <1>1, <1>2 DEF RcvOK, Fields, RxFields
  <2>4. AckedOK(f, <<>>, f.pcb.rcv_nxt)
    BY <1>1, <1>4 DEF AckedOK, Fields
  <2> QED
    BY <2>1, <2>2, <2>3, <2>4, Zenon DEF EndOK, SndOK
<1>8. /\ \A e \in Ends : Peer(e) \in Ends /\ flow[e] = f /\ stream[e] = <<>>
                         /\ recvd[e] = <<>>
      /\ flow = [e \in Ends |-> flow[e]] /\ recvd = [e \in Ends |-> recvd[e]]
      /\ stream \in [Ends -> Seq(BufType)] /\ sent \in [Ends -> Nat]
  BY PeerFacts DEF Init, f
<1>9. IsABag(net) /\ BagToSet(net) = {}
  BY Zenon DEF Init, EmptyBag, IsABag, BagToSet
<1>10. TypeOK
  <2>1. /\ dups \in 0..MaxDuplicates /\ fails \in 0..MaxPoolFails
        /\ downs \in 0..MaxShutDowns /\ reopened \subseteq Ends
    BY FlowAssumption DEF Init, FlowAssumption
  <2>2. \A e \in Ends : FlowFieldsOK(flow[e])
    BY <1>5, <1>8, Zenon
  <2> QED
    BY <1>8, <1>9, <2>1, <2>2, Zenon DEF TypeOK
<1>11. StreamInv
  <2>1. TxOK(f.tx) /\ TimerOK(f) /\ f.out = <<>> /\ Len(<<>>) + 1 < Modulus \div 2
    BY <1>1, <1>4, <1>6, HalfModulus DEF Fields
  <2> QED
    BY <1>7, <1>8, <1>9, <2>1, Zenon DEF StreamInv
<1> QED
  BY <1>3, <1>8, <1>10, <1>11, Zenon DEF Inv

\* The actions that leave the streams alone.
LEMMA QuietStep ==
  ASSUME Inv, NEW e \in Ends, NEW f, Good(f), NEW in_flight, IsABag(in_flight),
         BagToSet(in_flight) \subseteq BagToSet(net), Step(e, f, in_flight),
         UNCHANGED <<recvd, sent, stream>>,
         dups' \in 0..MaxDuplicates, fails' \in 0..MaxPoolFails,
         downs' \in 0..MaxShutDowns,
         reopened \subseteq reopened', reopened' \subseteq Ends,
         reopened' = {} =>
           /\ Safe(f, stream[e], stream[Peer(e)], flow[Peer(e)].pcb.rcv_nxt)
           /\ f.pcb.rcv_nxt >= flow[e].pcb.rcv_nxt
  PROVE  Inv'
<1> DEFINE st == stream[e]
<1>1. st \in Seq(BufType) /\ Len(st) + 1 < Modulus \div 2
  BY EndFacts, Zenon
<1>2. /\ Len(stream[e]) <= Len(st)
      /\ \A i \in 1..Len(stream[e]) : st[i] = stream[e][i]
  BY <1>1
<1>3. stream' = [stream EXCEPT ![e] = st] /\ recvd' = recvd
      /\ sent' \in [Ends -> Nat]
  BY Zenon DEF Inv, TypeOK
<1>4. reopened' = {} =>
        /\ Safe(f, st, stream[Peer(e)], flow[Peer(e)].pcb.rcv_nxt)
        /\ f.pcb.rcv_nxt >= flow[e].pcb.rcv_nxt
  BY Zenon
<1> HIDE DEF st
<1> QED
  BY <1>1, <1>2, <1>3, <1>4, StepOK, Zenon

\* The packets in flight are a bag of well-typed packets.
LEMMA NetFacts ==
  ASSUME Inv
  PROVE  /\ IsABag(net) /\ BagToSet(net) \subseteq BagToSet(net)
         /\ dups \in 0..MaxDuplicates /\ fails \in 0..MaxPoolFails
         /\ downs \in 0..MaxShutDowns /\ reopened \subseteq Ends
  BY Zenon DEF Inv, TypeOK

\* A connect keeps the invariant.
LEMMA InitiateHandshakeStep ==
  ASSUME Inv, NEW e \in Ends, InitiateHandshake(e)
  PROVE  Inv'
<1> DEFINE r == flow[Peer(e)].pcb.rcv_nxt
           p == [flow[e] EXCEPT !.life = "live", !.state = "SynSent",
                                !.pcb = rto_reset(advance_snd_nxt(@, 1))]
           g == SendSyn(p, flow[e].pcb.snd_nxt)
<1>1. /\ Good(flow[e]) /\ flow[e].life = "absent"
      /\ flow[e].pcb.rcv_nxt \in Nat
      /\ reopened = {} => Safe(flow[e], stream[e], stream[Peer(e)], r)
      /\ Context(<<>>, <<>>, 0)
      /\ reopened = {} => Context(stream[e], stream[Peer(e)], r)
  BY EndFacts, ContextOK, Zenon DEF InitiateHandshake
<1>2. /\ Step(e, g, net) /\ UNCHANGED <<recvd, sent, stream>>
      /\ UNCHANGED <<dups, fails, downs, reopened>>
  BY Zenon DEF InitiateHandshake
<1>3. Good(g) /\ g.pcb.rcv_nxt = flow[e].pcb.rcv_nxt
  BY <1>1, ConnectOK, Zenon
<1>4. reopened = {} => Safe(g, stream[e], stream[Peer(e)], r)
  BY <1>1, ConnectOK, Zenon
<1> HIDE DEF g
<1>5. /\ dups' \in 0..MaxDuplicates /\ fails' \in 0..MaxPoolFails
      /\ downs' \in 0..MaxShutDowns
      /\ reopened \subseteq reopened' /\ reopened' \subseteq Ends
      /\ IsABag(net) /\ BagToSet(net) \subseteq BagToSet(net)
  BY <1>2, NetFacts, Zenon
<1>6. reopened' = {} => Safe(g, stream[e], stream[Peer(e)], r)
  BY ONLY <1>2, <1>4, Zenon
<1>7. g.pcb.rcv_nxt >= flow[e].pcb.rcv_nxt
  BY ONLY <1>1, <1>3, SMTT(20)
<1> QED
  BY <1>2, <1>3, <1>5, <1>6, <1>7, QuietStep, SMTT(30)

\* A slow-timer tick keeps the invariant.
LEMMA PeriodicCheckStep ==
  ASSUME Inv, NEW e \in Ends, PeriodicCheck(e)
  PROVE  Inv'
<1> DEFINE r == flow[Peer(e)].pcb.rcv_nxt
           g == Tick(flow[e])
<1>1. /\ Good(flow[e]) /\ flow[e].life = "live"
      /\ flow[e].pcb.rcv_nxt \in Nat
      /\ reopened = {} => Safe(flow[e], stream[e], stream[Peer(e)], r)
      /\ Context(<<>>, <<>>, 0)
      /\ reopened = {} => Context(stream[e], stream[Peer(e)], r)
  BY EndFacts, ContextOK, Zenon DEF PeriodicCheck, Running
<1>2. /\ Step(e, g, net) /\ UNCHANGED <<recvd, sent, stream>>
      /\ UNCHANGED <<dups, fails, downs, reopened>>
  BY Zenon DEF PeriodicCheck
<1>3. Good(g) /\ g.pcb.rcv_nxt = flow[e].pcb.rcv_nxt
  BY <1>1, TickOK, Zenon
<1>4. reopened = {} => Safe(g, stream[e], stream[Peer(e)], r)
  BY <1>1, TickOK, Zenon
<1> HIDE DEF g
<1>5. /\ dups' \in 0..MaxDuplicates /\ fails' \in 0..MaxPoolFails
      /\ downs' \in 0..MaxShutDowns
      /\ reopened \subseteq reopened' /\ reopened' \subseteq Ends
      /\ IsABag(net) /\ BagToSet(net) \subseteq BagToSet(net)
  BY <1>2, NetFacts, Zenon
<1>6. reopened' = {} => Safe(g, stream[e], stream[Peer(e)], r)
  BY ONLY <1>2, <1>4, Zenon
<1>7. g.pcb.rcv_nxt >= flow[e].pcb.rcv_nxt
  BY ONLY <1>1, <1>3
<1> QED
  BY <1>2, <1>3, <1>5, <1>6, <1>7, QuietStep, SMTT(30)

\* The removal of a channel keeps the invariant.
LEMMA ShutDownStep ==
  ASSUME Inv, NEW e \in Ends, ShutDown(e)
  PROVE  Inv'
<1> DEFINE r == flow[Peer(e)].pcb.rcv_nxt
           g == Shut(flow[e])
<1>1. /\ Good(flow[e]) /\ flow[e].life = "live"
      /\ flow[e].pcb.rcv_nxt \in Nat
      /\ reopened = {} => Safe(flow[e], stream[e], stream[Peer(e)], r)
      /\ Context(<<>>, <<>>, 0)
      /\ reopened = {} => Context(stream[e], stream[Peer(e)], r)
  BY EndFacts, ContextOK, Zenon DEF ShutDown, Running
<1>2. /\ Step(e, g, net) /\ UNCHANGED <<recvd, sent, stream>>
      /\ UNCHANGED <<dups, fails, reopened>> /\ downs' \in 0..MaxShutDowns
  <2>1. downs \in 0..MaxShutDowns /\ MaxShutDowns \in Nat
    BY NetFacts, FlowAssumption, Zenon DEF FlowAssumption
  <2>2. downs < MaxShutDowns /\ downs' = downs + 1
    BY Zenon DEF ShutDown
  <2>3. downs' \in 0..MaxShutDowns
    BY ONLY <2>1, <2>2
  <2> QED
    BY <2>3, Zenon DEF ShutDown
<1>3. Good(g) /\ g.pcb.rcv_nxt = flow[e].pcb.rcv_nxt
  BY <1>1, ShutOK, Zenon
<1>4. reopened = {} => Safe(g, stream[e], stream[Peer(e)], r)
  BY <1>1, ShutOK, Zenon
<1> HIDE DEF g
<1>5. /\ dups' \in 0..MaxDuplicates /\ fails' \in 0..MaxPoolFails
      /\ downs' \in 0..MaxShutDowns
      /\ reopened \subseteq reopened' /\ reopened' \subseteq Ends
      /\ IsABag(net) /\ BagToSet(net) \subseteq BagToSet(net)
  BY <1>2, NetFacts, Zenon
<1>6. reopened' = {} => Safe(g, stream[e], stream[Peer(e)], r)
  BY ONLY <1>2, <1>4, SMTT(20)
<1>7. g.pcb.rcv_nxt >= flow[e].pcb.rcv_nxt
  BY ONLY <1>1, <1>3
<1> QED
  BY <1>2, <1>3, <1>5, <1>6, <1>7, QuietStep, SMTT(30)

\* A packet, delivered once or again, keeps the invariant.
LEMMA InputPacketStep ==
  ASSUME Inv, NEW e \in Ends, NEW p \in BagToSet(net), NEW again \in BOOLEAN,
         NEW ok \in BOOLEAN, InputPacket(e, p, again, ok)
  PROVE  Inv'
<1> DEFINE r == flow[Peer(e)].pcb.rcv_nxt
           f == [flow[e] EXCEPT !.life = "live"]
           g == HandlePacket(f, p.hdr, ok)
           in_flight == IF again THEN net ELSE RemoveOne(net, p)
<1>1. /\ Good(flow[e]) /\ flow[e].life \in {"live", "absent"}
      /\ flow[e].pcb.rcv_nxt \in Nat
      /\ reopened = {} => Safe(flow[e], stream[e], stream[Peer(e)], r)
      /\ Context(<<>>, <<>>, 0)
      /\ reopened = {} => Context(stream[e], stream[Peer(e)], r)
  BY EndFacts, ContextOK, Zenon DEF InputPacket, Running
<1>2. /\ Step(e, g, in_flight) /\ UNCHANGED <<recvd, sent, stream, downs>>
      /\ p.to = e
  BY Zenon DEF InputPacket
<1>3. p.hdr \in HdrType
      /\ (reopened = {} => HdrOK(p.hdr, stream[Peer(e)], r))
  BY <1>2, Zenon DEF Inv, TypeOK, StreamInv
<1>4. IsABag(in_flight) /\ BagToSet(in_flight) \subseteq BagToSet(net)
  BY NetFacts, TakeOK, Zenon
<1>5. dups' \in 0..MaxDuplicates /\ fails' \in 0..MaxPoolFails
  BY NetFacts, FlowAssumption, SMTT(20) DEF InputPacket, PoolOk, FlowAssumption
<1>6. /\ reopened \subseteq reopened' /\ reopened' \subseteq Ends
      /\ reopened' = {} => ~(/\ p.hdr.flags = "SYN" /\ flow[e].life = "live"
                             /\ flow[e].state = "Closed")
  BY NetFacts, Zenon DEF InputPacket
<1> HIDE DEF in_flight
<1>7. Fields(f, flow[e].state, flow[e].pcb, flow[e].tx, flow[e].rx, "live",
             flow[e].callback, flow[e].fault, flow[e].out)
  BY <1>1, Zenon DEF Good, FlowShape, Fields
<1> HIDE DEF f
<1>8. Good(f)
  <2>1. FlowShape(f)
    BY <1>1, <1>7, SMTT(20) DEF Good, FlowShape, Fields
  <2>2. FlowFieldsOK(f)
    BY <1>1, <1>7, SMTT(20) DEF Good, FlowFieldsOK, Fields
  <2> QED
    BY <1>1, <1>7, <2>1, <2>2, SMTT(20) DEF Good, TimerOK, Fields
<1>9. ASSUME reopened' = {}
      PROVE  /\ Safe(f, stream[e], stream[Peer(e)], r)
             /\ (p.hdr.flags = "SYN" /\ f.state = "Closed"
                   => f.pcb = InitPcb /\ Opening(f, stream[e]))
  <2>1. reopened = {}
    BY <1>6, <1>9, Zenon
  <2>2. Safe(flow[e], stream[e], stream[Peer(e)], r)
    BY <1>1, <2>1, Zenon
  <2>3. OutOK(f, stream[e]) /\ RcvOK(f.rx, stream[Peer(e)])
        /\ AckedOK(f, stream[e], r) /\ IsRest(f.tx.chain, stream[e])
    BY <1>7, <2>2, SMTT(20) DEF Safe, EndOK, SndOK, OutOK, AckedOK, Fields
  <2>4. Opening(flow[e], stream[e]) => Opening(f, stream[e])
    BY <1>7, Zenon DEF Opening, Fields
  <2>5. Open(flow[e], stream[e]) => Open(f, stream[e])
    BY <1>7, SMTT(20) DEF Open, Fields
  <2>6. flow[e].life = "absent" =>
          Opening(flow[e], stream[e]) /\ flow[e].pcb = InitPcb
    BY <2>2, Zenon DEF Safe, EndOK, SndOK, Opening, Open
  <2>7. SndOK(f, stream[e])
    BY <2>2, <2>3, <2>4, <2>5, Zenon DEF Safe, EndOK, SndOK
  <2>8. Safe(f, stream[e], stream[Peer(e)], r)
    BY <2>3, <2>7, SMTT(20) DEF Safe, EndOK
  <2> QED
    BY <1>1, <1>6, <1>7, <1>9, <2>4, <2>6, <2>8, Zenon DEF Fields
<1>10. Good(g)
  BY <1>1, <1>3, <1>8, HandlePacketOK, SMTT(20)
<1>11. ASSUME reopened' = {}
       PROVE  /\ Safe(g, stream[e], stream[Peer(e)], r)
              /\ g.pcb.rcv_nxt >= flow[e].pcb.rcv_nxt
  <2>1. reopened = {}
    BY <1>6, <1>11, Zenon
  <2>2. f.life # "absent" /\ f.pcb = flow[e].pcb
    BY <1>7, Zenon DEF Fields
  <2> QED
    BY <1>1, <1>3, <1>8, <1>9, <1>11, <2>1, <2>2, HandlePacketOK, SMTT(20)
<1> HIDE DEF g
<1> QED
  BY <1>1, <1>2, <1>4, <1>5, <1>6, <1>10, <1>11, NetFacts, QuietStep, SMTT(20)

\* A submission keeps the invariant.
LEMMA OutputMessageStep ==
  ASSUME Inv, NEW e \in Ends, NEW ok \in BOOLEAN, OutputMessage(e, ok)
  PROVE  Inv'
<1> DEFINE r == flow[Peer(e)].pcb.rcv_nxt
           m == Message(e, sent[e] + 1)
           st == stream[e] \o m
           f == [flow[e] EXCEPT !.tx = TxAppend(@, m)]
           g == TransmitPackets(f, ok)
<1>1. /\ Good(flow[e]) /\ flow[e].life = "live"
      /\ flow[e].pcb.rcv_nxt \in Nat
      /\ reopened = {} => Safe(flow[e], stream[e], stream[Peer(e)], r)
      /\ Context(<<>>, <<>>, 0)
      /\ reopened = {} => Context(stream[e], stream[Peer(e)], r)
  BY EndFacts, ContextOK, Zenon DEF OutputMessage, Running
<1>2. /\ Step(e, g, net) /\ recvd' = recvd
      /\ UNCHANGED <<dups, downs, reopened>>
      /\ stream' = [stream EXCEPT ![e] = st]
      /\ sent' = [sent EXCEPT ![e] = sent[e] + 1]
      /\ sent[e] < Len(Workload(e))
      /\ Len(stream[e]) + Workload(e)[sent[e] + 1] + 1 < Modulus \div 2
  BY Zenon DEF OutputMessage, SeqnosLeft
<1>3. sent[e] \in Nat /\ sent' \in [Ends -> Nat]
  BY <1>2 DEF Inv, TypeOK
<1>4. fails' \in 0..MaxPoolFails
  BY NetFacts, FlowAssumption DEF OutputMessage, PoolOk, FlowAssumption
<1>5. /\ m \in Seq(BufType) /\ Len(m) = Workload(e)[sent[e] + 1] /\ Len(m) > 0
      /\ Len(m) \in Nat
  BY <1>2, <1>3, MessageOK
<1> HIDE DEF m
<1>6. stream[e] \in Seq(BufType) /\ Len(stream[e]) \in Nat
  BY EndFacts
<1>7. /\ st \in Seq(BufType) /\ Len(st) = Len(stream[e]) + Len(m)
      /\ \A i \in 1..Len(stream[e]) : st[i] = stream[e][i]
  BY <1>5, <1>6, ConcatFacts, ZenonT(30)
<1>8. Len(st) + 1 < Modulus \div 2 /\ Len(stream[e]) <= Len(st)
  <2>1. Len(stream[e]) + Len(m) + 1 < Modulus \div 2
    BY <1>2, <1>5, Zenon
  <2> HIDE DEF st
  <2> QED
    BY <1>5, <1>6, <1>7, <2>1
<1>9. Good(f) /\ f.life = "live" /\ f.pcb = flow[e].pcb
  BY <1>1, <1>5, SubmitOK, Zenon
<1>10. Good(g) /\ g.pcb.rcv_nxt = f.pcb.rcv_nxt
  BY <1>1, <1>9, TransmitPacketsOK, Zenon
<1>11. ASSUME reopened = {}
       PROVE  Safe(g, st, stream[Peer(e)], r)
  <2>1. ~Opening(flow[e], stream[e])
    <3>1. Known(e)
      BY Zenon DEF OutputMessage
    <3>2. recvd[e] # <<>> => flow[e].pcb.rcv_nxt > 1
      BY <1>11, Zenon DEF Inv, StreamInv
    <3> QED
      BY <3>1, <3>2 DEF Known, Opening
  <2>2. Safe(f, st, stream[Peer(e)], r)
    BY <1>1, <1>5, <1>11, <2>1, SubmitOK, SMTT(20)
  <2>3. Context(st, stream[Peer(e)], r)
    <3>1. Context(stream[e], stream[Peer(e)], r)
      BY <1>1, <1>11, Zenon
    <3>2. Len(st) \in Nat
      BY <1>7
    <3> HIDE DEF st
    <3> QED
      BY <1>6, <1>7, <1>8, <3>1, <3>2 DEF Context
  <2> HIDE DEF st, f
  <2> QED
    BY <1>9, <2>2, <2>3, TransmitPacketsOK, SMTT(20)
<1> HIDE DEF st, f, g
<1>12. reopened' = {} => /\ Safe(g, st, stream[Peer(e)], r)
                         /\ g.pcb.rcv_nxt >= flow[e].pcb.rcv_nxt
  <2>1. reopened' = reopened
    BY <1>2, Zenon
  <2>2. g.pcb.rcv_nxt >= flow[e].pcb.rcv_nxt
    BY ONLY <1>1, <1>9, <1>10
  <2> QED
    BY ONLY <1>11, <2>1, <2>2, Zenon
<1>13. /\ dups' \in 0..MaxDuplicates /\ downs' \in 0..MaxShutDowns
       /\ reopened \subseteq reopened' /\ reopened' \subseteq Ends
       /\ IsABag(net) /\ BagToSet(net) \subseteq BagToSet(net)
  BY <1>2, NetFacts, Zenon
<1> QED
  BY <1>2, <1>3, <1>4, <1>7, <1>8, <1>10, <1>12, <1>13, StepOK,
     ZenonT(30)

\* A dequeue by the application keeps the invariant.
LEMMA AppRecvStep ==
  ASSUME Inv, NEW e \in Ends, AppRecv(e)
  PROVE  Inv'
<1> DEFINE P == Peer(e)
           f == flow[e]
           rx == [f.rx EXCEPT !.ring = Tail(@)]
           h == [f EXCEPT !.rx = rx]
<1>1. P \in Ends /\ Peer(P) = e /\ P # e /\ \A x \in Ends : x = e \/ x = P
  BY PeerFacts, Zenon
<1>2. /\ f.rx.ring # <<>>
      /\ flow' = [flow EXCEPT ![e] = h]
      /\ UNCHANGED <<net, sent, stream, dups, fails, downs, reopened>>
      /\ recvd' = [recvd EXCEPT ![e] = Append(recvd[e], Head(f.rx.ring))]
  <2>1. flow' = [flow EXCEPT ![e].rx.ring = Tail(@)]
    BY Zenon DEF AppRecv
  <2>2. flow' = [flow EXCEPT ![e] = h]
    BY <2>1, Zenon
  <2> QED
    BY <2>2, Zenon DEF AppRecv
<1>3. RxFields(rx, f.rx.reass_q, f.rx.train, Tail(f.rx.ring), f.rx.fatal,
               f.rx.accepted)
  BY Zenon DEF Inv, FlowShape, RxFields
<1> HIDE DEF rx
<1>4. Fields(h, f.state, f.pcb, f.tx, rx, f.life, f.callback, f.fault, f.out)
  BY Zenon DEF Inv, FlowShape, Fields
<1> HIDE DEF h
<1>5. /\ flow'[e] = h /\ flow'[P] = flow[P]
      /\ flow' = [x \in Ends |-> flow'[x]]
      /\ recvd' = [x \in Ends |-> recvd'[x]] /\ recvd'[P] = recvd[P]
  BY <1>1, <1>2, Zenon DEF Inv
<1>6. FlowShape(h) /\ FlowFieldsOK(h) /\ TxOK(h.tx) /\ TimerOK(h) /\ h.out = <<>>
  <2>1. Good(f) /\ f.out = <<>>
    BY EndFacts, Zenon
  <2> HIDE DEF f
  <2>2. FlowShape(h)
    BY <1>3, <1>4, Zenon DEF FlowShape, Fields, RxFields
  <2>3. FlowFieldsOK(h)
    BY <1>3, <1>4, <2>1, Zenon DEF Good, FlowFieldsOK, Fields, RxFields
  <2> QED
    BY <1>4, <2>1, <2>2, <2>3, Zenon DEF Good, TimerOK, Fields
<1>7. TypeOK'
  <2>1. \A x \in Ends : FlowFieldsOK(flow'[x])
    BY <1>1, <1>5, <1>6, Zenon DEF Inv, TypeOK
  <2> QED
    BY <1>2, <2>1, Zenon DEF Inv, TypeOK
<1>8. \A x \in Ends : FlowShape(flow'[x])
  BY <1>1, <1>5, <1>6, SMTT(20) DEF Inv
<1>9. \A x \in Ends : /\ TxOK(flow'[x].tx) /\ TimerOK(flow'[x])
                      /\ flow'[x].out = <<>>
                      /\ Len(stream'[x]) + 1 < Modulus \div 2
  BY <1>1, <1>2, <1>5, <1>6, SMTT(20) DEF Inv, StreamInv
<1>10. ASSUME reopened' = {}
       PROVE  /\ \A x \in Ends :
                   /\ EndOK(flow'[x], stream'[x], stream'[Peer(x)],
                            flow'[Peer(x)].pcb.rcv_nxt)
                   /\ recvd'[x] # <<>> => flow'[x].pcb.rcv_nxt > 1
              /\ \A p \in BagToSet(net') :
                   HdrOK(p.hdr, stream'[Peer(p.to)],
                         flow'[Peer(p.to)].pcb.rcv_nxt)
  <2>1. /\ reopened = {}
        /\ EndOK(f, stream[e], stream[P], flow[P].pcb.rcv_nxt)
        /\ EndOK(flow[P], stream[P], stream[e], f.pcb.rcv_nxt)
        /\ recvd[P] # <<>> => flow[P].pcb.rcv_nxt > 1
        /\ \A p \in BagToSet(net) :
             HdrOK(p.hdr, stream[Peer(p.to)], flow[Peer(p.to)].pcb.rcv_nxt)
    BY <1>1, <1>2, <1>10, Zenon DEF Inv, StreamInv
  <2>2. f.rx.accepted \in Seq(BufType)
    BY Zenon DEF Inv, TypeOK, FlowFieldsOK
  <2> HIDE DEF f
  <2>3. f.rx.accepted # <<>>
    BY <1>2, <2>1, ZenonT(30) DEF EndOK, RcvOK
  <2>4. Open(f, stream[e])
    BY <2>1, <2>3, Zenon DEF EndOK, SndOK, Opening
  <2>5. f.pcb.rcv_nxt > 1
    BY <2>2, <2>3, <2>4 DEF Open
  <2>6. h.pcb = f.pcb
    BY <1>4, SMTT(20) DEF Fields
  <2>7. EndOK(h, stream[e], stream[P], flow[P].pcb.rcv_nxt)
    <3>1. Open(h, stream[e])
      BY <1>3, <1>4, <2>4, Zenon DEF Open, Fields, RxFields
    <3>2. RcvOK(h.rx, stream[P])
      BY <1>3, <1>4, <2>1, <2>3, ZenonT(30) DEF EndOK, RcvOK, Fields, RxFields
    <3> QED
      BY <1>4, <2>1, <3>1, <3>2, Zenon DEF EndOK, SndOK, AckedOK, Fields
  <2>8. ASSUME NEW p \in BagToSet(net')
        PROVE  HdrOK(p.hdr, stream'[Peer(p.to)], flow'[Peer(p.to)].pcb.rcv_nxt)
    <3>1. p \in BagToSet(net) /\ p.to \in Ends
      BY <1>2, Zenon DEF Inv, TypeOK
    <3>2. Peer(p.to) \in Ends
      BY <3>1, PeerFacts, Zenon
    <3>3. flow'[Peer(p.to)].pcb = flow[Peer(p.to)].pcb
      BY <1>1, <1>5, <2>6, <3>2, Zenon DEF f
    <3> QED
      BY <1>2, <2>1, <3>1, <3>3, Zenon
  <2> QED
    BY <1>1, <1>2, <1>5, <2>1, <2>5, <2>6, <2>7, <2>8
<1>11. StreamInv'
  BY <1>9, <1>10, Zenon DEF StreamInv
<1> QED
  BY <1>5, <1>7, <1>8, <1>11, Zenon DEF Inv

\* The invariant is inductive.
LEMMA NextInv == Inv /\ [Next]_vars => Inv'
<1> SUFFICES ASSUME Inv, [Next]_vars
             PROVE  Inv'
  BY Zenon
<1>1. CASE UNCHANGED vars
  BY <1>1, Zenon DEF vars, Inv, TypeOK, StreamInv
<1>2. CASE Next
  <2>1. PICK e \in Ends :
          \/ InitiateHandshake(e)
          \/ \E p \in BagToSet(net), again, ok \in BOOLEAN :
               InputPacket(e, p, again, ok)
          \/ \E ok \in BOOLEAN : OutputMessage(e, ok)
          \/ PeriodicCheck(e)
          \/ ShutDown(e)
          \/ AppRecv(e)
    BY <1>2, Zenon DEF Next
  <2> QED
    BY <2>1, InitiateHandshakeStep, InputPacketStep, OutputMessageStep,
       PeriodicCheckStep, ShutDownStep, AppRecvStep, Zenon
<1> QED
  BY <1>1, <1>2, Zenon

-----------------------------------------------------------------------------
(* What every action does to the senders.                                   *)

\* What every action but AppRecv has in common: end e moves to g.
LEMMA SenderStep ==
  ASSUME Inv, SenderInv, NEW e \in Ends, NEW g, Good(g), g.life # "absent",
         NEW in_flight, IsABag(in_flight),
         BagToSet(in_flight) \subseteq BagToSet(net), Step(e, g, in_flight),
         recvd' = recvd, reopened \subseteq reopened',
         NEW st, stream' = [stream EXCEPT ![e] = st],
         Len(g.tx.chain) <= Len(st),
         e \notin reopened' =>
           Numbered(g) /\ (g.fault = "over_ack" => g.state = "Closed"),
         e = "server" => g.state # "SynSent",
         e = "server" /\ Unanswered =>
           /\ g.state \notin {"Established", "SynSent"} /\ g.rx.ring = <<>>
           /\ Silent(g),
         e = "client" /\ g.state = "SynSent" =>
           Unanswered /\ g.callback # "up" /\ Silent(g),
         MaxShutDowns = 0 => reopened' = {} /\ g.state # "Closed" /\ NoRst(g)
  PROVE  SenderInv'
<1> DEFINE P == Peer(e)
           h == [g EXCEPT !.out = <<>>]
<1>1. P \in Ends /\ Peer(P) = e /\ P # e /\ \A x \in Ends : x = e \/ x = P
  BY PeerFacts, Zenon
<1>2. Fields(h, g.state, g.pcb, g.tx, g.rx, g.life, g.callback, g.fault, <<>>)
  BY WithOut, SMTT(60) DEF Good
<1>3. flow' = [flow EXCEPT ![e] = h] /\ net' = AddAll(in_flight, Outgoing(e, g))
  BY Zenon DEF Step
<1> HIDE DEF h
<1>4. flow'[e] = h /\ flow'[P] = flow[P]
  BY <1>1, <1>3, SMTT(60) DEF Inv
<1>5. stream'[e] = st /\ stream'[P] = stream[P]
  BY <1>1, Zenon DEF Inv, TypeOK
<1>6. \A p \in BagToSet(net') :
        \/ p \in BagToSet(net)
        \/ \E i \in 1..Len(g.out) : p = [to |-> P, hdr |-> g.out[i]]
  <2>1. g.out \in Seq(HdrType)
    BY Zenon DEF Good, FlowFieldsOK
  <2>2. \A p \in BagToSet(net') :
          \/ p \in BagToSet(in_flight)
          \/ \E i \in 1..Len(g.out) : p = [to |-> P, hdr |-> g.out[i]]
    BY <1>3, <2>1, OutgoingOK, Zenon
  <2> QED
    BY <2>2, Zenon
<1>7. ASSUME NEW x \in Ends
      PROVE  /\ SenderOK(x)' /\ Fresh(flow[x])'
             /\ (Len(flow[x].tx.chain) <= Len(stream[x]))'
  <2>1. CASE x = e
    <3>1. Numbered(g) => Numbered(h)
      BY <1>2, Zenon DEF Fields, Numbered, Outstanding, InFlight, SynPending
    <3>2. SenderOK(e)'
      BY <1>2, <1>4, <3>1, Zenon DEF SenderOK, Fields
    <3>3. Fresh(flow[e])' /\ (Len(flow[e].tx.chain) <= Len(stream[e]))'
      BY <1>2, <1>4, <1>5, Zenon DEF Fresh, Fields
    <3> QED
      BY <2>1, <3>2, <3>3, Zenon
  <2>2. CASE x = P
    <3>1. /\ SenderOK(P) /\ Fresh(flow[P])
          /\ Len(flow[P].tx.chain) <= Len(stream[P])
      BY <1>1, Zenon DEF SenderInv
    <3>2. P \notin reopened' => P \notin reopened
      BY Zenon
    <3>3. SenderOK(P)'
      BY <1>4, <3>1, <3>2, Zenon DEF SenderOK
    <3>4. Fresh(flow[P])' /\ (Len(flow[P].tx.chain) <= Len(stream[P]))'
      BY <1>4, <1>5, <3>1, Zenon DEF Fresh
    <3> QED
      BY <2>2, <3>3, <3>4, Zenon
  <2> QED
    BY <1>1, <2>1, <2>2, Zenon
<1>8. (flow["server"].state # "SynSent")'
  <2>1. "server" \in Ends /\ flow["server"].state # "SynSent"
    BY Zenon DEF Ends, SenderInv
  <2>2. "server" = e \/ "server" = P
    BY <1>1, <2>1, Zenon
  <2> QED
    BY <1>2, <1>4, <2>1, <2>2, Zenon DEF Fields
<1>9. Quiet'
  <2> SUFFICES ASSUME Unanswered'
               PROVE  /\ flow'["server"].state \notin {"Established", "SynSent"}
                      /\ flow'["server"].rx.ring = <<>>
                      /\ recvd'["server"] = <<>>
                      /\ flow'["client"].callback # "up"
                      /\ \A p \in BagToSet(net') :
                           p.hdr.flags \notin {"ACK", "DATA"}
    BY Zenon DEF Quiet
  <2>1. Quiet
    BY Zenon DEF SenderInv
  <2>2. Unanswered /\ Silent(g)
    <3>1. CASE e = "client"
      <4>1. flow'["client"].life # "absent" /\ flow'["client"].state = g.state
        BY <1>2, <1>4, <3>1, Zenon DEF Fields
      <4>2. g.state = "SynSent"
        BY <4>1, Zenon DEF Unanswered
      <4> QED
        BY <3>1, <4>2, Zenon
    <3>2. CASE e = "server"
      <4>1. flow'["client"] = flow["client"]
        BY <1>4, <3>2, Zenon DEF Peer
      <4>2. Unanswered
        BY <4>1, Zenon DEF Unanswered
      <4> QED
        BY <3>2, <4>2, Zenon
    <3> QED
      BY <3>1, <3>2, Zenon DEF Ends
  <2>3. /\ flow["server"].state \notin {"Established", "SynSent"}
        /\ flow["server"].rx.ring = <<>> /\ recvd["server"] = <<>>
        /\ flow["client"].callback # "up"
        /\ \A p \in BagToSet(net) : p.hdr.flags \notin {"ACK", "DATA"}
    BY <2>1, <2>2, Zenon DEF Quiet
  <2>4. \A p \in BagToSet(net') : p.hdr.flags \notin {"ACK", "DATA"}
    <3>1. \A i \in 1..Len(g.out) : g.out[i].flags \notin {"ACK", "DATA"}
      BY <2>2, Zenon DEF Silent
    <3> QED
      BY <1>6, <2>3, <3>1
  <2>5. CASE e = "client"
    <3>1. flow'["client"] = h /\ flow'["server"] = flow["server"]
      BY <1>4, <2>5, Zenon DEF Peer
    <3>2. g.state = "SynSent" /\ h.callback = g.callback
      BY <1>2, <3>1, Zenon DEF Unanswered, Fields
    <3> QED
      BY <2>3, <2>4, <2>5, <3>1, <3>2, Zenon
  <2>6. CASE e = "server"
    <3>1. flow'["server"] = h /\ flow'["client"] = flow["client"]
      BY <1>4, <2>6, Zenon DEF Peer
    <3>2. h.state = g.state /\ h.rx = g.rx
      BY <1>2, Zenon DEF Fields
    <3> QED
      BY <2>2, <2>3, <2>4, <2>6, <3>1, <3>2, SMTT(20)
  <2> QED
    BY <2>5, <2>6, Zenon DEF Ends
<1>10. NoReset'
  <2> SUFFICES ASSUME MaxShutDowns = 0
               PROVE  /\ reopened' = {}
                      /\ \A x \in Ends : flow'[x].state = "Closed"
                                         => flow'[x].life = "absent"
                      /\ \A p \in BagToSet(net') : p.hdr.flags # "RST"
    BY Zenon DEF NoReset
  <2>1. /\ \A x \in Ends : flow[x].state = "Closed" => flow[x].life = "absent"
        /\ \A p \in BagToSet(net) : p.hdr.flags # "RST"
    BY Zenon DEF SenderInv, NoReset
  <2>2. \A p \in BagToSet(net') : p.hdr.flags # "RST"
    BY <1>6, <2>1 DEF NoRst
  <2>3. ASSUME NEW x \in Ends, flow'[x].state = "Closed"
        PROVE  flow'[x].life = "absent"
    BY <1>1, <1>2, <1>4, <2>1, <2>3 DEF Fields
  <2> QED
    BY <2>2, <2>3, Zenon
<1> QED
  BY <1>7, <1>8, <1>9, <1>10, Zenon DEF SenderInv

\* What the two invariants say of one end.
LEMMA SenderFacts ==
  ASSUME Inv, SenderInv, NEW e \in Ends
  PROVE  /\ Good(flow[e]) /\ flow[e].out = <<>> /\ Roomy(flow[e])
         /\ NoRst(flow[e]) /\ Silent(flow[e])
         /\ SenderOK(e) /\ Fresh(flow[e]) /\ Quiet /\ NoReset
         /\ Len(flow[e].tx.chain) <= Len(stream[e])
         /\ Len(flow[e].tx.chain) \in Nat /\ Len(stream[e]) \in Nat
         /\ e = "server" => flow[e].state # "SynSent"
         /\ stream = [stream EXCEPT ![e] = stream[e]]
<1>1. /\ Good(flow[e]) /\ flow[e].out = <<>>
      /\ stream[e] \in Seq(BufType) /\ Len(stream[e]) + 1 < Modulus \div 2
  BY EndFacts, Zenon
<1>2. /\ SenderOK(e) /\ Fresh(flow[e]) /\ Quiet /\ NoReset
      /\ Len(flow[e].tx.chain) <= Len(stream[e])
      /\ e = "server" => flow[e].state # "SynSent"
  BY Zenon DEF SenderInv
<1>3. Len(flow[e].tx.chain) \in Nat /\ Len(stream[e]) \in Nat
  BY <1>1 DEF Good, FlowFieldsOK, TxType
<1>4. Roomy(flow[e])
  BY <1>1, <1>2, <1>3, HalfModulus, SMTT(20) DEF Roomy
<1>5. NoRst(flow[e]) /\ Silent(flow[e])
  BY <1>1 DEF NoRst, Silent
<1>6. stream = [stream EXCEPT ![e] = stream[e]]
  BY Zenon DEF Inv, TypeOK
<1> QED
  BY <1>1, <1>2, <1>3, <1>4, <1>5, <1>6, Zenon

\* A connect keeps the invariant.
LEMMA InitiateHandshakeSender ==
  ASSUME Inv, SenderInv, NEW e \in Ends, InitiateHandshake(e)
  PROVE  SenderInv'
<1> DEFINE f == flow[e]
           p == [f EXCEPT !.life = "live", !.state = "SynSent",
                          !.pcb = rto_reset(advance_snd_nxt(@, 1))]
           g == SendSyn(p, f.pcb.snd_nxt)
<1>1. /\ Good(f) /\ NoRst(f) /\ Silent(f) /\ Fresh(f) /\ Quiet /\ NoReset
      /\ Len(f.tx.chain) <= Len(stream[e])
      /\ Len(f.tx.chain) \in Nat /\ Len(stream[e]) \in Nat
      /\ stream = [stream EXCEPT ![e] = stream[e]]
  BY SenderFacts, Zenon
<1>2. /\ Step(e, g, net) /\ e = "client" /\ f.life = "absent"
      /\ recvd' = recvd /\ stream' = stream /\ reopened' = reopened
  BY Zenon DEF InitiateHandshake
<1>3. f.pcb = InitPcb /\ f.tx = InitTx /\ f.fault # "over_ack"
  BY <1>1, <1>2, Zenon DEF Fresh
<1>4. Unanswered /\ f.callback # "up"
  BY <1>1, <1>2, Zenon DEF Unanswered, Quiet
<1>5. Good(g)
  BY <1>1, <1>2, AnyContext, ConnectOK, Zenon
<1>6. /\ Numbered(g) /\ Len(g.tx.chain) <= Len(f.tx.chain)
      /\ g.state = "SynSent" /\ g.life = "live" /\ g.callback = f.callback
      /\ f.fault # "over_ack" => g.fault # "over_ack"
      /\ (NoRst(f) => NoRst(g)) /\ (Silent(f) => Silent(g))
  BY <1>1, <1>3, ConnectSender, Zenon
<1>7. IsABag(net) /\ BagToSet(net) \subseteq BagToSet(net)
  BY NetFacts, Zenon
<1> HIDE DEF g
<1>8. Len(g.tx.chain) <= Len(stream[e])
  <2>1. Len(g.tx.chain) \in Nat
    BY <1>5 DEF Good, FlowFieldsOK, TxType
  <2> QED
    BY <1>1, <1>6, <2>1, SMTT(20)
<1>9. MaxShutDowns = 0 => reopened' = {}
  BY <1>1, <1>2, Zenon DEF NoReset
<1> HIDE DEF f
<1>10. /\ g.life # "absent" /\ g.state # "Closed" /\ g.fault # "over_ack"
       /\ g.callback # "up" /\ NoRst(g) /\ Silent(g) /\ e # "server"
  BY <1>1, <1>2, <1>3, <1>4, <1>6, Zenon
<1>11. stream' = [stream EXCEPT ![e] = stream[e]] /\ reopened \subseteq reopened'
  BY <1>1, <1>2, Zenon
<1> QED
  BY <1>2, <1>4, <1>5, <1>6, <1>7, <1>8, <1>9, <1>10, <1>11, SenderStep,
     ZenonT(60)

\* A slow-timer tick keeps the invariant.
LEMMA PeriodicCheckSender ==
  ASSUME Inv, SenderInv, NEW e \in Ends, PeriodicCheck(e)
  PROVE  SenderInv'
<1> DEFINE f == flow[e]
           g == Tick(f)
<1>1. /\ Good(f) /\ NoRst(f) /\ Silent(f) /\ SenderOK(e) /\ Quiet /\ NoReset
      /\ Len(f.tx.chain) <= Len(stream[e])
      /\ Len(f.tx.chain) \in Nat /\ Len(stream[e]) \in Nat
      /\ e = "server" => f.state # "SynSent"
      /\ stream = [stream EXCEPT ![e] = stream[e]]
  BY SenderFacts, Zenon
<1>2. /\ Step(e, g, net) /\ f.life = "live" /\ f.fault = "none"
      /\ recvd' = recvd /\ stream' = stream /\ reopened' = reopened
  BY Zenon DEF PeriodicCheck, Running
<1>3. Good(g)
  BY <1>1, <1>2, AnyContext, TickOK, Zenon
<1>4. /\ Handled(f, g) /\ g.state = f.state /\ g.rx = f.rx
      /\ g.life # "absent" /\ g.fault # "over_ack"
      /\ f.callback # "up" => g.callback # "up"
      /\ f.state # "Established" => Silent(g)
  <2>1. f.fault # "over_ack"
    BY <1>2, Zenon
  <2> QED
    BY <1>1, <1>2, <2>1, TickSender, Zenon
<1>5. IsABag(net) /\ BagToSet(net) \subseteq BagToSet(net)
  BY NetFacts, Zenon
<1> HIDE DEF g
<1>6. Len(g.tx.chain) <= Len(stream[e])
  <2>1. Len(g.tx.chain) \in Nat
    BY <1>3 DEF Good, FlowFieldsOK, TxType
  <2>2. Len(g.tx.chain) <= Len(f.tx.chain)
    BY <1>4, Zenon DEF Handled
  <2> QED
    BY <1>1, <2>1, <2>2, SMTT(20)
<1>7. e \notin reopened' => Numbered(g)
  BY <1>1, <1>2, <1>4, Zenon DEF SenderOK, Handled
<1>8. e = "server" /\ Unanswered =>
        /\ g.state \notin {"Established", "SynSent"} /\ g.rx.ring = <<>>
        /\ Silent(g)
  BY <1>1, <1>4, Zenon DEF Quiet
<1>9. e = "client" /\ g.state = "SynSent" =>
        Unanswered /\ g.callback # "up" /\ Silent(g)
  BY <1>1, <1>4, Zenon DEF Quiet, Unanswered
<1>10. MaxShutDowns = 0 => reopened' = {} /\ g.state # "Closed" /\ NoRst(g)
  BY <1>1, <1>2, <1>4, Zenon DEF NoReset, Handled
<1>11. stream' = [stream EXCEPT ![e] = stream[e]] /\ reopened \subseteq reopened'
  BY <1>1, <1>2, Zenon
<1>12. e = "server" => g.state # "SynSent"
  BY <1>1, <1>4, Zenon
<1> HIDE DEF f
<1> QED
  BY <1>2, <1>3, <1>4, <1>5, <1>6, <1>7, <1>8, <1>9, <1>10, <1>11, <1>12,
     SenderStep, ZenonT(60)

\* The removal of a channel keeps the invariant.
LEMMA ShutDownSender ==
  ASSUME Inv, SenderInv, NEW e \in Ends, ShutDown(e)
  PROVE  SenderInv'
<1> DEFINE f == flow[e]
           g == Shut(f)
<1>1. /\ Good(f) /\ Silent(f) /\ Quiet
      /\ Len(f.tx.chain) <= Len(stream[e])
      /\ Len(f.tx.chain) \in Nat /\ Len(stream[e]) \in Nat
      /\ stream = [stream EXCEPT ![e] = stream[e]]
  BY SenderFacts, Zenon
<1>2. /\ Step(e, g, net) /\ f.life = "live" /\ downs < MaxShutDowns
      /\ recvd' = recvd /\ stream' = stream /\ reopened' = reopened
  BY Zenon DEF ShutDown, Running
<1>3. Good(g)
  BY <1>1, <1>2, AnyContext, ShutOK, Zenon
<1>4. /\ Len(g.tx.chain) <= Len(f.tx.chain) /\ g.state = "Closed"
      /\ g.rx = f.rx /\ g.life # "absent" /\ (Silent(f) => Silent(g))
  BY <1>1, ShutSender, Zenon
<1>5. IsABag(net) /\ BagToSet(net) \subseteq BagToSet(net)
  BY NetFacts, Zenon
<1> HIDE DEF g
<1>6. Len(g.tx.chain) <= Len(stream[e])
  <2>1. Len(g.tx.chain) \in Nat
    BY <1>3 DEF Good, FlowFieldsOK, TxType
  <2> QED
    BY <1>1, <1>4, <2>1, SMTT(20)
<1>7. Numbered(g) /\ g.state # "SynSent"
  BY <1>4, Zenon DEF Numbered
<1>8. e = "server" /\ Unanswered =>
        /\ g.state \notin {"Established", "SynSent"} /\ g.rx.ring = <<>>
        /\ Silent(g)
  BY <1>1, <1>4, Zenon DEF Quiet
<1>9. MaxShutDowns # 0
  <2>1. downs \in 0..MaxShutDowns
    BY NetFacts, Zenon
  <2> QED
    BY <1>2, <2>1
<1>10. stream' = [stream EXCEPT ![e] = stream[e]] /\ reopened \subseteq reopened'
  BY <1>1, <1>2, Zenon
<1> HIDE DEF f
<1> QED
  BY <1>2, <1>3, <1>4, <1>5, <1>6, <1>7, <1>8, <1>9, <1>10, SenderStep,
     ZenonT(60)

-----------------------------------------------------------------------------
(* The theorems.                                                            *)

\* The inductive invariant holds in every reachable state: how the control
\* blocks, chains, reassembly queues and packets relate to the two streams.
THEOREM Invariance == Spec => []Inv
  BY InitInv, NextInv, PTL DEF Spec

\* Every field of the two Flow objects and of the packets has its type: no
\* sequence of packets, ticks, submissions and shutdowns makes a sequence
\* number leave its width, the timer run past its threshold or a flow
\* retransmit more often than its limit (PeriodicCheck, process_ack, Consume).
THEOREM TypeCorrect == Spec => []TypeOK
<1>1. Inv => TypeOK
  BY Zenon DEF Inv
<1> QED
  BY <1>1, Invariance, PTL

\* ReceiveAcks releases a buffer only after the peer's Consume has accepted it,
\* and what is accepted is a prefix of what was submitted, whatever the network
\* loses, duplicates or reorders, as long as no closed flow accepts a SYN.
THEOREM ReleaseIsSafe == Spec => []ReleasedWasAccepted
<1>1. Inv => ReleasedWasAccepted
  <2> SUFFICES ASSUME Inv, reopened = {}, NEW e \in Ends
               PROVE  LET acc == flow[e].rx.accepted
                          released == Len(stream[Peer(e)])
                                        - Len(flow[Peer(e)].tx.chain)
                      IN  /\ Len(acc) <= Len(stream[Peer(e)])
                          /\ \A i \in 1..Len(acc) : acc[i] = stream[Peer(e)][i]
                          /\ released <= Len(acc)
    BY Zenon DEF ReleasedWasAccepted
  <2> DEFINE P == Peer(e)
             released == Len(stream[P]) - Len(flow[P].tx.chain)
             acc == flow[e].rx.accepted
  <2>1. P \in Ends /\ Peer(P) = e
    BY PeerFacts, Zenon
  <2>2. /\ SndOK(flow[P], stream[P]) /\ AckedOK(flow[P], stream[P], flow[e].pcb.rcv_nxt)
        /\ SndOK(flow[e], stream[e]) /\ RcvOK(flow[e].rx, stream[P])
    BY <2>1, Zenon DEF Inv, StreamInv, EndOK
  <2>3. /\ stream[P] \in Seq(BufType) /\ flow[P].tx.chain \in Seq(BufType)
        /\ acc \in Seq(BufType)
    BY <2>1, Zenon DEF Inv, TypeOK, FlowFieldsOK, TxType
  <2>4. released \in Int /\ Len(acc) \in Nat
    BY <2>3
  <2> HIDE DEF released, acc, P
  <2>5. released <= Len(acc)
    <3>1. CASE released = 0
      BY <2>4, <3>1
    <3>2. CASE released # 0
      <4>1. flow[P].pcb.snd_una <= flow[e].pcb.rcv_nxt
        BY <2>2, <3>2, SMTT(20) DEF AckedOK, released
      <4>2. stream[P] # <<>>
        BY <2>2, <2>3, <3>2 DEF SndOK, IsRest, released
      <4>3. flow[P].pcb.snd_una = released + 1
        BY <2>2, <4>2, Zenon DEF SndOK, Opening, Open, released
      <4>4. CASE Open(flow[e], stream[e])
        BY <2>4, <4>1, <4>3, <4>4 DEF Open, acc
      <4>5. CASE Opening(flow[e], stream[e])
        <5>1. flow[e].pcb.rcv_nxt <= 1
          BY <4>5 DEF Opening
        <5>2. released <= 0
          BY <2>4, <4>1, <4>3, <4>5, <5>1, SMTT(20) DEF Opening
        <5> QED
          BY <2>4, <5>2
      <4> QED
        BY <2>2, <4>4, <4>5, Zenon DEF SndOK
    <3> QED
      BY <3>1, <3>2, Zenon
  <2> QED
    BY <2>2, <2>5, Zenon DEF RcvOK, released, acc, P
<1> QED
  BY <1>1, Invariance, PTL

\* First transmissions (TransmitPackets) and all three kinds of
\* retransmissions pair a sequence number with the same buffer of the stream.
THEOREM SeqnosNameBuffers == Spec => []WireConsistent
<1>1. Inv => WireConsistent
  BY Zenon DEF Inv, StreamInv, HdrOK, WireConsistent
<1> QED
  BY <1>1, Invariance, PTL
=============================================================================
