---------------------------- MODULE FlowHandlers ----------------------------
(***************************************************************************)
(* Each operation on one flow object keeps it well-formed and consistent   *)
(* with the two streams: the handlers of the packets, the timer, the       *)
(* shutdown, the connect and the submission of a message. Their sending    *)
(* side stays consistent whatever the other end does.                      *)
(***************************************************************************)
EXTENDS FlowLemmas

-----------------------------------------------------------------------------
(* Packets.                                                                 *)

\* What a header says stays true when the streams grow and rcv_nxt advances.
LEMMA HdrMono ==
  ASSUME NEW h \in HdrType, NEW st \in Seq(BufType), NEW st2 \in Seq(BufType),
         NEW r \in Nat, NEW r2 \in Nat, r <= r2, Len(st) <= Len(st2),
         \A i \in 1..Len(st) : st2[i] = st[i], HdrOK(h, st, r)
  PROVE  HdrOK(h, st2, r2)
<1>1. CASE h.flags = "DATA"
  BY <1>1 DEF HdrOK
<1>2. CASE h.flags # "DATA"
  <2>1. h.ackno \in Nat
    BY <1>2, HalfModulus DEF HdrType
  <2> QED
    BY <1>2, <2>1 DEF HdrOK
<1> QED
  BY <1>1, <1>2, Zenon

\* Packets already written stay true when rcv_nxt advances.
LEMMA OutMono ==
  ASSUME NEW f, Good(f), NEW g, Good(g), NEW st \in Seq(BufType),
         g.out = f.out, g.pcb.rcv_nxt >= f.pcb.rcv_nxt, OutOK(f, st)
  PROVE  OutOK(g, st)
<1>1. f.pcb.rcv_nxt \in Nat /\ g.pcb.rcv_nxt \in Nat
  <2>1. f.pcb \in PcbType /\ g.pcb \in PcbType
    BY Zenon DEF Good, FlowFieldsOK
  <2> QED
    BY ONLY <2>1, HalfModulus, SMTT(60) DEF PcbType
<1>2. ASSUME NEW i \in 1..Len(f.out)
      PROVE  HdrOK(f.out[i], st, g.pcb.rcv_nxt)
  <2>1. HdrOK(f.out[i], st, f.pcb.rcv_nxt) /\ f.out[i] \in HdrType
    BY DEF OutOK, Good, FlowFieldsOK
  <2> QED
    BY <1>1, <2>1, HdrMono, SMTT(60)
<1> QED
  BY <1>2, Zenon DEF OutOK

\* A data packet keeps the flow consistent.
LEMMA InputDataOK ==
  ASSUME NEW f, Good(f), NEW h, h.seqno \in 0..(Modulus - 1),
         h.buf \in BufType, NEW ok \in BOOLEAN,
         NEW st, NEW peer_st, NEW r, Context(st, peer_st, r)
  PROVE  LET g == InputData(f, h, ok)
         IN  /\ Good(g) /\ g.life = f.life
             /\ Safe(f, st, peer_st, r) /\ f.life # "absent"
                /\ h.seqno \in 1..Len(peer_st) /\ h.buf = peer_st[h.seqno]
                => Safe(g, st, peer_st, r) /\ g.pcb.rcv_nxt >= f.pcb.rcv_nxt
<1> DEFINE c == Consume(f.pcb, f.rx, h.seqno, h.buf, ok)
           fault == IF c.rx.fatal THEN "ring_full" ELSE f.fault
           g == [f EXCEPT !.pcb = c.pcb, !.rx = c.rx, !.fault = fault]
<1>1. /\ f.pcb \in PcbType /\ f.rx.reass_q \in Seq(EntryType)
      /\ f.rx.accepted \in Seq(BufType)
      /\ RxFields(f.rx, f.rx.reass_q, f.rx.train, f.rx.ring, f.rx.fatal,
                  f.rx.accepted)
      /\ peer_st \in Seq(BufType) /\ Len(peer_st) + 1 < Modulus \div 2
  BY Zenon DEF Good, FlowFieldsOK, FlowShape, EntryType, Context
<1>0. f.pcb.rcv_nxt \in Nat /\ f.pcb.snd_nxt \in 0..(Modulus - 1)
  BY ONLY <1>1, HalfModulus, SMTT(60) DEF PcbType
<1>2. /\ c.pcb \in PcbType /\ c.pcb.rto_timer = f.pcb.rto_timer
      /\ c.pcb.snd_una = f.pcb.snd_una /\ c.pcb.snd_nxt = f.pcb.snd_nxt
      /\ RxFields(c.rx, c.rx.reass_q, c.rx.train, c.rx.ring, c.rx.fatal,
                  c.rx.accepted)
      /\ c.rx.reass_q \in Seq(EntryType)
      /\ c.rx.accepted \in Seq(BufType)
      /\ RcvOK(f.rx, peer_st) /\ f.pcb.rcv_nxt = Len(f.rx.accepted) + 1
         /\ h.seqno \in 1..Len(peer_st) /\ h.buf = peer_st[h.seqno] =>
           /\ RcvOK(c.rx, peer_st)
           /\ c.pcb.rcv_nxt = Len(c.rx.accepted) + 1
           /\ c.pcb.rcv_nxt >= f.pcb.rcv_nxt
  BY <1>1, ConsumeOK, ZenonT(30)
<1> HIDE DEF c
<1>3. fault \in {"none", "no_unacked", "off_chain", "over_ack", "ring_full"}
  BY Zenon DEF Good, FlowFieldsOK
<1> HIDE DEF fault
<1>4. Fields(g, f.state, c.pcb, f.tx, c.rx, f.life, f.callback, fault, f.out)
  BY Zenon DEF Good, FlowShape, Fields
<1> HIDE DEF g
<1>5. Good(g)
  <2>1. FlowShape(g)
    BY <1>2, <1>4, Zenon DEF FlowShape, Fields, RxFields
  <2>2. FlowFieldsOK(g)
    BY <1>2, <1>3, <1>4, Zenon DEF Good, FlowFieldsOK, Fields, EntryType
  <2>3. TimerOK(g)
    BY <1>2, <1>4, Zenon DEF Good, TimerOK, Fields
  <2> QED
    BY <1>4, <2>1, <2>2, <2>3, Zenon DEF Good, Fields
<1>6. ASSUME f.state = "Established", Safe(f, st, peer_st, r),
             f.life # "absent", h.seqno \in 1..Len(peer_st),
             h.buf = peer_st[h.seqno]
      PROVE  Safe(g, st, peer_st, r) /\ g.pcb.rcv_nxt >= f.pcb.rcv_nxt
  <2>1. Open(f, st) /\ IsRest(f.tx.chain, st) /\ RcvOK(f.rx, peer_st)
    BY <1>6, Zenon DEF Safe, EndOK, SndOK, Opening
  <2>2. f.pcb.rcv_nxt = Len(f.rx.accepted) + 1
    BY <2>1, Zenon DEF Open
  <2>3. /\ RcvOK(c.rx, peer_st) /\ c.pcb.rcv_nxt = Len(c.rx.accepted) + 1
        /\ c.pcb.rcv_nxt >= f.pcb.rcv_nxt
    BY <1>2, <1>6, <2>1, <2>2, Zenon
  <2>4. Open(g, st)
    BY <1>2, <1>4, <2>1, <2>3, Zenon DEF Open, Fields
  <2>5. AckedOK(g, st, r)
    BY <1>2, <1>4, <1>6, Zenon DEF Safe, EndOK, AckedOK, Fields
  <2>6. OutOK(g, st)
    <3>1. g.out = f.out /\ g.pcb.rcv_nxt >= f.pcb.rcv_nxt
      BY <1>4, <2>3, Zenon DEF Fields
    <3> QED
      BY <1>5, <1>6, <3>1, OutMono, Zenon DEF Safe, Context
  <2> QED
    BY <1>4, <2>1, <2>3, <2>4, <2>5, <2>6, Zenon DEF Safe, EndOK, SndOK, Fields
<1>7. CASE f.state # "Established"
  <2>1. InputData(f, h, ok) = f
    BY <1>7, Zenon DEF InputData
  <2> QED
    BY <1>0, <2>1
<1>8. CASE f.state = "Established" /\ c.rc = 0 /\ ~c.rx.fatal
  <2>1. InputData(f, h, ok) = SendAck(g)
    BY <1>8, Zenon DEF InputData, c, g, fault
  <2>2. SendAck(g) = SendControlPacket(g, g.pcb.snd_nxt, "ACK")
    BY Zenon DEF SendAck
  <2>3. g.pcb.snd_nxt \in 0..(Modulus - 1)
    BY <1>0, <1>2, <1>4, Zenon DEF Fields
  <2>4. g.life = f.life
    BY <1>4, Zenon DEF Fields
  <2> DEFINE k == SendControlPacket(g, g.pcb.snd_nxt, "ACK")
  <2>5. /\ Good(k) /\ k.life = g.life /\ k.pcb = g.pcb
        /\ Safe(g, st, peer_st, r) => Safe(k, st, peer_st, r)
    BY <1>5, <2>3, SendControlPacketOK, Zenon
  <2> HIDE DEF k
  <2>6. InputData(f, h, ok) = k
    BY <2>1, <2>2, Zenon DEF k
  <2> QED
    BY <1>6, <1>8, <2>4, <2>5, <2>6, Zenon
<1>9. CASE f.state = "Established" /\ ~(c.rc = 0 /\ ~c.rx.fatal)
  <2>1. InputData(f, h, ok) = g
    BY <1>9, Zenon DEF InputData, c, g, fault
  <2> QED
    BY <1>4, <1>5, <1>6, <1>9, <2>1, Zenon DEF Fields
<1> QED
  BY <1>7, <1>8, <1>9, Zenon

\* A reset keeps the flow consistent.
LEMMA InputRstOK ==
  ASSUME NEW f, Good(f), NEW h, NEW st, NEW peer_st, NEW r
  PROVE  LET g == InputRst(f, h)
         IN  /\ Good(g) /\ g.life = f.life /\ g.pcb.rcv_nxt = f.pcb.rcv_nxt
             /\ Safe(f, st, peer_st, r) /\ f.life # "absent"
                => Safe(g, st, peer_st, r)
<1> DEFINE g == [f EXCEPT !.state = "Closed"]
<1>1. Fields(g, "Closed", f.pcb, f.tx, f.rx, f.life, f.callback, f.fault, f.out)
  BY Zenon DEF Good, FlowShape, Fields
<1>2. InputRst(f, h) \in {f, g}
  BY Zenon DEF InputRst
<1> HIDE DEF g
<1>3. Good(g)
  <2>1. FlowShape(g)
    BY <1>1, Zenon DEF Good, FlowShape, Fields
  <2>2. FlowFieldsOK(g)
    BY <1>1, Zenon DEF Good, FlowFieldsOK, Fields
  <2> QED
    BY <1>1, <2>1, <2>2, Zenon DEF Good, TimerOK, Fields
<1>4. ASSUME Safe(f, st, peer_st, r), f.life # "absent"
      PROVE  Safe(g, st, peer_st, r)
  <2>1. SndOK(g, st)
    BY <1>1, <1>4, Zenon DEF Safe, EndOK, SndOK, Opening, Open, Fields
  <2> QED
    BY <1>1, <1>4, <2>1, Zenon DEF Safe, EndOK, AckedOK, OutOK, Fields
<1> QED
  BY <1>1, <1>2, <1>3, <1>4, Zenon DEF Fields

\* A SYN-ACK keeps the flow consistent.
LEMMA InputSynAckOK ==
  ASSUME NEW f, Good(f), NEW h, h.seqno \in 0..(Modulus - 1),
         NEW st, NEW peer_st, NEW r, Context(st, peer_st, r)
  PROVE  LET g == InputSynAck(f, h)
         IN  /\ Good(g) /\ g.life = f.life
             /\ Safe(f, st, peer_st, r) /\ f.life # "absent" /\ h.seqno = 0
                => Safe(g, st, peer_st, r) /\ g.pcb.rcv_nxt >= f.pcb.rcv_nxt
<1> DEFINE p == [f.pcb EXCEPT !.snd_una = Wrap(@ + 1),
                              !.rcv_nxt = Wrap(h.seqno + 1)]
           q == rto_maybe_reset(p)
           g == [f EXCEPT !.pcb = q, !.state = "Established",
                          !.callback = "up"]
           k == IF f.state = "SynSent" THEN g ELSE f
<1>0. f.pcb \in PcbType
  BY Zenon DEF Good, FlowFieldsOK
<1>1. /\ Wrap(f.pcb.snd_una + 1) \in 0..(Modulus - 1)
      /\ Wrap(h.seqno + 1) \in 0..(Modulus - 1)
  BY <1>0, WrapRange, HalfModulus DEF PcbType
<1>2. /\ p \in PcbType /\ p.snd_una = Wrap(f.pcb.snd_una + 1)
      /\ p.snd_nxt = f.pcb.snd_nxt /\ p.rcv_nxt = Wrap(h.seqno + 1)
  BY ONLY <1>0, <1>1, ZenonT(30) DEF PcbType
<1> HIDE DEF p
<1>3. /\ q \in PcbType /\ SameSeqnos(q, p) /\ q.rto_timer \in {-1, 0}
  BY <1>2, TimerOps, Zenon DEF rto_maybe_reset
<1> HIDE DEF q
<1>4. Fields(g, "Established", q, f.tx, f.rx, f.life, "up", f.fault, f.out)
  BY Zenon DEF Good, FlowShape, Fields
<1> HIDE DEF g
<1>5. Good(g)
  <2>1. FlowShape(g)
    BY <1>4, Zenon DEF Good, FlowShape, Fields
  <2>2. FlowFieldsOK(g)
    BY <1>3, <1>4, Zenon DEF Good, FlowFieldsOK, Fields
  <2>3. TimerOK(g)
    BY <1>3, <1>4, SwiftAssumption DEF TimerOK, Fields, SwiftAssumption
  <2> QED
    BY <1>4, <2>1, <2>2, <2>3, Zenon DEF Good, Fields
<1>6. ASSUME Safe(f, st, peer_st, r), f.life # "absent", h.seqno = 0,
             f.state = "SynSent"
      PROVE  Safe(g, st, peer_st, r) /\ g.pcb.rcv_nxt >= f.pcb.rcv_nxt
  <2>1. /\ Opening(f, st) /\ f.pcb.snd_una = 0 /\ f.pcb.snd_nxt = 1
        /\ f.pcb.rcv_nxt = 0 /\ st = <<>> /\ f.rx.accepted = <<>>
        /\ Len(f.tx.chain) <= Len(st)
    BY <1>6, Zenon DEF Safe, EndOK, SndOK, Opening, Open, IsRest
  <2>2. q.snd_una = 1 /\ q.snd_nxt = 1 /\ q.rcv_nxt = 1
    BY <1>2, <1>3, <1>6, <2>1, WrapSmall, HalfModulus DEF SameSeqnos
  <2>3. Len(st) = 0 /\ Len(f.tx.chain) = 0 /\ f.tx.num_unsent = 0
        /\ Len(f.rx.accepted) = 0
    BY <2>1 DEF Good, FlowFieldsOK, TxOK, TxType
  <2>4. Open(g, st)
    BY <1>4, <1>6, <2>2, <2>3 DEF Open, Fields
  <2>5. OutOK(g, st)
    <3>1. g.out = f.out /\ g.pcb.rcv_nxt >= f.pcb.rcv_nxt
      BY <1>4, <2>1, <2>2 DEF Fields
    <3> QED
      BY <1>5, <1>6, <3>1, OutMono, Zenon DEF Safe, Context
  <2>6. AckedOK(g, st, r)
    BY <1>4, <2>3 DEF AckedOK, Fields
  <2> QED
    BY <1>4, <1>6, <2>1, <2>2, <2>4, <2>5, <2>6
    DEF Safe, EndOK, SndOK, Fields
<1>7. f.pcb.rcv_nxt \in Nat /\ k.pcb.snd_nxt \in 0..(Modulus - 1)
  <2>1. q.snd_nxt = f.pcb.snd_nxt
    BY <1>2, <1>3, Zenon DEF SameSeqnos
  <2>2. f.pcb.rcv_nxt \in Nat /\ f.pcb.snd_nxt \in 0..(Modulus - 1)
    BY ONLY <1>0, HalfModulus DEF PcbType
  <2> QED
    BY <1>4, <2>1, <2>2, Zenon DEF Fields
<1>8. /\ Good(k) /\ k.life = f.life
      /\ Safe(f, st, peer_st, r) /\ f.life # "absent" /\ h.seqno = 0
         => Safe(k, st, peer_st, r) /\ k.pcb.rcv_nxt >= f.pcb.rcv_nxt
  BY <1>4, <1>5, <1>6, <1>7 DEF Fields
<1> DEFINE a == SendControlPacket(k, k.pcb.snd_nxt, "ACK")
<1>9. InputSynAck(f, h) \in {f, a}
  BY Zenon DEF InputSynAck, SendAck, k, g, q, p
<1> HIDE DEF k
<1>10. /\ Good(a) /\ a.life = k.life /\ a.pcb = k.pcb
       /\ Safe(k, st, peer_st, r) => Safe(a, st, peer_st, r)
  BY <1>7, <1>8, SendControlPacketOK, SMTT(60)
<1> HIDE DEF a
<1> QED
  BY <1>7, <1>8, <1>9, <1>10

\* A SYN that finds a closed flow is accepted; only the first one finds the
\* flow as it was created.
LEMMA InputSynOK ==
  ASSUME NEW f, Good(f), NEW h, h.seqno \in 0..(Modulus - 1),
         NEW st, NEW peer_st, NEW r, Context(st, peer_st, r)
  PROVE  LET g == InputSyn(f, h)
         IN  /\ Good(g) /\ g.life = f.life
             /\ Safe(f, st, peer_st, r) /\ f.life # "absent" /\ h.seqno = 0
                /\ (f.state = "Closed" => f.pcb = InitPcb /\ Opening(f, st))
                => Safe(g, st, peer_st, r) /\ g.pcb.rcv_nxt >= f.pcb.rcv_nxt
<1> DEFINE p == [f.pcb EXCEPT !.rcv_nxt = Wrap(h.seqno + 1)]
           g == [f EXCEPT !.pcb = p, !.state = "SynReceived"]
           a == SendControlPacket(g, f.pcb.snd_nxt, "SYNACK")
           q == advance_snd_nxt(p, 1)
           b == SetPcb(a, q)
<1>0. f.pcb \in PcbType
  BY Zenon DEF Good, FlowFieldsOK
<1>1. /\ f.pcb.rcv_nxt \in Nat /\ f.pcb.snd_nxt \in 0..(Modulus - 1)
      /\ f.pcb.snd_una \in 0..(Modulus - 1)
      /\ Wrap(h.seqno + 1) \in 0..(Modulus - 1)
  BY <1>0, WrapRange, HalfModulus DEF PcbType
<1>2. /\ p \in PcbType /\ p.rcv_nxt = Wrap(h.seqno + 1)
      /\ p.snd_una = f.pcb.snd_una /\ p.snd_nxt = f.pcb.snd_nxt
      /\ p.rto_timer = f.pcb.rto_timer
  BY ONLY <1>0, <1>1 DEF PcbType
<1>3. CASE f.state = "Closed"
  <2>1. InputSyn(f, h) = [a EXCEPT !.pcb = advance_snd_nxt(@, 1)]
    <3> DEFINE g0 == [f EXCEPT !.pcb.rcv_nxt = Wrap(h.seqno + 1),
                               !.state = "SynReceived"]
    <3>1. InputSyn(f, h) = [SendControlPacket(g0, f.pcb.snd_nxt, "SYNACK")
                              EXCEPT !.pcb = advance_snd_nxt(@, 1)]
      BY <1>3, Zenon DEF InputSyn, SendSynAck
    <3>2. g0 = g
      BY Zenon DEF Good, FlowShape, Fields
    <3> QED
      BY <3>1, <3>2, Zenon
  <2> HIDE DEF p
  <2>2. Fields(g, "SynReceived", p, f.tx, f.rx, f.life, f.callback, f.fault,
               f.out)
    BY Zenon DEF Good, FlowShape, Fields
  <2> HIDE DEF g
  <2>3. Good(g)
    <3>1. FlowShape(g)
      BY <2>2, Zenon DEF Good, FlowShape, Fields
    <3>2. FlowFieldsOK(g)
      BY <1>2, <2>2, Zenon DEF Good, FlowFieldsOK, Fields
    <3> QED
      BY <1>2, <2>2, <3>1, <3>2, Zenon DEF Good, TimerOK, Fields
  <2>4. /\ Good(a) /\ a.life = f.life /\ a.pcb = p
    BY <1>1, <2>2, <2>3, SendControlPacketOK, Zenon DEF Fields
  <2>5. /\ q \in PcbType /\ q.snd_nxt = Wrap(f.pcb.snd_nxt + 1)
        /\ q.rcv_nxt = p.rcv_nxt /\ q.snd_una = p.snd_una
        /\ q.rto_timer = f.pcb.rto_timer
    <3>1. p \in PcbType /\ 1 \in Int
      BY <1>2
    <3>2. /\ q \in PcbType /\ q.snd_nxt = Wrap(p.snd_nxt + 1)
          /\ q.snd_una = p.snd_una /\ q.rcv_nxt = p.rcv_nxt
          /\ q.rto_timer = p.rto_timer
      BY ONLY <3>1, AdvanceOps, Zenon
    <3> QED
      BY <1>2, <3>2, Zenon
  <2>6. Fields(a, "SynReceived", p, f.tx, f.rx, f.life, f.callback, f.fault,
               a.out)
    <3>1. PICK x : a = [g EXCEPT !.out = x]
      BY Zenon DEF SendControlPacket
    <3>2. FlowShape(g)
      BY <2>3, Zenon DEF Good
    <3> QED
      BY <2>2, <3>1, <3>2, WithOut, Zenon DEF Fields
  <2>7. ASSUME Safe(f, st, peer_st, r), h.seqno = 0, f.pcb = InitPcb,
               Opening(f, st)
        PROVE  OutOK(a, st)
    <3>1. f.pcb.snd_nxt = 0 /\ f.pcb.rcv_nxt = 0 /\ p.rcv_nxt = 1
      BY <1>2, <2>7, WrapSmall, HalfModulus DEF InitPcb
    <3>2. OutOK(g, st)
      <4>1. g.out = f.out /\ g.pcb.rcv_nxt >= f.pcb.rcv_nxt
        BY <2>2, <3>1 DEF Fields
      <4> QED
        BY <2>3, <2>7, <4>1, OutMono, Zenon DEF Safe, Context
    <3> DEFINE x == [flags |-> "SYNACK", seqno |-> 0, ackno |-> p.rcv_nxt,
                     sack |-> HdrBitmap(p), count |-> p.sack_bitmap_count]
    <3>3. a.out = Append(f.out, x)
      <4> DEFINE y == Append(g.out, [flags |-> "SYNACK", seqno |-> f.pcb.snd_nxt,
                       ackno |-> g.pcb.rcv_nxt, sack |-> HdrBitmap(g.pcb),
                       count |-> g.pcb.sack_bitmap_count])
      <4>1. a = [g EXCEPT !.out = y]
        BY Zenon DEF SendControlPacket
      <4>2. y = Append(f.out, x)
        BY <2>2, <3>1, Zenon DEF Fields
      <4> HIDE DEF y
      <4>3. a.out = y
        BY <2>3, <4>1, WithOut, Zenon DEF Good, Fields
      <4> QED
        BY <4>2, <4>3, Zenon
    <3>4. HdrOK(x, st, p.rcv_nxt)
      <4>1. x.flags = "SYNACK" /\ x.seqno = 0 /\ x.ackno = p.rcv_nxt
        BY Zenon
      <4> HIDE DEF x
      <4> QED
        BY <3>1, <4>1 DEF HdrOK
    <3> HIDE DEF x
    <3>5. f.out \in Seq(HdrType) /\ g.out = f.out /\ g.pcb = p
      BY <2>2, Zenon DEF Good, FlowFieldsOK, Fields
    <3> HIDE DEF a
    <3>6. ASSUME NEW i \in 1..Len(a.out)
          PROVE  HdrOK(a.out[i], st, p.rcv_nxt)
      BY <3>2, <3>3, <3>4, <3>5, SMTT(30) DEF OutOK
    <3> QED
      BY <2>4, <3>6, Zenon DEF OutOK
  <2> HIDE DEF a
  <2>8. InputSyn(f, h) = b
    BY <2>1, <2>4, Zenon DEF SetPcb
  <2> HIDE DEF q
  <2>9. Good(b) /\ b.life = f.life /\ b.pcb = q
    BY <2>4, <2>5, PcbChange, Zenon DEF Good, TimerOK
  <2>10. Fields(b, "SynReceived", q, f.tx, f.rx, f.life, f.callback, f.fault,
                a.out)
    BY <2>4, <2>6, WithPcb, Zenon DEF Good, SetPcb, Fields
  <2> HIDE DEF b
  <2>11. ASSUME Safe(f, st, peer_st, r), f.life # "absent", h.seqno = 0,
                f.pcb = InitPcb, Opening(f, st)
         PROVE  Safe(b, st, peer_st, r) /\ b.pcb.rcv_nxt >= f.pcb.rcv_nxt
    <3>1. /\ q.snd_nxt = 1 /\ q.rcv_nxt = 1 /\ q.snd_una = 0
          /\ f.pcb.rcv_nxt = 0
      BY <1>2, <2>5, <2>11, WrapSmall, HalfModulus DEF InitPcb
    <3>2. Opening(b, st)
      BY <2>10, <2>11, <3>1, Zenon DEF Opening, Fields
    <3>3. OutOK(b, st)
      BY <2>4, <2>5, <2>7, <2>10, <2>11, Zenon DEF OutOK, Fields
    <3>4. AckedOK(b, st, r) /\ IsRest(b.tx.chain, st) /\ RcvOK(b.rx, peer_st)
      BY <2>10, <2>11, <3>1, Zenon
      DEF Safe, EndOK, SndOK, AckedOK, Fields, Opening, InitPcb
    <3> QED
      BY <2>9, <3>1, <3>2, <3>3, <3>4, SMTT(30) DEF Safe, EndOK, SndOK
  <2> QED
    BY <1>3, <2>8, <2>9, <2>11, Zenon
<1>4. CASE f.state = "SynReceived"
  <2> DEFINE k == SendControlPacket(f, f.pcb.snd_una, "SYNACK")
  <2>1. InputSyn(f, h) = k
    BY <1>4, Zenon DEF InputSyn, SendSynAck
  <2>2. Safe(f, st, peer_st, r) => f.pcb.snd_una = 0
    BY <1>4, Zenon DEF Safe, EndOK, SndOK, Opening, Open
  <2>3. /\ Good(k) /\ k.life = f.life /\ k.pcb = f.pcb
        /\ Safe(f, st, peer_st, r) => Safe(k, st, peer_st, r)
    BY <1>1, <2>2, SendControlPacketOK, Zenon
  <2> QED
    BY <1>1, <2>1, <2>3, SMTT(30)
<1>5. CASE f.state \notin {"Closed", "SynReceived"}
  <2>1. InputSyn(f, h) = f
    BY <1>5, Zenon DEF InputSyn
  <2> QED
    BY <1>1, <2>1
<1> QED
  BY <1>3, <1>4, <1>5, Zenon

\* InputPacket keeps the flow consistent, for all five kinds of packets.
LEMMA HandlePacketOK ==
  ASSUME NEW f, Good(f), NEW h \in HdrType, NEW ok \in BOOLEAN,
         NEW st, NEW peer_st, NEW r, Context(st, peer_st, r)
  PROVE  LET g == HandlePacket(f, h, ok)
         IN  /\ Good(g) /\ g.life = f.life
             /\ Safe(f, st, peer_st, r) /\ f.life # "absent"
                /\ HdrOK(h, peer_st, r)
                /\ (h.flags = "SYN" /\ f.state = "Closed"
                      => f.pcb = InitPcb /\ Opening(f, st))
                => Safe(g, st, peer_st, r) /\ g.pcb.rcv_nxt >= f.pcb.rcv_nxt
<1>0. f.pcb.rcv_nxt \in Nat /\ f.pcb.rcv_nxt >= f.pcb.rcv_nxt
  <2>1. f.pcb \in PcbType
    BY Zenon DEF Good, FlowFieldsOK
  <2> QED
    BY ONLY <2>1, HalfModulus DEF PcbType
<1>1. CASE h.flags = "SYN"
  <2>1. HandlePacket(f, h, ok) = InputSyn(f, h)
    BY <1>1, Zenon DEF HandlePacket
  <2>2. h.seqno \in 0..(Modulus - 1) /\ (HdrOK(h, peer_st, r) => h.seqno = 0)
    BY <1>1, Zenon DEF HdrType, HdrOK
  <2> QED
    BY <1>1, <2>1, <2>2, InputSynOK, Zenon
<1>2. CASE h.flags = "SYNACK"
  <2>1. HandlePacket(f, h, ok) = InputSynAck(f, h)
    BY <1>2, Zenon DEF HandlePacket
  <2>2. h.seqno \in 0..(Modulus - 1) /\ (HdrOK(h, peer_st, r) => h.seqno = 0)
    BY <1>2, Zenon DEF HdrType, HdrOK
  <2> QED
    BY <2>1, <2>2, InputSynAckOK, Zenon
<1>3. CASE h.flags = "RST"
  <2>1. HandlePacket(f, h, ok) = InputRst(f, h)
    BY <1>3, Zenon DEF HandlePacket
  <2> QED
    BY <1>0, <2>1, InputRstOK, Zenon
<1>4. CASE h.flags = "ACK"
  <2>1. HandlePacket(f, h, ok) = process_ack(f, h, ok)
    BY <1>4, Zenon DEF HandlePacket
  <2>2. /\ h.ackno \in 0..(Modulus - 1) /\ h.count \in 0..255
        /\ HdrOK(h, peer_st, r) => h.ackno <= r
    BY <1>4, Zenon DEF HdrType, HdrOK
  <2> QED
    BY <1>0, <2>1, <2>2, ProcessAckOK
<1>5. CASE h.flags = "DATA"
  <2>1. HandlePacket(f, h, ok) = InputData(f, h, ok)
    BY <1>5, Zenon DEF HandlePacket
  <2>2. /\ h.seqno \in 0..(Modulus - 1) /\ h.buf \in BufType
        /\ HdrOK(h, peer_st, r) =>
             h.seqno \in 1..Len(peer_st) /\ h.buf = peer_st[h.seqno]
    BY <1>5, Zenon DEF HdrType, HdrOK
  <2> QED
    BY <2>1, <2>2, InputDataOK
<1> QED
  BY <1>1, <1>2, <1>3, <1>4, <1>5, Zenon DEF HdrType

-----------------------------------------------------------------------------
(* The slow timer.                                                          *)

\* RTORetransmit keeps the flow consistent in all three states.
LEMMA RTORetransmitOK ==
  ASSUME NEW f, Good(f), f.state # "Closed", ~max_rexmits_reached(f.pcb),
         NEW st, NEW peer_st, NEW r, Context(st, peer_st, r)
  PROVE  LET g == RTORetransmit(SetPcb(f, rto_advance(f.pcb)))
         IN  /\ Good(g) /\ g.life = f.life /\ g.pcb.rcv_nxt = f.pcb.rcv_nxt
             /\ Safe(f, st, peer_st, r) /\ f.life # "absent"
                => Safe(g, st, peer_st, r)
<1> DEFINE q == rto_advance(f.pcb)
           p == SetPcb(f, q)
           z == Again(rto_reset(q))
<1>0. f.pcb \in PcbType /\ FlowShape(f)
  BY Zenon DEF Good, FlowFieldsOK
<1>1. /\ f.pcb.snd_una \in 0..(Modulus - 1) /\ f.pcb.rcv_nxt \in Nat
      /\ f.pcb.rto_rexmits + 1 \in 0..kRexmitThreshold
  BY <1>0, HalfModulus, SwiftAssumption
  DEF PcbType, max_rexmits_reached, SwiftAssumption
<1>2. /\ z \in PcbType /\ SameSeqnos(z, f.pcb) /\ z.rto_timer = 0
      /\ q.snd_una = f.pcb.snd_una
  <2>1. q.rto_rexmits = f.pcb.rto_rexmits /\ SameSeqnos(q, f.pcb)
    BY <1>0, Zenon DEF PcbType, rto_advance, SameSeqnos
  <2> DEFINE u == rto_reset(q)
  <2>2. u \in PcbType /\ u.rto_timer = 0 /\ SameSeqnos(u, f.pcb)
        /\ u.rto_rexmits = f.pcb.rto_rexmits
    <3>1. u = rto_reset(f.pcb)
      BY <1>0, Zenon DEF PcbType, rto_reset, rto_advance
    <3>2. rto_reset(f.pcb).rto_rexmits = f.pcb.rto_rexmits
      BY <1>0, Zenon DEF PcbType, rto_reset
    <3> QED
      BY <1>0, <3>1, <3>2, TimerOps, Zenon
  <2>3. z = [u EXCEPT !.rto_rexmits = u.rto_rexmits + 1]
    BY SMTT(20) DEF u, Again
  <2> HIDE DEF u, z
  <2>4. z \in PcbType
    BY <1>1, <2>2, <2>3 DEF PcbType
  <2>5. SameSeqnos(z, u) /\ z.rto_timer = u.rto_timer
    BY <2>2, <2>3 DEF PcbType, SameSeqnos
  <2> QED
    BY <2>1, <2>2, <2>4, <2>5, Zenon DEF SameSeqnos
<1>3. z.rto_timer < kRtoThresholdInTicks
  BY <1>2, SwiftAssumption DEF SwiftAssumption
<1>4. p.state = f.state /\ p.pcb = q
  BY <1>0, WithPcb, Zenon DEF SetPcb, Fields
<1>5. ASSUME NEW x, NEW y, Good(y), y.life = f.life, x.pcb = q,
             SetPcb(x, z) = SetPcb(y, z),
             Safe(f, st, peer_st, r) => Safe(y, st, peer_st, r),
             y.pcb = f.pcb,
             RTORetransmit(p) =
               SetPcb(x, Again(rto_reset(x.pcb)))
      PROVE  LET g == RTORetransmit(p)
             IN  /\ Good(g) /\ g.life = f.life /\ g.pcb.rcv_nxt = f.pcb.rcv_nxt
                 /\ Safe(f, st, peer_st, r) /\ f.life # "absent"
                    => Safe(g, st, peer_st, r)
  <2>1. RTORetransmit(p) = SetPcb(x, z)
    BY <1>5, Zenon
  <2> HIDE DEF q, z, p
  <2>2. /\ Good(SetPcb(y, z)) /\ SetPcb(y, z).life = y.life
        /\ SetPcb(y, z).pcb = z
        /\ Safe(y, st, peer_st, r) /\ y.life # "absent"
           => Safe(SetPcb(y, z), st, peer_st, r)
    BY <1>2, <1>3, <1>5, PcbChange, Zenon
  <2> QED
    BY <1>2, <1>5, <2>1, <2>2, Zenon DEF SameSeqnos
<1>6. CASE f.state = "Established"
  <2> DEFINE s == f.pcb.snd_una
             x == SendData(p, 1, s)
             y == SendData(f, 1, s)
  <2>1. /\ x.pcb = q /\ SetPcb(x, z) = SetPcb(y, z)
    BY SendAnyTimer, Zenon
  <2>2. s = Wrap(s + 1 - 1)
    BY <1>1, WrapSmall, HalfModulus
  <2>3. /\ Good(y) /\ y.life = f.life /\ y.pcb = f.pcb
        /\ Safe(f, st, peer_st, r) => Safe(y, st, peer_st, r)
    <3>1. /\ 1 \in Nat \ {0} /\ s \in 0..(Modulus - 1)
          /\ s = Wrap(f.pcb.snd_una + 1 - 1)
      BY <1>1, <2>2, SMTT(20)
    <3> HIDE DEF s
    <3> QED
      BY <3>1, SendDataOK, ZenonT(30)
  <2>4. RTORetransmit(p) =
          SetPcb(x, Again(rto_reset(x.pcb)))
    BY <1>2, <1>4, <1>6, Zenon DEF RTORetransmit, SetPcb, Again
  <2> HIDE DEF x, y, z, q, p
  <2> QED
    BY <1>5, <2>1, <2>3, <2>4, Zenon DEF p, q
<1>7. ASSUME NEW flags \in {"SYN", "SYNACK"},
             f.state \in {"SynSent", "SynReceived"},
             RTORetransmit(p) =
               SetPcb(SendControlPacket(p, f.pcb.snd_una, flags),
                      Again(rto_reset(SendControlPacket(p, f.pcb.snd_una,
                                                        flags).pcb)))
      PROVE  LET g == RTORetransmit(p)
             IN  /\ Good(g) /\ g.life = f.life /\ g.pcb.rcv_nxt = f.pcb.rcv_nxt
                 /\ Safe(f, st, peer_st, r) /\ f.life # "absent"
                    => Safe(g, st, peer_st, r)
  <2> DEFINE s == f.pcb.snd_una
             x == SendControlPacket(p, s, flags)
             y == SendControlPacket(f, s, flags)
  <2>1. /\ x.pcb = q /\ SetPcb(x, z) = SetPcb(y, z)
    BY SendAnyTimer
  <2>2. Safe(f, st, peer_st, r) => s = 0
    BY <1>7, Zenon DEF Safe, EndOK, SndOK, Opening, Open
  <2>3. /\ Good(y) /\ y.life = f.life /\ y.pcb = f.pcb
        /\ Safe(f, st, peer_st, r) => Safe(y, st, peer_st, r)
    BY <1>1, <2>2, SendControlPacketOK
  <2>4. RTORetransmit(p) =
          SetPcb(x, Again(rto_reset(x.pcb)))
    BY <1>7, Zenon
  <2> HIDE DEF x, y, z, q, p
  <2> QED
    BY <1>5, <2>1, <2>3, <2>4, Zenon DEF p, q
<1>8. CASE f.state = "SynReceived"
  BY <1>2, <1>4, <1>7, <1>8, Zenon DEF RTORetransmit, SetPcb, Again, SendSynAck
<1>9. CASE f.state = "SynSent"
  BY <1>2, <1>4, <1>7, <1>9, Zenon DEF RTORetransmit, SetPcb, Again, SendSyn
<1> QED
  BY <1>6, <1>8, <1>9, Zenon DEF Good, FlowFieldsOK

-----------------------------------------------------------------------------
(* The remaining operations on one flow object.                             *)

\* The flow is dropped, by the timer or with its channel.
LEMMA DropOK ==
  ASSUME NEW f, Good(f), NEW g, NEW q \in PcbType, SameSeqnos(q, f.pcb),
         NEW state, state = f.state \/ state = "Closed",
         NEW callback \in {f.callback, "failed"},
         Fields(g, state, q, f.tx, f.rx, "removed", callback, f.fault, f.out),
         NEW st, NEW peer_st, NEW r
  PROVE  /\ Good(g) /\ g.pcb.rcv_nxt = f.pcb.rcv_nxt
         /\ Safe(f, st, peer_st, r) /\ f.life # "absent"
            => Safe(g, st, peer_st, r)
<1>1. FlowShape(g)
  BY Zenon DEF Good, FlowShape, Fields
<1>2. FlowFieldsOK(g)
  BY Zenon DEF Good, FlowFieldsOK, Fields
<1>3. Good(g)
  BY <1>1, <1>2, Zenon DEF Good, TimerOK, Fields
<1>4. g.pcb = q /\ g.pcb.rcv_nxt = f.pcb.rcv_nxt
  BY Zenon DEF Fields, SameSeqnos
<1>5. ASSUME Safe(f, st, peer_st, r), f.life # "absent"
      PROVE  Safe(g, st, peer_st, r)
  <2>1. SndOK(g, st)
    <3>1. CASE Opening(f, st)
      <4>1. Opening(g, st)
        BY <3>1, Zenon DEF Opening, Fields, SameSeqnos
      <4> QED
        BY <1>5, <4>1, Zenon DEF Safe, EndOK, SndOK, Fields
    <3>2. CASE Open(f, st)
      <4>1. Open(g, st)
        BY <3>2, Zenon DEF Open, Fields, SameSeqnos
      <4> QED
        BY <1>5, <4>1, Zenon DEF Safe, EndOK, SndOK, Fields
    <3> QED
      BY <1>5, <3>1, <3>2, Zenon DEF Safe, EndOK, SndOK
  <2>2. RcvOK(g.rx, peer_st) /\ AckedOK(g, st, r)
    BY <1>5, Zenon DEF Safe, EndOK, AckedOK, Fields, SameSeqnos
  <2>3. OutOK(g, st)
    BY <1>4, <1>5, Zenon DEF Safe, OutOK, Fields
  <2> QED
    BY <2>1, <2>2, <2>3, Zenon DEF Safe, EndOK
<1> QED
  BY <1>3, <1>4, <1>5, Zenon

\* A slow-timer tick (PeriodicCheck) keeps the flow consistent.
LEMMA TickOK ==
  ASSUME NEW f, Good(f), f.life = "live",
         NEW st, NEW peer_st, NEW r, Context(st, peer_st, r)
  PROVE  LET g == Tick(f)
         IN  /\ Good(g) /\ g.pcb.rcv_nxt = f.pcb.rcv_nxt
             /\ Safe(f, st, peer_st, r) => Safe(g, st, peer_st, r)
<1> DEFINE q == rto_advance(f.pcb)
           p == SetPcb(f, q)
           callback == IF f.state = "SynSent" THEN "failed" ELSE f.callback
           d == [p EXCEPT !.life = "removed", !.callback = callback]
           c == [f EXCEPT !.life = "removed"]
<1>0. f.pcb \in PcbType /\ FlowShape(f)
      /\ f.pcb.rto_timer < kRtoThresholdInTicks
  BY Zenon DEF Good, FlowFieldsOK, TimerOK
<1>1. /\ q \in PcbType /\ SameSeqnos(q, f.pcb)
  BY <1>0, TimerOps, Zenon
<1>2. SameSeqnos(f.pcb, f.pcb)
  BY Zenon DEF SameSeqnos
<1>3. Fields(p, f.state, q, f.tx, f.rx, f.life, f.callback, f.fault, f.out)
  BY <1>0, WithPcb, Zenon DEF SetPcb
<1>4. CASE f.state = "Closed"
  <2>1. Tick(f) = c
    BY <1>4, Zenon DEF Tick
  <2>2. Fields(c, f.state, f.pcb, f.tx, f.rx, "removed", f.callback, f.fault,
               f.out)
    BY <1>0, Zenon DEF FlowShape, Fields
  <2> HIDE DEF c
  <2> QED
    BY <1>0, <1>2, <2>1, <2>2, DropOK, Zenon
<1>5. CASE f.state # "Closed" /\ max_rexmits_reached(f.pcb)
  <2>1. Tick(f) = d
    <3>1. p.callback = f.callback
      BY <1>3, Zenon DEF Fields
    <3> QED
      BY <1>5, <3>1, Zenon DEF Tick, SetPcb
  <2> HIDE DEF p, q
  <2>2. Fields(d, f.state, q, f.tx, f.rx, "removed", callback, f.fault, f.out)
    BY <1>3, Zenon DEF Fields
  <2>3. callback \in {f.callback, "failed"}
    BY Zenon
  <2> HIDE DEF d, callback
  <2> QED
    BY <1>1, <2>1, <2>2, <2>3, DropOK, SMTT(60)
<1>6. CASE f.state # "Closed" /\ ~max_rexmits_reached(f.pcb)
  <2>1. Tick(f) = IF rto_expired(q) THEN RTORetransmit(p) ELSE p
    <3>1. p.pcb = q
      BY <1>3, Zenon DEF Fields
    <3> QED
      BY <1>6, <3>1, Zenon DEF Tick, SetPcb
  <2>2. CASE rto_expired(q)
    BY <1>6, <2>1, <2>2, RTORetransmitOK, Zenon
  <2>3. CASE ~rto_expired(q)
    <3>1. q.rto_timer < kRtoThresholdInTicks
      BY <1>1, <2>3, SwiftAssumption
      DEF rto_expired, PcbType, kRtoDisabled, SwiftAssumption
    <3> HIDE DEF q
    <3>2. /\ Good(p) /\ p.pcb = q
          /\ Safe(f, st, peer_st, r) => Safe(p, st, peer_st, r)
      BY <1>1, <3>1, PcbChange, Zenon
    <3> QED
      BY <1>1, <2>1, <2>3, <3>2, Zenon DEF SameSeqnos
  <2> QED
    BY <2>2, <2>3, Zenon
<1> QED
  BY <1>4, <1>5, <1>6, Zenon

\* ShutDown keeps the flow consistent.
LEMMA ShutOK ==
  ASSUME NEW f, Good(f), f.life = "live",
         NEW st, NEW peer_st, NEW r, Context(st, peer_st, r)
  PROVE  LET g == Shut(f)
         IN  /\ Good(g) /\ g.pcb.rcv_nxt = f.pcb.rcv_nxt
             /\ Safe(f, st, peer_st, r) => Safe(g, st, peer_st, r)
<1> DEFINE q == rto_disable(f.pcb)
           p == [f EXCEPT !.pcb = q, !.state = "Closed"]
           s == SendControlPacket(p, p.pcb.snd_nxt, "RST")
           k == IF f.state = "Closed" THEN f ELSE s
           g == [k EXCEPT !.life = "removed"]
<1>0. f.pcb \in PcbType /\ FlowShape(f)
  BY Zenon DEF Good, FlowFieldsOK
<1>1. q \in PcbType /\ SameSeqnos(q, f.pcb) /\ q.rto_timer = -1
  BY <1>0, TimerOps, Zenon
<1>2. Shut(f) = g
  BY Zenon DEF Shut, SendRst
<1> HIDE DEF q
<1>3. Fields(p, "Closed", q, f.tx, f.rx, f.life, f.callback, f.fault, f.out)
  BY <1>0, Zenon DEF FlowShape, Fields
<1> HIDE DEF p
<1>4. Good(p) /\ (Safe(f, st, peer_st, r) => Safe(p, st, peer_st, r))
  <2>1. FlowShape(p)
    BY <1>0, <1>3, Zenon DEF FlowShape, Fields
  <2>2. FlowFieldsOK(p)
    BY <1>1, <1>3, Zenon DEF Good, FlowFieldsOK, Fields
  <2>3. TimerOK(p)
    BY <1>1, <1>3, SwiftAssumption DEF TimerOK, Fields, SwiftAssumption
  <2>4. ASSUME Safe(f, st, peer_st, r)
        PROVE  SndOK(p, st) /\ RcvOK(p.rx, peer_st) /\ AckedOK(p, st, r)
    BY <1>1, <1>3, <2>4, Zenon
    DEF Safe, EndOK, SndOK, Opening, Open, AckedOK, Fields, SameSeqnos
  <2>5. ASSUME Safe(f, st, peer_st, r)
        PROVE  OutOK(p, st)
    <3>1. p.pcb.rcv_nxt = f.pcb.rcv_nxt /\ p.out = f.out
      BY <1>1, <1>3, Zenon DEF Fields, SameSeqnos
    <3> QED
      BY <2>5, <3>1, Zenon DEF Safe, OutOK
  <2> QED
    BY <1>3, <2>1, <2>2, <2>3, <2>4, <2>5, Zenon DEF Good, Safe, EndOK, Fields
<1>5. p.pcb.snd_nxt \in 0..(Modulus - 1) /\ p.pcb = q
  BY <1>1, <1>3, Zenon DEF PcbType, Fields
<1>6. /\ Good(s) /\ s.pcb = q /\ s.life = f.life
      /\ Safe(f, st, peer_st, r) => Safe(s, st, peer_st, r)
  BY <1>3, <1>4, <1>5, SendControlPacketOK DEF Fields
<1> HIDE DEF s
<1>7. /\ Good(k) /\ SameSeqnos(k.pcb, f.pcb) /\ k.life = f.life
      /\ Safe(f, st, peer_st, r) => Safe(k, st, peer_st, r)
  BY <1>1, <1>6, Zenon DEF SameSeqnos
<1> HIDE DEF k
<1>8. Fields(g, k.state, k.pcb, k.tx, k.rx, "removed", k.callback, k.fault,
             k.out)
  BY <1>7, Zenon DEF Good, FlowShape, Fields
<1> HIDE DEF g
<1>9. k.pcb \in PcbType /\ SameSeqnos(k.pcb, k.pcb)
  BY <1>7, Zenon DEF Good, FlowFieldsOK, SameSeqnos
<1>10. /\ Good(g) /\ g.pcb.rcv_nxt = k.pcb.rcv_nxt
       /\ Safe(k, st, peer_st, r) /\ k.life # "absent"
            => Safe(g, st, peer_st, r)
  BY <1>7, <1>8, <1>9, DropOK, Zenon
<1> QED
  BY <1>2, <1>7, <1>10, Zenon DEF SameSeqnos

\* InitiateHandshake on a flow object as it was created.
LEMMA ConnectOK ==
  ASSUME NEW f, Good(f), f.life = "absent",
         NEW st, NEW peer_st, NEW r, Context(st, peer_st, r)
  PROVE  LET p == [f EXCEPT !.life = "live", !.state = "SynSent",
                            !.pcb = rto_reset(advance_snd_nxt(@, 1))]
             g == SendSyn(p, f.pcb.snd_nxt)
         IN  /\ Good(g) /\ g.pcb.rcv_nxt = f.pcb.rcv_nxt
             /\ Safe(f, st, peer_st, r) => Safe(g, st, peer_st, r)
<1> DEFINE a == advance_snd_nxt(f.pcb, 1)
           q == rto_reset(a)
           p == [f EXCEPT !.life = "live", !.state = "SynSent", !.pcb = q]
           g == SendControlPacket(p, f.pcb.snd_nxt, "SYN")
<1>0. f.pcb \in PcbType /\ FlowShape(f) /\ 1 \in Int
  BY DEF Good, FlowFieldsOK
<1>1. f.pcb.snd_nxt \in 0..(Modulus - 1)
  BY <1>0, Zenon DEF PcbType
<1>2. /\ a \in PcbType /\ a.snd_nxt = Wrap(f.pcb.snd_nxt + 1)
      /\ a.snd_una = f.pcb.snd_una /\ a.rcv_nxt = f.pcb.rcv_nxt
  BY ONLY <1>0, AdvanceOps, Zenon
<1> HIDE DEF a
<1>3. q \in PcbType /\ SameSeqnos(q, a) /\ q.rto_timer = 0
  BY <1>2, TimerOps, Zenon
<1> HIDE DEF q
<1>4. Fields(p, "SynSent", q, f.tx, f.rx, "live", f.callback, f.fault, f.out)
  BY <1>0, Zenon DEF FlowShape, Fields
<1> HIDE DEF p
<1>5. Good(p)
  <2>1. FlowShape(p)
    BY <1>0, <1>4, Zenon DEF FlowShape, Fields
  <2>2. FlowFieldsOK(p)
    BY <1>3, <1>4, Zenon DEF Good, FlowFieldsOK, Fields
  <2>3. TimerOK(p)
    BY <1>3, <1>4, SwiftAssumption DEF TimerOK, Fields, SwiftAssumption
  <2> QED
    BY <1>4, <2>1, <2>2, <2>3, Zenon DEF Good, Fields
<1>6. ASSUME Safe(f, st, peer_st, r)
      PROVE  Safe(p, st, peer_st, r) /\ f.pcb.snd_nxt = 0
  <2>1. Opening(f, st) /\ f.pcb = InitPcb
    BY <1>6, Zenon DEF Safe, EndOK, SndOK, Opening, Open
  <2>2. f.pcb.snd_nxt = 0 /\ q.snd_nxt = 1 /\ q.rcv_nxt = 0 /\ q.snd_una = 0
    BY <1>2, <1>3, <2>1, WrapSmall, HalfModulus DEF InitPcb, SameSeqnos
  <2>3. Opening(p, st)
    BY <1>4, <2>1, <2>2, Zenon DEF Opening, Fields
  <2>4. OutOK(p, st)
    <3>1. p.out = f.out /\ p.pcb.rcv_nxt = f.pcb.rcv_nxt
      BY <1>2, <1>3, <1>4, Zenon DEF Fields, SameSeqnos
    <3> QED
      BY <1>6, <3>1, Zenon DEF Safe, OutOK
  <2>5. AckedOK(p, st, r)
    <3>1. p.tx = f.tx /\ p.pcb.snd_una = f.pcb.snd_una
      BY <1>2, <1>3, <1>4, Zenon DEF Fields, SameSeqnos
    <3>2. AckedOK(f, st, r)
      BY <1>6, Zenon DEF Safe, EndOK
    <3> QED
      BY <3>1, <3>2, Zenon DEF AckedOK
  <2> QED
    BY <1>4, <1>6, <2>2, <2>3, <2>4, <2>5, Zenon DEF Safe, EndOK, SndOK, Fields
<1>7. /\ Good(g) /\ g.pcb = p.pcb
      /\ Safe(p, st, peer_st, r) /\ f.pcb.snd_nxt = 0 => Safe(g, st, peer_st, r)
  BY <1>1, <1>5, SendControlPacketOK, Zenon
<1>8. p.pcb.rcv_nxt = f.pcb.rcv_nxt
  BY <1>2, <1>3, <1>4, Zenon DEF Fields, SameSeqnos
<1> QED
  BY <1>6, <1>7, <1>8, Zenon DEF SendSyn, p, q, a

\* OutputMessage links a message behind the chain.
LEMMA TxAppendOK ==
  ASSUME NEW t \in TxType, TxOK(t), NEW m \in Seq(BufType), Len(m) > 0
  PROVE  LET u == TxAppend(t, m)
         IN  /\ u \in TxType /\ TxOK(u)
             /\ u.chain = t.chain \o m /\ Len(u.chain) = Len(t.chain) + Len(m)
             /\ u.num_unsent = t.num_unsent + Len(m)
<1> DEFINE u == TxAppend(t, m)
           oldest == IF t.chain = <<>> \/ t.oldest_unsent = 0
                       THEN Len(t.chain) + 1 ELSE t.oldest_unsent
<1>1. /\ t.chain \in Seq(BufType) /\ t.num_unsent \in Nat /\ Len(m) \in Nat
      /\ t.num_tracked \in Nat /\ t.oldest_unsent \in Nat /\ Len(t.chain) \in Nat
  BY DEF TxType
<1>2. t.chain \o m \in Seq(BufType) /\ Len(t.chain \o m) = Len(t.chain) + Len(m)
  BY <1>1
<1>3. /\ u = [chain |-> t.chain \o m, oldest_unsent |-> oldest,
              num_unsent |-> t.num_unsent + Len(m),
              num_tracked |-> t.num_tracked + Len(m)]
  BY Zenon DEF TxAppend
<1>4. oldest = Len(t.chain) - t.num_unsent + 1 /\ oldest \in Nat
  <2>1. CASE t.num_unsent = 0
    BY <1>1, <2>1 DEF TxOK
  <2>2. CASE t.num_unsent # 0
    <3>1. t.chain # <<>>
      BY <1>1, <2>2 DEF TxOK
    <3> QED
      BY <1>1, <2>2, <3>1 DEF TxOK
  <2> QED
    BY <2>1, <2>2, Zenon
<1> HIDE DEF oldest, u
<1>5. u \in TxType
  BY <1>1, <1>2, <1>3, <1>4, SMTT(20) DEF TxType
<1>6. /\ u.chain = t.chain \o m /\ u.oldest_unsent = oldest
      /\ u.num_unsent = t.num_unsent + Len(m)
      /\ u.num_tracked = t.num_tracked + Len(m)
  BY <1>3, Zenon
<1>7. TxOK(u)
  BY <1>1, <1>2, <1>4, <1>6, SMTT(20) DEF TxOK
<1> QED
  BY <1>2, <1>5, <1>6, <1>7, Zenon DEF u

\* Chain and stream grow by the same buffers.
LEMMA RestAppend ==
  ASSUME NEW S, NEW chain \in Seq(S), NEW st \in Seq(S), NEW m \in Seq(S),
         IsRest(chain, st)
  PROVE  IsRest(chain \o m, st \o m)
<1> DEFINE c == Len(chain)
           n == Len(st)
           k == Len(m)
           cm == chain \o m
           sm == st \o m
<1>1. /\ c \in Nat /\ n \in Nat /\ k \in Nat
      /\ Len(cm) = c + k /\ Len(sm) = n + k
      /\ \A i \in 1..c : cm[i] = chain[i]
      /\ \A i \in 1..k : cm[c + i] = m[i]
      /\ \A i \in 1..n : sm[i] = st[i]
      /\ \A i \in 1..k : sm[n + i] = m[i]
  BY ConcatFacts
<1>2. c <= n /\ \A i \in 1..c : chain[i] = st[n - c + i]
  BY Zenon DEF IsRest
<1> HIDE DEF c, n, k, cm, sm
<1>3. ASSUME NEW i \in 1..(c + k)
      PROVE  cm[i] = sm[n - c + i]
  <2>1. CASE i \in 1..c
    <3>1. n - c + i \in 1..n
      BY <1>1, <1>2, <2>1
    <3> QED
      BY <1>1, <1>2, <2>1, <3>1, Zenon
  <2>2. CASE i \notin 1..c
    <3>1. i - c \in 1..k /\ c + (i - c) = i /\ n + (i - c) = n - c + i
      BY <1>1, <2>2
    <3>2. PICK j \in 1..k : j = i - c
      BY <3>1, Zenon
    <3>3. cm[c + j] = m[j] /\ sm[n + j] = m[j]
      BY <1>1, <3>2, Zenon
    <3> QED
      BY <3>1, <3>2, <3>3, Zenon
  <2> QED
    BY <2>1, <2>2, Zenon
<1>4. Len(sm) - Len(cm) = n - c /\ Len(cm) <= Len(sm)
  BY <1>1, <1>2
<1>5. IsRest(cm, sm)
  BY <1>1, <1>3, <1>4, Zenon DEF IsRest
<1> QED
  BY <1>5, Zenon DEF cm, sm

\* OutputMessage keeps the flow consistent with the longer stream.
LEMMA SubmitOK ==
  ASSUME NEW f, Good(f), NEW m \in Seq(BufType), Len(m) > 0,
         NEW st, NEW peer_st, NEW r, Context(st, peer_st, r)
  PROVE  LET g == [f EXCEPT !.tx = TxAppend(@, m)]
         IN  /\ Good(g) /\ g.life = f.life /\ g.pcb = f.pcb
             /\ Safe(f, st, peer_st, r) /\ ~Opening(f, st)
                => Safe(g, st \o m, peer_st, r)
<1> DEFINE t == TxAppend(f.tx, m)
           g == [f EXCEPT !.tx = t]
<1>0. f.tx \in TxType /\ TxOK(f.tx) /\ f.out \in Seq(HdrType)
      /\ f.pcb \in PcbType
  BY Zenon DEF Good, FlowFieldsOK
<1>1. /\ t \in TxType /\ TxOK(t) /\ t.chain = f.tx.chain \o m
      /\ Len(t.chain) = Len(f.tx.chain) + Len(m)
      /\ t.num_unsent = f.tx.num_unsent + Len(m)
  BY <1>0, TxAppendOK, Zenon
<1> HIDE DEF t
<1>2. Fields(g, f.state, f.pcb, t, f.rx, f.life, f.callback, f.fault, f.out)
  BY Zenon DEF Good, FlowShape, Fields
<1> HIDE DEF g
<1>3. Good(g)
  <2>1. FlowShape(g)
    BY <1>2, Zenon DEF Good, FlowShape, Fields
  <2>2. FlowFieldsOK(g)
    BY <1>1, <1>2, Zenon DEF Good, FlowFieldsOK, Fields
  <2> QED
    BY <1>1, <1>2, <2>1, <2>2, Zenon DEF Good, TimerOK, Fields
<1>4. /\ st \in Seq(BufType) /\ st \o m \in Seq(BufType)
      /\ Len(st) \in Nat /\ Len(m) \in Nat
      /\ Len(st \o m) = Len(st) + Len(m)
      /\ \A i \in 1..Len(st) : (st \o m)[i] = st[i]
  BY DEF Context
<1>5. ASSUME Safe(f, st, peer_st, r), ~Opening(f, st)
      PROVE  Safe(g, st \o m, peer_st, r)
  <2>1. Open(f, st) /\ IsRest(f.tx.chain, st)
    BY <1>5, Zenon DEF Safe, EndOK, SndOK
  <2>2. f.tx.chain \in Seq(BufType) /\ Len(f.tx.chain) \in Nat
        /\ f.tx.num_unsent \in Nat
    BY <1>0 DEF TxType
  <2>7. /\ Len(st \o m) - Len(g.tx.chain) = Len(st) - Len(f.tx.chain)
        /\ Len(st \o m) - g.tx.num_unsent = Len(st) - f.tx.num_unsent
    <3>1. g.tx = t
      BY <1>2, Zenon DEF Fields
    <3>2. /\ Len(g.tx.chain) = Len(f.tx.chain) + Len(m)
          /\ g.tx.num_unsent = f.tx.num_unsent + Len(m)
      BY <1>1, <3>1, Zenon
    <3>3. Len(st) \in Nat /\ Len(m) \in Nat /\ Len(st \o m) = Len(st) + Len(m)
      BY <1>4, Zenon
    <3>4. Len(f.tx.chain) \in Nat /\ f.tx.num_unsent \in Nat
      BY <2>2, Zenon
    <3> QED
      BY ONLY <3>2, <3>3, <3>4
  <2>3. Open(g, st \o m)
    BY <1>2, <2>1, <2>7, Zenon DEF Open, Fields
  <2>4. IsRest(g.tx.chain, st \o m)
    <3>1. IsRest(f.tx.chain \o m, st \o m)
      BY <1>4, <2>1, <2>2, RestAppend, Zenon
    <3> QED
      BY <1>1, <1>2, <3>1, Zenon DEF Fields
  <2>5. AckedOK(g, st \o m, r)
    BY <1>2, <1>5, <2>7, Zenon DEF Safe, EndOK, AckedOK, Fields
  <2>6. OutOK(g, st \o m)
    <3>1. ASSUME NEW i \in 1..Len(f.out)
          PROVE  HdrOK(f.out[i], st \o m, f.pcb.rcv_nxt)
      <4>1. HdrOK(f.out[i], st, f.pcb.rcv_nxt) /\ f.out[i] \in HdrType
        BY <1>0, <1>5 DEF Safe, OutOK
      <4>2. f.pcb.rcv_nxt \in Nat /\ f.pcb.rcv_nxt <= f.pcb.rcv_nxt
        BY <1>0, HalfModulus DEF PcbType
      <4>3. Len(st) <= Len(st \o m)
        BY <1>4
      <4> QED
        BY <1>4, <4>1, <4>2, <4>3, HdrMono, Zenon
    <3> QED
      BY <1>2, <3>1, Zenon DEF OutOK, Fields
  <2> QED
    BY <1>2, <1>5, <2>3, <2>4, <2>5, <2>6, Zenon DEF Safe, EndOK, SndOK, Fields
<1> QED
  BY <1>2, <1>3, <1>5, Zenon DEF g, t, Fields

-----------------------------------------------------------------------------
(* Packets, whatever the other end does.                                    *)

\* Sending is one of the things a handler may do.
LEMMA SendsHandled ==
  ASSUME NEW f, Good(f), NEW g, Sends(f, g)
  PROVE  Handled(f, g)
<1>1. Len(f.tx.chain) \in Nat
  BY DEF Good, FlowFieldsOK, TxType
<1>2. Len(g.tx.chain) <= Len(f.tx.chain)
  BY <1>1 DEF Sends
<1> QED
  BY <1>2, Zenon DEF Sends, Handled

\* An ACK that process_ack accepts never covers a buffer that was not sent,
\* unless the flow is closed or still waits for the SYN-ACK; what it covers
\* leaves the chain, and snd_una moves by as much.
LEMMA NewAckSender ==
  ASSUME NEW f, Good(f), Roomy(f), NEW h, h.ackno \in 0..(Modulus - 1),
         NEW ok \in BOOLEAN, seqno_gt(h.ackno, f.pcb.snd_una),
         ~seqno_gt(h.ackno, f.pcb.snd_nxt)
  PROVE  LET g == NewAck(f, h, ok)
         IN  /\ Handled(f, g) /\ g.callback = f.callback /\ g.rx = f.rx
             /\ \/ g.state = f.state
                \/ f.state = "SynReceived" /\ g.state = "Established"
             /\ Numbered(f) /\ f.fault # "over_ack" /\ g.fault = "over_ack"
                => f.state \in {"Closed", "SynSent"}
<1> DEFINE syn == IF f.state = "SynReceived" THEN 1 ELSE 0
           a == Wrap(h.ackno - f.pcb.snd_una)
           n == a - syn
           p == [f.pcb EXCEPT !.snd_una = h.ackno, !.duplicate_acks = 0,
                              !.snd_ooo_acks = 0, !.rto_rexmits = 0]
           q == rto_maybe_reset(p)
           tx == ReceiveAcks(f.tx, n)
           state == IF syn = 1 THEN "Established" ELSE f.state
           g == [f EXCEPT !.state = state, !.tx = tx, !.pcb = q]
           S == InFlight(f)
<1>1. /\ f.pcb \in PcbType /\ f.tx \in TxType /\ TxOK(f.tx)
      /\ f.pcb.snd_una \in 0..(Modulus - 1)
      /\ f.pcb.snd_nxt \in 0..(Modulus - 1)
      /\ h.ackno - f.pcb.snd_una \in Int
  <2>1. f.pcb \in PcbType /\ f.tx \in TxType /\ TxOK(f.tx)
    BY Zenon DEF Good, FlowFieldsOK
  <2>2. f.pcb.snd_una \in 0..(Modulus - 1) /\ f.pcb.snd_nxt \in 0..(Modulus - 1)
    BY <2>1, Zenon DEF PcbType
  <2> QED
    BY <2>1, <2>2, HalfModulus
<1>2. n \in Nat /\ a \in Nat /\ a >= 1
  <2>1. a # 0
    BY Zenon DEF seqno_gt, seqno_eq
  <2>2. a \in Nat
    BY <1>1, WrapRange, HalfModulus
  <2> HIDE DEF a
  <2> QED
    BY <2>1, <2>2
<1>3. /\ S \in Nat /\ Len(f.tx.chain) \in Nat /\ f.tx.num_unsent \in Nat
      /\ S <= Len(f.tx.chain)
      /\ f.tx.oldest_unsent = 0 \/ f.tx.oldest_unsent = S + 1
  BY <1>1 DEF InFlight, TxOK, TxType
<1>4. Numbered(f) /\ f.state # "Closed" =>
        /\ Outstanding(f) = S + SynPending(f) /\ a <= Outstanding(f)
        /\ Wrap(f.pcb.snd_nxt - h.ackno) = Outstanding(f) - a
  <2> SUFFICES ASSUME Numbered(f), f.state # "Closed"
               PROVE  /\ Outstanding(f) = S + SynPending(f)
                      /\ a <= Outstanding(f)
                      /\ Wrap(f.pcb.snd_nxt - h.ackno) = Outstanding(f) - a
    BY Zenon
  <2>1. Outstanding(f) = S + SynPending(f) /\ SynPending(f) \in {0, 1}
    BY Zenon DEF Numbered, SynPending
  <2>2. Outstanding(f) < Modulus \div 2 /\ Outstanding(f) \in Nat
    <3> HIDE DEF S
    <3> QED
      BY <1>3, <2>1, HalfModulus DEF Roomy
  <2>3. /\ a \in 1..Outstanding(f)
        /\ Wrap(f.pcb.snd_nxt - h.ackno) = Outstanding(f) - a
    BY <1>1, <2>2, AckDistance, Zenon DEF Outstanding
  <2> HIDE DEF a
  <2> QED
    BY <1>2, <2>1, <2>2, <2>3
<1>5. /\ p \in PcbType /\ p.snd_una = h.ackno /\ p.snd_nxt = f.pcb.snd_nxt
  BY <1>1, AckedPcb, Zenon
<1>6. /\ q \in PcbType /\ q.snd_una = h.ackno /\ q.snd_nxt = f.pcb.snd_nxt
      /\ q.rto_timer < kRtoThresholdInTicks
  <2>1. q.rto_timer \in Int
    <3> HIDE DEF p
    <3> QED
      BY <1>5, TimerOps DEF PcbType, kRtoDisabled
  <2> HIDE DEF p
  <2> QED
    BY <1>5, <2>1, TimerOps, SwiftAssumption DEF SwiftAssumption, SameSeqnos
<1> HIDE DEF a, S, p, q
<1>7. CASE ~CanReceiveAcks(f.tx, n)
  <2>1. NewAck(f, h, ok) = SetFault(f, "over_ack")
    BY <1>7, Zenon DEF NewAck, SetFault, a
  <2>2. Numbered(f) => f.state \in {"Closed", "SynSent"}
    <3> SUFFICES ASSUME Numbered(f), f.state \notin {"Closed", "SynSent"}
                 PROVE  CanReceiveAcks(f.tx, n)
      BY <1>7, Zenon
    <3>1. SynPending(f) = syn
      BY Zenon DEF SynPending, Good, FlowFieldsOK
    <3>2. n <= S
      BY <1>2, <1>3, <1>4, <3>1
    <3> HIDE DEF n
    <3> QED
      BY <1>2, <1>3, <3>2 DEF CanReceiveAcks
  <2> DEFINE k == SetFault(f, "over_ack")
  <2>3. Fields(k, f.state, f.pcb, f.tx, f.rx, f.life, f.callback, "over_ack",
               f.out)
    BY WithFault, Zenon DEF Good, SetFault
  <2> HIDE DEF k
  <2>4. Handled(f, k)
    <3>1. Len(k.tx.chain) <= Len(f.tx.chain)
      BY <1>3, <2>3 DEF Fields
    <3>2. NoRst(f) => NoRst(k)
      BY <2>3, Zenon DEF Fields, NoRst
    <3>3. Numbered(f) => Numbered(k)
      BY <2>3, Zenon DEF Fields, Numbered, Outstanding, InFlight, SynPending
    <3> QED
      BY <3>1, <3>2, <3>3, Zenon DEF Handled
  <2> QED
    BY <2>1, <2>2, <2>3, <2>4, Zenon DEF Fields, k
<1>8. CASE CanReceiveAcks(f.tx, n)
  <2>1. NewAck(f, h, ok) = TransmitPackets(g, ok)
    BY <1>8, Zenon DEF NewAck, a, p, q
  <2>2. Fields(g, state, q, tx, f.rx, f.life, f.callback, f.fault, f.out)
    <3> HIDE DEF state, q, tx
    <3> QED
      BY WithStateTxPcb, Zenon DEF Good
  <2>3. /\ tx \in TxType /\ TxOK(tx) /\ n <= Len(f.tx.chain) - f.tx.num_unsent
        /\ Len(tx.chain) = Len(f.tx.chain) - n
        /\ tx.num_unsent = f.tx.num_unsent
    <3> HIDE DEF n
    <3> QED
      BY <1>1, <1>2, <1>8, ReceiveAcksOK, Zenon
  <2>4. /\ state \in {"Closed", "SynSent", "SynReceived", "Established"}
        /\ \/ state = f.state
           \/ f.state = "SynReceived" /\ state = "Established"
        /\ (state = "Closed") <=> (f.state = "Closed")
    BY DEF Good, FlowFieldsOK
  <2> HIDE DEF g, tx
  <2>5. Good(g)
    <3> HIDE DEF state, n
    <3>1. FlowShape(g)
      BY <2>2, Zenon DEF Good, FlowShape, Fields
    <3>2. FlowFieldsOK(g)
      BY <1>6, <2>2, <2>3, <2>4, Zenon DEF Good, Fields, FlowFieldsOK
    <3>3. TimerOK(g)
      BY <1>6, <2>2, Zenon DEF Fields, TimerOK
    <3> QED
      BY <2>2, <2>3, <3>1, <3>2, <3>3, Zenon DEF Good, Fields
  <2>6. Len(g.tx.chain) <= Len(f.tx.chain) /\ Roomy(g)
    <3>1. Len(g.tx.chain) = Len(f.tx.chain) - n
      BY <2>2, <2>3, Zenon DEF Fields
    <3> HIDE DEF n
    <3> QED
      BY <1>2, <1>3, <3>1, HalfModulus, SMTT(20) DEF Roomy
  <2>7. Numbered(f) => Numbered(g)
    <3> SUFFICES ASSUME Numbered(f), g.state # "Closed"
                 PROVE  Outstanding(g) = InFlight(g) + SynPending(g)
      BY Zenon DEF Numbered
    <3>1. f.state # "Closed"
      BY <2>2, <2>4, Zenon DEF Fields
    <3>2. Outstanding(g) = (S + SynPending(f)) - a
      <4>1. Outstanding(g) = Wrap(f.pcb.snd_nxt - h.ackno)
        BY <1>6, <2>2, Zenon DEF Fields, Outstanding
      <4> QED
        BY <1>4, <3>1, <4>1, Zenon
    <3>3. InFlight(g) = S - n
      <4>1. Len(g.tx.chain) = Len(f.tx.chain) - n
            /\ g.tx.num_unsent = f.tx.num_unsent
        BY <2>2, <2>3, Zenon DEF Fields
      <4>2. S = Len(f.tx.chain) - f.tx.num_unsent
        BY Zenon DEF S, InFlight
      <4> HIDE DEF n
      <4> QED
        BY <1>2, <1>3, <4>1, <4>2, SMTT(20) DEF InFlight
    <3>4. SynPending(g) = SynPending(f) - syn /\ SynPending(f) \in {0, 1}
      <4>1. g.state = state
        BY <2>2, Zenon DEF Fields
      <4> QED
        BY <4>1 DEF SynPending
    <3> QED
      BY <1>2, <1>3, <3>2, <3>3, <3>4
  <2>8. NoRst(f) => NoRst(g)
    BY <2>2, Zenon DEF Fields, NoRst
  <2>9. Sends(g, TransmitPackets(g, ok))
    BY <2>5, <2>6, TransmitSends, Zenon
  <2> DEFINE k == TransmitPackets(g, ok)
  <2>10. /\ k.state = g.state /\ k.callback = g.callback /\ k.rx = g.rx
         /\ k.fault = g.fault \/ k.fault \in {"no_unacked", "off_chain"}
         /\ Len(k.tx.chain) = Len(g.tx.chain) /\ (NoRst(g) => NoRst(k))
         /\ Numbered(f) => Numbered(k)
    BY <2>7, <2>9, Zenon DEF Sends
  <2> HIDE DEF k
  <2>11. Handled(f, k)
    BY <2>6, <2>8, <2>10, Zenon DEF Handled
  <2>12. /\ k.callback = f.callback /\ k.rx = f.rx
         /\ \/ k.state = f.state
            \/ f.state = "SynReceived" /\ k.state = "Established"
         /\ f.fault # "over_ack" => k.fault # "over_ack"
    BY <2>2, <2>4, <2>10, Zenon DEF Fields
  <2> QED
    BY <2>1, <2>11, <2>12, Zenon DEF k
<1> QED
  BY <1>7, <1>8, Zenon

\* Sending alone is one of the things a packet can do.
LEMMA SendsTakes ==
  ASSUME NEW f, Good(f), NEW g, Sends(f, g), NEW h,
         h.flags = "SYN" => f.state # "Closed"
  PROVE  Takes(f, h, g)
<1>1. Len(g.tx.chain) <= Len(f.tx.chain)
  BY SendsHandled, Zenon DEF Handled
<1>2. f.fault # "over_ack" => g.fault # "over_ack"
  BY Zenon DEF Sends
<1> QED
  BY <1>1, <1>2, Zenon DEF Sends, Takes

\* A packet that the flow ignores.
LEMMA IgnoredTakes ==
  ASSUME NEW f, Good(f), NEW h, h.flags = "SYN" => f.state # "Closed"
  PROVE  Takes(f, h, f) /\ Hushed(f, f)
<1>1. Sends(f, f)
  BY Zenon DEF Sends
<1> QED
  BY <1>1, SendsTakes, Zenon DEF Hushed

\* process_ack.
LEMMA ProcessAckTakes ==
  ASSUME NEW f, Good(f), Roomy(f), NEW h, h.ackno \in 0..(Modulus - 1),
         h.count \in 0..255, h.flags = "ACK", NEW ok \in BOOLEAN
  PROVE  Takes(f, h, process_ack(f, h, ok)) /\ process_ack(f, h, ok).rx = f.rx
<1> DEFINE g == process_ack(f, h, ok)
           lt == seqno_lt(h.ackno, f.pcb.snd_una)
           eq == seqno_eq(h.ackno, f.pcb.snd_una)
           gt == seqno_gt(h.ackno, f.pcb.snd_una)
           past == seqno_gt(h.ackno, f.pcb.snd_nxt)
<1>1. /\ lt => ~eq /\ ~gt
      /\ eq => ~lt /\ ~gt
      /\ gt => ~lt /\ ~eq
      /\ lt \/ eq \/ gt
  <2>1. \A w \in Int : ~(w >= Modulus \div 2 /\ w = 0)
    BY ONLY HalfModulus
  <2>2. Wrap(h.ackno - f.pcb.snd_una) = 0 => ~lt
    BY ONLY <2>1 DEF seqno_lt
  <2> QED
    BY ONLY <2>2, Zenon DEF seqno_eq, seqno_gt
<1> HIDE DEF lt, eq, gt, past
<1>2. /\ lt => g = f
      /\ eq => g = DuplicateAck(f, h, ok)
      /\ gt /\ past => g = TransmitPackets(f, ok)
      /\ gt /\ ~past => g = NewAck(f, h, ok)
  BY <1>1, Zenon DEF process_ack, lt, eq, gt, past
<1>3. lt => Takes(f, h, g) /\ g.rx = f.rx
  BY <1>2, IgnoredTakes, Zenon
<1>4. eq => Takes(f, h, g) /\ g.rx = f.rx
  <2>1. Sends(f, DuplicateAck(f, h, ok))
    BY DuplicateAckSends, Zenon
  <2> QED
    BY <1>2, <2>1, SendsTakes, Zenon DEF Sends
<1>5. gt /\ past => Takes(f, h, g) /\ g.rx = f.rx
  <2>1. Sends(f, TransmitPackets(f, ok))
    BY TransmitSends, Zenon
  <2> QED
    BY <1>2, <2>1, SendsTakes, Zenon DEF Sends
<1>6. gt /\ ~past => Takes(f, h, g) /\ g.rx = f.rx
  <2> DEFINE k == NewAck(f, h, ok)
  <2> SUFFICES ASSUME gt, ~past
               PROVE  Takes(f, h, k) /\ k.rx = f.rx
    BY <1>2, Zenon
  <2>1. /\ Handled(f, k) /\ k.rx = f.rx
        /\ \/ k.state = f.state
           \/ f.state = "SynReceived" /\ k.state = "Established"
        /\ Numbered(f) /\ f.fault # "over_ack" /\ k.fault = "over_ack"
           => f.state \in {"Closed", "SynSent"}
    BY NewAckSender, Zenon DEF gt, past
  <2> HIDE DEF k
  <2>2. /\ k.state = "SynSent" => f.state = "SynSent"
        /\ k.state = "Closed" => f.state = "Closed"
        /\ f.state \in {"Closed", "SynSent"} => k.state = f.state
    BY <2>1, Zenon
  <2> QED
    BY <2>1, <2>2, Zenon DEF Handled, Takes
<1> QED
  BY <1>1, <1>3, <1>4, <1>5, <1>6, Zenon

\* InputPacket's case for resets.
LEMMA InputRstTakes ==
  ASSUME NEW f, Good(f), NEW h, h.flags = "RST"
  PROVE  Takes(f, h, InputRst(f, h)) /\ Hushed(f, InputRst(f, h))
<1> DEFINE g == [f EXCEPT !.state = "Closed"]
<1>1. Fields(g, "Closed", f.pcb, f.tx, f.rx, f.life, f.callback, f.fault, f.out)
  BY Zenon DEF Good, FlowShape, Fields
<1>2. InputRst(f, h) \in {f, g}
  BY Zenon DEF InputRst
<1>3. Len(f.tx.chain) \in Nat
  BY DEF Good, FlowFieldsOK, TxType
<1> HIDE DEF g
<1>4. /\ NoRst(f) => NoRst(g)
      /\ Silent(f) => Silent(g)
      /\ Numbered(g)
  BY <1>1, Zenon DEF Fields, NoRst, Silent, Numbered
<1>5. Takes(f, h, g)
  BY <1>1, <1>3, <1>4 DEF Fields, Takes
<1>6. Hushed(f, g)
  BY <1>1, <1>4, Zenon DEF Fields, Hushed
<1> QED
  BY <1>2, <1>5, <1>6, IgnoredTakes, Zenon

\* InputPacket's case for SYN-ACKs.
LEMMA InputSynAckTakes ==
  ASSUME NEW f, Good(f), NEW h, h.seqno \in 0..(Modulus - 1),
         h.flags = "SYNACK"
  PROVE  Takes(f, h, InputSynAck(f, h)) /\ Hushed(f, InputSynAck(f, h))
<1> DEFINE p == [f.pcb EXCEPT !.snd_una = Wrap(@ + 1),
                              !.rcv_nxt = Wrap(h.seqno + 1)]
           q == rto_maybe_reset(p)
           g == [f EXCEPT !.pcb = q, !.state = "Established",
                          !.callback = "up"]
           k == IF f.state = "SynSent" THEN g ELSE f
           a == SendControlPacket(k, k.pcb.snd_nxt, "ACK")
<1>0. f.pcb \in PcbType /\ f.tx \in TxType /\ TxOK(f.tx)
  BY Zenon DEF Good, FlowFieldsOK
<1>1. /\ f.pcb.snd_una \in 0..(Modulus - 1) /\ f.pcb.snd_nxt \in 0..(Modulus - 1)
      /\ Wrap(f.pcb.snd_una + 1) \in 0..(Modulus - 1)
      /\ Wrap(h.seqno + 1) \in 0..(Modulus - 1)
  BY <1>0, WrapRange, HalfModulus DEF PcbType
<1>2. /\ p \in PcbType /\ p.snd_una = Wrap(f.pcb.snd_una + 1)
      /\ p.snd_nxt = f.pcb.snd_nxt
  BY ONLY <1>0, <1>1, ZenonT(30) DEF PcbType
<1> HIDE DEF p
<1>3. /\ q \in PcbType /\ SameSeqnos(q, p) /\ q.rto_timer \in {-1, 0}
  BY <1>2, TimerOps, Zenon DEF rto_maybe_reset
<1>4. q.snd_una = Wrap(f.pcb.snd_una + 1) /\ q.snd_nxt = f.pcb.snd_nxt
  BY <1>2, <1>3, Zenon DEF SameSeqnos
<1> HIDE DEF q
<1>5. Fields(g, "Established", q, f.tx, f.rx, f.life, "up", f.fault, f.out)
  BY Zenon DEF Good, FlowShape, Fields
<1> HIDE DEF g
<1>6. Good(g)
  <2>1. FlowShape(g)
    BY <1>5, Zenon DEF Good, FlowShape, Fields
  <2>2. FlowFieldsOK(g)
    BY <1>3, <1>5, Zenon DEF Good, FlowFieldsOK, Fields
  <2>3. TimerOK(g)
    BY <1>3, <1>5, SwiftAssumption DEF TimerOK, Fields, SwiftAssumption
  <2> QED
    BY <1>5, <2>1, <2>2, <2>3, Zenon DEF Good, Fields
<1>7. f.state = "SynSent" /\ Numbered(f) => Numbered(g)
  <2> SUFFICES ASSUME f.state = "SynSent", Numbered(f)
               PROVE  Outstanding(g) = InFlight(g) + SynPending(g)
    BY Zenon DEF Numbered
  <2>1. Outstanding(f) = InFlight(f) + 1 /\ InFlight(f) \in Nat
    BY <1>0 DEF Numbered, SynPending, InFlight, TxOK, TxType
  <2>2. Outstanding(f) >= 1
    BY <2>1
  <2>3. Outstanding(g) = Outstanding(f) - 1
    BY <1>1, <1>4, <1>5, <2>2, NextDistance, ZenonT(30) DEF Outstanding, Fields
  <2>4. InFlight(g) = InFlight(f) /\ SynPending(g) = 0
    BY <1>5, Zenon DEF InFlight, SynPending, Fields
  <2> QED
    BY <2>1, <2>3, <2>4
<1>8. k.pcb.snd_nxt \in 0..(Modulus - 1) /\ Good(k)
  BY <1>1, <1>4, <1>5, <1>6, Zenon DEF Fields
<1>9. Len(f.tx.chain) \in Nat
  BY <1>0 DEF TxType
<1>10. CASE f.state \notin {"SynSent", "Established"} \/ h.ackno # f.pcb.snd_nxt
  <2>1. InputSynAck(f, h) = f
    BY <1>10, Zenon DEF InputSynAck
  <2> QED
    BY <2>1, IgnoredTakes, Zenon
<1>11. CASE f.state \in {"SynSent", "Established"} /\ h.ackno = f.pcb.snd_nxt
  <2>1. InputSynAck(f, h) = a
    BY <1>11, Zenon DEF InputSynAck, SendAck, k, g, q, p
  <2> HIDE DEF k
  <2>2. Sends(k, a)
    BY <1>8, SendControlPacketSends, SMTT(20)
  <2> HIDE DEF a
  <2>3. /\ k.state = "Established" /\ k.tx = f.tx /\ k.rx = f.rx
        /\ k.fault = f.fault /\ k.out = f.out
        /\ Numbered(f) => Numbered(k)
    BY <1>5, <1>7, <1>11, Zenon DEF Fields, k
  <2>4. NoRst(f) => NoRst(k)
    BY <2>3, Zenon DEF NoRst
  <2>5. /\ a.state = "Established" /\ a.rx = f.rx
        /\ Len(a.tx.chain) <= Len(f.tx.chain)
        /\ NoRst(f) => NoRst(a)
        /\ Numbered(f) => Numbered(a)
        /\ f.fault # "over_ack" => a.fault # "over_ack"
    BY <1>9, <2>2, <2>3, <2>4 DEF Sends
  <2>6. Takes(f, h, a)
    BY <2>5, Zenon DEF Takes
  <2>7. Hushed(f, a)
    BY <1>11, <2>5, Zenon DEF Hushed
  <2> QED
    BY <2>1, <2>6, <2>7, Zenon
<1> QED
  BY <1>10, <1>11, Zenon

\* InputPacket's case for SYNs.
LEMMA InputSynTakes ==
  ASSUME NEW f, Good(f), NEW h, h.seqno \in 0..(Modulus - 1), h.flags = "SYN"
  PROVE  Takes(f, h, InputSyn(f, h)) /\ Hushed(f, InputSyn(f, h))
<1> DEFINE p == [f.pcb EXCEPT !.rcv_nxt = Wrap(h.seqno + 1)]
           g == [f EXCEPT !.pcb = p, !.state = "SynReceived"]
           a == SendControlPacket(g, f.pcb.snd_nxt, "SYNACK")
           q == advance_snd_nxt(p, 1)
           b == SetPcb(a, q)
<1>0. f.pcb \in PcbType /\ Len(f.tx.chain) \in Nat
  BY DEF Good, FlowFieldsOK, TxType
<1>1. /\ f.pcb.snd_nxt \in 0..(Modulus - 1)
      /\ f.pcb.snd_una \in 0..(Modulus - 1)
      /\ Wrap(h.seqno + 1) \in 0..(Modulus - 1)
  <2>1. /\ f.pcb.snd_nxt \in 0..(Modulus - 1)
        /\ f.pcb.snd_una \in 0..(Modulus - 1)
    BY ONLY <1>0, SMTT(60) DEF PcbType
  <2>2. h.seqno + 1 \in Int
    BY HalfModulus
  <2> QED
    BY <2>1, <2>2, WrapRange, Zenon
<1>2. /\ p \in PcbType /\ p.snd_una = f.pcb.snd_una
      /\ p.snd_nxt = f.pcb.snd_nxt /\ p.rto_timer = f.pcb.rto_timer
  BY ONLY <1>0, <1>1, ZenonT(60) DEF PcbType
<1>3. CASE f.state = "Closed"
  <2>1. InputSyn(f, h) = [a EXCEPT !.pcb = advance_snd_nxt(@, 1)]
    <3> DEFINE g0 == [f EXCEPT !.pcb.rcv_nxt = Wrap(h.seqno + 1),
                               !.state = "SynReceived"]
    <3>1. InputSyn(f, h) = [SendControlPacket(g0, f.pcb.snd_nxt, "SYNACK")
                              EXCEPT !.pcb = advance_snd_nxt(@, 1)]
      BY <1>3, Zenon DEF InputSyn, SendSynAck
    <3>2. g0 = g
      BY Zenon DEF Good, FlowShape, Fields
    <3> QED
      BY <3>1, <3>2, Zenon
  <2> HIDE DEF p
  <2>2. Fields(g, "SynReceived", p, f.tx, f.rx, f.life, f.callback, f.fault,
               f.out)
    BY Zenon DEF Good, FlowShape, Fields
  <2> HIDE DEF g
  <2>3. Good(g)
    <3>1. FlowShape(g)
      BY <2>2, Zenon DEF Good, FlowShape, Fields
    <3>2. FlowFieldsOK(g)
      BY <1>2, <2>2, Zenon DEF Good, FlowFieldsOK, Fields
    <3> QED
      BY <1>2, <2>2, <3>1, <3>2, Zenon DEF Good, TimerOK, Fields
  <2>4. /\ Sends(g, a) /\ Good(a) /\ a.pcb = g.pcb
        /\ Silent(g) => Silent(a)
    BY <1>1, <2>3, SendControlPacketSends, ControlSilent, Zenon
  <2>5. InputSyn(f, h) = b
    BY <2>1, <2>2, <2>4, Zenon DEF SetPcb, Fields
  <2>6. a.tx = g.tx
    <3>1. PICK x : a = [g EXCEPT !.out = x]
      BY Zenon DEF SendControlPacket
    <3> QED
      BY <2>3, <3>1, WithOut, Zenon DEF Good, Fields
  <2> HIDE DEF a
  <2>7. q.snd_nxt = Wrap(f.pcb.snd_nxt + 1) /\ q.snd_una = f.pcb.snd_una
    <3>1. p \in PcbType /\ 1 \in Int
      BY <1>2
    <3>2. q.snd_nxt = Wrap(p.snd_nxt + 1) /\ q.snd_una = p.snd_una
      BY ONLY <3>1, AdvanceOps, Zenon
    <3> QED
      BY <1>2, <3>2, Zenon
  <2> HIDE DEF q
  <2>8. Fields(b, a.state, q, a.tx, a.rx, a.life, a.callback, a.fault, a.out)
    BY <2>4, WithPcb, Zenon DEF Good, SetPcb
  <2> HIDE DEF b
  <2>9. /\ b.state = "SynReceived" /\ b.rx = f.rx /\ b.tx = f.tx
        /\ f.fault # "over_ack" => b.fault # "over_ack"
    BY <2>2, <2>4, <2>6, <2>8 DEF Fields, Sends
  <2>10. NoRst(f) => NoRst(b)
    <3>1. NoRst(f) => NoRst(g)
      BY <2>2, Zenon DEF Fields, NoRst
    <3>2. NoRst(a) => NoRst(b)
      BY <2>8, Zenon DEF Fields, NoRst
    <3> QED
      BY <2>4, <3>1, <3>2, Zenon DEF Sends
  <2>11. Silent(f) => Silent(b)
    <3>1. Silent(f) => Silent(g)
      BY <2>2, Zenon DEF Fields, Silent
    <3>2. Silent(a) => Silent(b)
      BY <2>8, Zenon DEF Fields, Silent
    <3> QED
      BY <2>4, <3>1, <3>2, Zenon
  <2>12. f.pcb = InitPcb /\ f.tx = InitTx => Numbered(b)
    <3> SUFFICES ASSUME f.pcb = InitPcb, f.tx = InitTx
                 PROVE  Outstanding(b) = InFlight(b) + SynPending(b)
      BY Zenon DEF Numbered
    <3>1. b.pcb.snd_nxt = 1 /\ b.pcb.snd_una = 0
      BY <2>7, <2>8, WrapSmall, HalfModulus DEF Fields, InitPcb
    <3>2. Outstanding(b) = 1
      BY <3>1, WrapSmall, HalfModulus DEF Outstanding
    <3>3. InFlight(b) = 0 /\ SynPending(b) = 1
      BY <2>9 DEF InFlight, SynPending, InitTx
    <3> QED
      BY <3>2, <3>3
  <2>13. Takes(f, h, b)
    BY <1>0, <1>3, <2>9, <2>10, <2>12 DEF Takes
  <2>14. Hushed(f, b)
    BY <2>9, <2>11, Zenon DEF Hushed
  <2> QED
    BY <2>5, <2>13, <2>14, Zenon
<1>4. CASE f.state = "SynReceived"
  <2> DEFINE k == SendControlPacket(f, f.pcb.snd_una, "SYNACK")
  <2>1. InputSyn(f, h) = k
    BY <1>4, Zenon DEF InputSyn, SendSynAck
  <2>2. Sends(f, k) /\ (Silent(f) => Silent(k))
    BY <1>1, SendControlPacketSends, ControlSilent, Zenon
  <2> HIDE DEF k
  <2>3. Takes(f, h, k)
    BY <1>4, <2>2, SendsTakes, Zenon
  <2>4. Hushed(f, k)
    BY <1>4, <2>2, Zenon DEF Sends, Hushed
  <2> QED
    BY <2>1, <2>3, <2>4, Zenon
<1>5. CASE f.state \notin {"Closed", "SynReceived"}
  <2>1. InputSyn(f, h) = f
    BY <1>5, Zenon DEF InputSyn
  <2> QED
    BY <1>5, <2>1, IgnoredTakes, Zenon
<1> QED
  BY <1>3, <1>4, <1>5, Zenon

-----------------------------------------------------------------------------
(* The other steps of a flow.                                               *)

\* A tick retransmits, or drops the flow, or does nothing.
LEMMA TickSender ==
  ASSUME NEW f, Good(f), f.life = "live"
  PROVE  LET g == Tick(f)
         IN  /\ Handled(f, g) /\ g.state = f.state /\ g.rx = f.rx
             /\ g.life # "absent"
             /\ f.fault # "over_ack" => g.fault # "over_ack"
             /\ f.callback # "up" => g.callback # "up"
             /\ f.state # "Established" /\ Silent(f) => Silent(g)
<1> DEFINE q == rto_advance(f.pcb)
           p == SetPcb(f, q)
           callback == IF f.state = "SynSent" THEN "failed" ELSE f.callback
           d == [p EXCEPT !.life = "removed", !.callback = callback]
           c == [f EXCEPT !.life = "removed"]
<1>0. f.pcb \in PcbType /\ FlowShape(f) /\ Len(f.tx.chain) \in Nat
      /\ f.pcb.rto_timer < kRtoThresholdInTicks
  BY DEF Good, FlowFieldsOK, TimerOK, TxType
<1>1. q.snd_una = f.pcb.snd_una /\ q.snd_nxt = f.pcb.snd_nxt
  BY <1>0, TimerOps, Zenon DEF SameSeqnos
<1>2. Fields(p, f.state, q, f.tx, f.rx, f.life, f.callback, f.fault, f.out)
  BY <1>0, WithPcb, SMTT(20) DEF SetPcb
<1>3. ASSUME NEW k, NEW x, x.snd_una = f.pcb.snd_una, x.snd_nxt = f.pcb.snd_nxt,
             NEW life \in {"live", "removed"},
             NEW y \in {callback, f.callback},
             Fields(k, f.state, x, f.tx, f.rx, life, y, f.fault, f.out)
      PROVE  /\ Handled(f, k) /\ k.state = f.state /\ k.rx = f.rx
             /\ k.life # "absent"
             /\ f.fault # "over_ack" => k.fault # "over_ack"
             /\ f.callback # "up" => k.callback # "up"
             /\ f.state # "Established" /\ Silent(f) => Silent(k)
  <2>1. NoRst(f) => NoRst(k)
    BY <1>3, Zenon DEF Fields, NoRst
  <2>2. Silent(f) => Silent(k)
    BY <1>3, Zenon DEF Fields, Silent
  <2>3. Numbered(f) => Numbered(k)
    BY <1>3, Zenon DEF Fields, Numbered, Outstanding, InFlight, SynPending
  <2>4. Len(k.tx.chain) <= Len(f.tx.chain)
    BY <1>0, <1>3 DEF Fields
  <2>5. Handled(f, k)
    BY <2>1, <2>3, <2>4, Zenon DEF Handled
  <2> QED
    BY <1>3, <2>2, <2>5, Zenon DEF Fields
<1>4. CASE f.state = "Closed"
  <2>1. Tick(f) = c
    BY <1>4, Zenon DEF Tick
  <2>2. Fields(c, f.state, f.pcb, f.tx, f.rx, "removed", f.callback, f.fault,
               f.out)
    BY <1>0, Zenon DEF FlowShape, Fields
  <2> HIDE DEF c, callback
  <2> QED
    BY <1>3, <2>1, <2>2, Zenon
<1>5. CASE f.state # "Closed" /\ max_rexmits_reached(f.pcb)
  <2>1. Tick(f) = d
    <3>1. p.callback = f.callback
      BY <1>2, Zenon DEF Fields
    <3> QED
      BY <1>5, <3>1, Zenon DEF Tick, SetPcb
  <2> HIDE DEF p, q
  <2>2. Fields(d, f.state, q, f.tx, f.rx, "removed", callback, f.fault, f.out)
    BY <1>2, Zenon DEF Fields
  <2> HIDE DEF d, callback
  <2> QED
    BY <1>1, <1>3, <2>1, <2>2, Zenon
<1>6. CASE f.state # "Closed" /\ ~max_rexmits_reached(f.pcb)
  <2>1. Tick(f) = IF rto_expired(q) THEN RTORetransmit(p) ELSE p
    <3>1. p.pcb = q
      BY <1>2, Zenon DEF Fields
    <3> QED
      BY <1>6, <3>1, Zenon DEF Tick, SetPcb
  <2>2. CASE rto_expired(q)
    <3> DEFINE k == RTORetransmit(p)
    <3>1. Sends(f, k) /\ (f.state # "Established" /\ Silent(f) => Silent(k))
      BY <1>6, RTORetransmitSends, Zenon
    <3> HIDE DEF k
    <3>2. Handled(f, k)
      BY <3>1, SendsHandled, Zenon
    <3>3. /\ k.state = f.state /\ k.rx = f.rx /\ k.life # "absent"
          /\ f.fault # "over_ack" => k.fault # "over_ack"
          /\ f.callback # "up" => k.callback # "up"
      BY <3>1, Zenon DEF Sends
    <3>4. Tick(f) = k
      BY <2>1, <2>2, Zenon DEF k
    <3> QED
      BY <3>1, <3>2, <3>3, <3>4, Zenon
  <2>3. CASE ~rto_expired(q)
    <3>1. Tick(f) = p
      BY <2>1, <2>3, Zenon
    <3> HIDE DEF p, q, callback
    <3> QED
      BY <1>1, <1>2, <1>3, <3>1, Zenon
  <2> QED
    BY <2>2, <2>3, Zenon
<1> QED
  BY <1>4, <1>5, <1>6, Zenon

\* ShutDown closes the flow and sends nothing but a reset.
LEMMA ShutSender ==
  ASSUME NEW f, Good(f)
  PROVE  LET g == Shut(f)
         IN  /\ Len(g.tx.chain) <= Len(f.tx.chain) /\ g.state = "Closed"
             /\ g.rx = f.rx /\ g.life # "absent" /\ (Silent(f) => Silent(g))
<1> DEFINE q == rto_disable(f.pcb)
           p == [f EXCEPT !.pcb = q, !.state = "Closed"]
           s == SendControlPacket(p, p.pcb.snd_nxt, "RST")
           k == IF f.state = "Closed" THEN f ELSE s
           g == [k EXCEPT !.life = "removed"]
<1>0. f.pcb \in PcbType /\ FlowShape(f) /\ Len(f.tx.chain) \in Nat
  BY DEF Good, FlowFieldsOK, TxType
<1>1. q \in PcbType /\ q.rto_timer = -1
  BY <1>0, TimerOps, Zenon
<1>2. Shut(f) = g
  BY Zenon DEF Shut, SendRst
<1> HIDE DEF q
<1>3. Fields(p, "Closed", q, f.tx, f.rx, f.life, f.callback, f.fault, f.out)
  BY <1>0, Zenon DEF FlowShape, Fields
<1> HIDE DEF p
<1>4. Good(p)
  <2>1. FlowShape(p)
    BY <1>0, <1>3, Zenon DEF FlowShape, Fields
  <2>2. FlowFieldsOK(p)
    BY <1>1, <1>3, Zenon DEF Good, FlowFieldsOK, Fields
  <2>3. TimerOK(p)
    BY <1>1, <1>3, SwiftAssumption DEF TimerOK, Fields, SwiftAssumption
  <2> QED
    BY <1>3, <2>1, <2>2, <2>3, Zenon DEF Good, Fields
<1>5. Silent(p) => Silent(s)
  BY <1>4, ControlSilent, Zenon
<1>6. PICK x : s = [p EXCEPT !.out = x]
  BY Zenon DEF SendControlPacket
<1>7. Fields(s, "Closed", q, f.tx, f.rx, f.life, f.callback, f.fault, x)
  BY <1>3, <1>4, <1>6, WithOut, Zenon DEF Good, Fields
<1> HIDE DEF s
<1>8. FlowShape(s)
  BY <1>0, <1>7, Zenon DEF FlowShape, Fields
<1>9. FlowShape(k) /\ k.state = "Closed" /\ k.tx = f.tx /\ k.rx = f.rx
  BY <1>0, <1>7, <1>8, Zenon DEF Fields
<1>10. Silent(f) => Silent(k)
  <2>1. Silent(f) => Silent(p)
    BY <1>3, Zenon DEF Fields, Silent
  <2> QED
    BY <1>5, <2>1, Zenon
<1> HIDE DEF k
<1>11. Fields(g, k.state, k.pcb, k.tx, k.rx, "removed", k.callback, k.fault,
              k.out)
  BY <1>9, Zenon DEF FlowShape, Fields
<1> HIDE DEF g
<1>12. Silent(k) => Silent(g)
  BY <1>11, Zenon DEF Fields, Silent
<1> QED
  BY <1>0, <1>2, <1>9, <1>10, <1>11, <1>12 DEF Fields

\* InitiateHandshake sends the SYN, which takes the first sequence number.
LEMMA ConnectSender ==
  ASSUME NEW f, Good(f), f.pcb = InitPcb, f.tx = InitTx
  PROVE  LET p == [f EXCEPT !.life = "live", !.state = "SynSent",
                            !.pcb = rto_reset(advance_snd_nxt(@, 1))]
             g == SendSyn(p, f.pcb.snd_nxt)
         IN  /\ Numbered(g) /\ Len(g.tx.chain) <= Len(f.tx.chain)
             /\ g.state = "SynSent" /\ g.life = "live"
             /\ g.callback = f.callback /\ g.rx = f.rx
             /\ f.fault # "over_ack" => g.fault # "over_ack"
             /\ (NoRst(f) => NoRst(g)) /\ (Silent(f) => Silent(g))
<1> DEFINE a == advance_snd_nxt(f.pcb, 1)
           q == rto_reset(a)
           p == [f EXCEPT !.life = "live", !.state = "SynSent", !.pcb = q]
           g == SendControlPacket(p, f.pcb.snd_nxt, "SYN")
<1>0. /\ f.pcb \in PcbType /\ FlowShape(f) /\ 1 \in Int
      /\ Len(f.tx.chain) \in Nat
  BY DEF Good, FlowFieldsOK, TxType
<1>1. f.pcb.snd_nxt \in 0..(Modulus - 1)
  BY <1>0, Zenon DEF PcbType
<1>2. /\ a \in PcbType /\ a.snd_nxt = Wrap(f.pcb.snd_nxt + 1)
      /\ a.snd_una = f.pcb.snd_una
  BY ONLY <1>0, AdvanceOps, Zenon
<1> HIDE DEF a
<1>3. q \in PcbType /\ SameSeqnos(q, a) /\ q.rto_timer = 0
  BY <1>2, TimerOps, Zenon
<1>4. q.snd_nxt = 1 /\ q.snd_una = 0
  <2>1. f.pcb.snd_nxt = 0 /\ f.pcb.snd_una = 0
    BY DEF InitPcb
  <2>2. Wrap(0 + 1) = 1
    BY WrapSmall, HalfModulus
  <2> QED
    BY <1>2, <1>3, <2>1, <2>2, Zenon DEF SameSeqnos
<1> HIDE DEF q
<1>5. Fields(p, "SynSent", q, f.tx, f.rx, "live", f.callback, f.fault, f.out)
  BY <1>0, Zenon DEF FlowShape, Fields
<1> HIDE DEF p
<1>6. Good(p)
  <2>1. FlowShape(p)
    BY <1>0, <1>5, Zenon DEF FlowShape, Fields
  <2>2. FlowFieldsOK(p)
    BY <1>3, <1>5, Zenon DEF Good, FlowFieldsOK, Fields
  <2>3. TimerOK(p)
    BY <1>3, <1>5, SwiftAssumption DEF TimerOK, Fields, SwiftAssumption
  <2> QED
    BY <1>5, <2>1, <2>2, <2>3, Zenon DEF Good, Fields
<1>7. Sends(p, g) /\ (Silent(p) => Silent(g))
  BY <1>1, <1>6, SendControlPacketSends, ControlSilent, Zenon
<1>8. Numbered(p)
  <2>1. Outstanding(p) = 1
    BY <1>4, <1>5, WrapSmall, HalfModulus DEF Outstanding, Fields
  <2>2. InFlight(p) = 0 /\ SynPending(p) = 1
    BY <1>5 DEF Fields, InFlight, SynPending, InitTx
  <2> QED
    BY <2>1, <2>2 DEF Numbered
<1>9. (NoRst(f) => NoRst(p)) /\ (Silent(f) => Silent(p))
  BY <1>5, Zenon DEF Fields, NoRst, Silent
<1> HIDE DEF g
<1>10. /\ Numbered(g) /\ Len(g.tx.chain) <= Len(f.tx.chain)
       /\ g.state = "SynSent" /\ g.life = "live"
       /\ g.callback = f.callback /\ g.rx = f.rx
       /\ f.fault # "over_ack" => g.fault # "over_ack"
       /\ (NoRst(f) => NoRst(g)) /\ (Silent(f) => Silent(g))
  BY <1>0, <1>5, <1>7, <1>8, <1>9 DEF Sends, Fields
<1> QED
  BY <1>10, Zenon DEF SendSyn, g, p, q, a

-----------------------------------------------------------------------------
(* The senders: packets of data, and submissions.                           *)

\* InputPacket's case for data: the sending side does not move.
LEMMA InputDataTakes ==
  ASSUME NEW f, Good(f), NEW h, h.seqno \in 0..(Modulus - 1),
         h.buf \in BufType, h.flags = "DATA", NEW ok \in BOOLEAN
  PROVE  Takes(f, h, InputData(f, h, ok))
<1> DEFINE c == Consume(f.pcb, f.rx, h.seqno, h.buf, ok)
           fault == IF c.rx.fatal THEN "ring_full" ELSE f.fault
           g == [f EXCEPT !.pcb = c.pcb, !.rx = c.rx, !.fault = fault]
           k == SendControlPacket(g, g.pcb.snd_nxt, "ACK")
<1>1. /\ f.pcb \in PcbType /\ f.rx.reass_q \in Seq(EntryType)
      /\ f.rx.accepted \in Seq(BufType)
      /\ RxFields(f.rx, f.rx.reass_q, f.rx.train, f.rx.ring, f.rx.fatal,
                  f.rx.accepted)
  BY Zenon DEF Good, FlowFieldsOK, FlowShape, EntryType
<1>0. PICK st : st \in Seq(BufType) /\ Len(st) + 1 < Modulus \div 2
  <2>1. <<>> \in Seq(BufType) /\ Len(<<>>) + 1 < Modulus \div 2
    BY HalfModulus
  <2> QED
    BY <2>1, Zenon
<1>2. /\ c.pcb \in PcbType /\ c.pcb.rto_timer = f.pcb.rto_timer
      /\ c.pcb.snd_una = f.pcb.snd_una /\ c.pcb.snd_nxt = f.pcb.snd_nxt
      /\ RxFields(c.rx, c.rx.reass_q, c.rx.train, c.rx.ring, c.rx.fatal,
                  c.rx.accepted)
      /\ c.rx.reass_q \in Seq(EntryType)
      /\ c.rx.accepted \in Seq(BufType)
  <2>1. /\ c.pcb \in PcbType /\ c.pcb.rto_timer = f.pcb.rto_timer
        /\ c.pcb.snd_una = f.pcb.snd_una /\ c.pcb.snd_nxt = f.pcb.snd_nxt
        /\ RxFields(c.rx, c.rx.reass_q, c.rx.train, c.rx.ring, c.rx.fatal,
                    c.rx.accepted)
        /\ c.rx.reass_q \in Seq(EntryType)
        /\ c.rx.accepted \in Seq(BufType)
        /\ RcvOK(f.rx, st) /\ f.pcb.rcv_nxt = Len(f.rx.accepted) + 1
           /\ h.seqno \in 1..Len(st) /\ h.buf = st[h.seqno] =>
             /\ RcvOK(c.rx, st)
             /\ c.pcb.rcv_nxt = Len(c.rx.accepted) + 1
             /\ c.pcb.rcv_nxt >= f.pcb.rcv_nxt
    BY <1>0, <1>1, ConsumeOK, ZenonT(60)
  <2> QED
    BY <2>1, Zenon
<1> HIDE DEF c
<1>3. /\ fault \in {"none", "no_unacked", "off_chain", "over_ack", "ring_full"}
      /\ f.fault # "over_ack" => fault # "over_ack"
  BY Zenon DEF Good, FlowFieldsOK
<1> HIDE DEF fault
<1>4. Fields(g, f.state, c.pcb, f.tx, c.rx, f.life, f.callback, fault, f.out)
  BY Zenon DEF Good, FlowShape, Fields
<1> HIDE DEF g
<1>5. Good(g)
  <2>1. FlowShape(g)
    BY <1>2, <1>4, Zenon DEF FlowShape, Fields, RxFields
  <2>2. FlowFieldsOK(g)
    BY <1>2, <1>3, <1>4, Zenon DEF Good, FlowFieldsOK, Fields, EntryType
  <2>3. TimerOK(g)
    BY <1>2, <1>4, Zenon DEF Good, TimerOK, Fields
  <2> QED
    BY <1>4, <2>1, <2>2, <2>3, Zenon DEF Good, Fields
<1>6. /\ g.state = f.state /\ g.tx = f.tx
      /\ f.fault # "over_ack" => g.fault # "over_ack"
  BY <1>3, <1>4, Zenon DEF Fields
<1>7. NoRst(f) => NoRst(g)
  BY <1>4, Zenon DEF Fields, NoRst
<1>8. Numbered(f) => Numbered(g)
  BY <1>2, <1>4, Zenon DEF Fields, Numbered, Outstanding, InFlight, SynPending
<1>9. Len(f.tx.chain) \in Nat
  BY DEF Good, FlowFieldsOK, TxType
<1>10. Takes(f, h, g)
  BY <1>6, <1>7, <1>8, <1>9 DEF Takes
<1>11. CASE f.state # "Established"
  <2>1. InputData(f, h, ok) = f
    BY <1>11, Zenon DEF InputData
  <2> QED
    BY <2>1, IgnoredTakes, Zenon
<1>12. CASE f.state = "Established" /\ c.rc = 0 /\ ~c.rx.fatal
  <2>1. InputData(f, h, ok) = k
    BY <1>12, Zenon DEF InputData, SendAck, c, g, fault
  <2>2. g.pcb.snd_nxt \in 0..(Modulus - 1)
    <3>1. g.pcb \in PcbType
      BY <1>2, <1>4, Zenon DEF Fields
    <3> QED
      BY ONLY <3>1, Zenon DEF PcbType
  <2>3. Sends(g, k)
    BY <1>5, <2>2, SendControlPacketSends, SMTT(20)
  <2> HIDE DEF k
  <2>4. Takes(f, h, k)
    BY <1>6, <1>7, <1>8, <1>9, <2>3 DEF Sends, Takes
  <2> QED
    BY <2>1, <2>4, Zenon
<1>13. CASE f.state = "Established" /\ ~(c.rc = 0 /\ ~c.rx.fatal)
  <2>1. InputData(f, h, ok) = g
    BY <1>13, Zenon DEF InputData, c, g, fault
  <2> QED
    BY <1>10, <2>1, Zenon
<1> QED
  BY <1>11, <1>12, <1>13, Zenon

\* InputPacket, for all five kinds of packets.
LEMMA HandlePacketTakes ==
  ASSUME NEW f, Good(f), Roomy(f), NEW h \in HdrType, NEW ok \in BOOLEAN
  PROVE  /\ Takes(f, h, HandlePacket(f, h, ok))
         /\ h.flags \notin {"ACK", "DATA"} => Hushed(f, HandlePacket(f, h, ok))
<1>1. CASE h.flags = "SYN"
  <2>1. HandlePacket(f, h, ok) = InputSyn(f, h) /\ h.seqno \in 0..(Modulus - 1)
    BY <1>1, Zenon DEF HandlePacket, HdrType
  <2> QED
    BY <1>1, <2>1, InputSynTakes, Zenon
<1>2. CASE h.flags = "SYNACK"
  <2>1. /\ HandlePacket(f, h, ok) = InputSynAck(f, h)
        /\ h.seqno \in 0..(Modulus - 1)
    BY <1>2, Zenon DEF HandlePacket, HdrType
  <2> QED
    BY <1>2, <2>1, InputSynAckTakes, Zenon
<1>3. CASE h.flags = "RST"
  <2>1. HandlePacket(f, h, ok) = InputRst(f, h)
    BY <1>3, Zenon DEF HandlePacket
  <2> QED
    BY <1>3, <2>1, InputRstTakes, Zenon
<1>4. CASE h.flags = "ACK"
  <2>1. /\ HandlePacket(f, h, ok) = process_ack(f, h, ok)
        /\ h.ackno \in 0..(Modulus - 1) /\ h.count \in 0..255
    BY <1>4, Zenon DEF HandlePacket, HdrType
  <2> QED
    BY <1>4, <2>1, ProcessAckTakes, Zenon
<1>5. CASE h.flags = "DATA"
  <2>1. /\ HandlePacket(f, h, ok) = InputData(f, h, ok)
        /\ h.seqno \in 0..(Modulus - 1) /\ h.buf \in BufType
    BY <1>5, Zenon DEF HandlePacket, HdrType
  <2> QED
    BY <1>5, <2>1, InputDataTakes, Zenon
<1> QED
  BY <1>1, <1>2, <1>3, <1>4, <1>5, Zenon DEF HdrType

\* OutputMessage appends to the unsent part, and sends from it.
LEMMA SubmitSender ==
  ASSUME NEW f, Good(f), NEW m \in Seq(BufType), Len(m) > 0,
         Len(f.tx.chain) + Len(m) + 1 < Modulus \div 2, NEW ok \in BOOLEAN
  PROVE  LET g == TransmitPackets([f EXCEPT !.tx = TxAppend(@, m)], ok)
         IN  /\ Len(g.tx.chain) = Len(f.tx.chain) + Len(m)
             /\ g.state = f.state /\ g.life = f.life
             /\ g.callback = f.callback /\ g.rx = f.rx
             /\ f.fault # "over_ack" => g.fault # "over_ack"
             /\ NoRst(f) => NoRst(g)
             /\ Numbered(f) => Numbered(g)
<1> DEFINE t == TxAppend(f.tx, m)
           k == [f EXCEPT !.tx = t]
           g == TransmitPackets(k, ok)
<1>1. /\ f.tx \in TxType /\ TxOK(f.tx) /\ Len(f.tx.chain) \in Nat
      /\ f.tx.num_unsent \in Nat /\ Len(m) \in Nat
  BY DEF Good, FlowFieldsOK, TxType
<1>2. /\ Len(t.chain) = Len(f.tx.chain) + Len(m)
      /\ t.num_unsent = f.tx.num_unsent + Len(m)
  BY <1>1, TxAppendOK, Zenon
<1>3. Good(k)
  BY AnyContext, SubmitOK, Zenon
<1> HIDE DEF t
<1>4. Fields(k, f.state, f.pcb, t, f.rx, f.life, f.callback, f.fault, f.out)
  BY Zenon DEF Good, FlowShape, Fields
<1> HIDE DEF k
<1>5. Len(k.tx.chain) = Len(f.tx.chain) + Len(m) /\ InFlight(k) = InFlight(f)
  BY <1>1, <1>2, <1>4 DEF Fields, InFlight
<1>6. Roomy(k)
  BY <1>5, Zenon DEF Roomy
<1>7. Sends(k, g)
  BY <1>3, <1>6, TransmitSends, Zenon
<1>8. Numbered(f) => Numbered(k)
  BY <1>4, <1>5, Zenon DEF Fields, Numbered, Outstanding, SynPending
<1>9. NoRst(f) => NoRst(k)
  BY <1>4, Zenon DEF Fields, NoRst
<1> HIDE DEF g
<1>10. /\ Len(g.tx.chain) = Len(f.tx.chain) + Len(m)
       /\ g.state = f.state /\ g.life = f.life
       /\ g.callback = f.callback /\ g.rx = f.rx
       /\ f.fault # "over_ack" => g.fault # "over_ack"
       /\ NoRst(f) => NoRst(g)
       /\ Numbered(f) => Numbered(g)
  BY <1>4, <1>5, <1>7, <1>8, <1>9, Zenon DEF Sends, Fields
<1> QED
  BY <1>10, Zenon DEF g, k, t

=============================================================================
