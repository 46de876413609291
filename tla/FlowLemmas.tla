----------------------------- MODULE FlowLemmas -----------------------------
(***************************************************************************)
(* What the operators of Swift, TxTracking, RxTracking and Flow do to one  *)
(* flow object, and that they keep the parts of the invariant of FlowInv   *)
(* that speak of it: what Consume accepts and hands over keeps step with   *)
(* the stream of the peer, and sending keeps the sent part of the chain    *)
(* between snd_una and snd_nxt.                                            *)
(***************************************************************************)
EXTENDS FlowInv, WellFoundedInduction, TLAPS

-----------------------------------------------------------------------------
(* Arithmetic modulo 2^32.                                                  *)

\* The sequence space splits into two halves, each larger than 1.
LEMMA HalfModulus ==
  /\ Modulus \in Nat /\ Modulus \div 2 \in Nat
  /\ 1 < Modulus \div 2 /\ Modulus = 2 * (Modulus \div 2)
  BY SwiftAssumption DEF SwiftAssumption

\* uint32_t arithmetic leaves a number in range alone.
LEMMA WrapSmall ==
  ASSUME NEW n \in Int, 0 <= n, n < Modulus
  PROVE  Wrap(n) = n
  BY SwiftAssumption DEF SwiftAssumption, Wrap

\* A negative difference wraps once.
LEMMA WrapNegative ==
  ASSUME NEW n \in Int, n < 0, -Modulus <= n
  PROVE  Wrap(n) = n + Modulus
  BY SwiftAssumption DEF SwiftAssumption, Wrap

\* What is wrapped fits the width of a sequence number.
LEMMA WrapRange == \A n \in Int : Wrap(n) \in 0..(Modulus - 1)
  BY SwiftAssumption DEF SwiftAssumption, Wrap

\* Within half of the sequence space the wrapped comparisons are the plain ones.
LEMMA SeqnoOrder ==
  ASSUME NEW a \in Nat, NEW b \in Nat, a < Modulus \div 2, b < Modulus \div 2
  PROVE  /\ seqno_lt(a, b) <=> a < b
         /\ seqno_eq(a, b) <=> a = b
         /\ seqno_gt(a, b) <=> a > b
<1>1. CASE a >= b
  <2>1. Wrap(a - b) = a - b
    BY <1>1, WrapSmall, HalfModulus
  <2> QED
    BY <1>1, <2>1, HalfModulus DEF seqno_lt, seqno_eq, seqno_gt
<1>2. CASE a < b
  <2>1. Wrap(a - b) = a - b + Modulus
    BY <1>2, WrapNegative, HalfModulus
  <2> QED
    BY <1>2, <2>1, HalfModulus DEF seqno_lt, seqno_eq, seqno_gt
<1> QED
  BY <1>1, <1>2

-----------------------------------------------------------------------------
(* Flow objects as values: the shape of the records, and the parts of the   *)
(* invariant that speak of one object.                                      *)

Fields(f, state, pcb, tx, rx, life, callback, fault, out) ==
  /\ f \in [state: {state}, pcb: {pcb}, tx: {tx}, rx: {rx}, life: {life},
            callback: {callback}, fault: {fault}, out: {out}]
  /\ f.state = state /\ f.pcb = pcb /\ f.tx = tx /\ f.rx = rx /\ f.life = life
  /\ f.callback = callback /\ f.fault = fault /\ f.out = out

RxFields(rx, reass_q, train, ring, fatal, accepted) ==
  /\ rx \in [reass_q: {reass_q}, train: {train}, ring: {ring}, fatal: {fatal},
             accepted: {accepted}]
  /\ rx.reass_q = reass_q /\ rx.train = train /\ rx.ring = ring
  /\ rx.fatal = fatal /\ rx.accepted = accepted

FlowShape(f) ==
  /\ Fields(f, f.state, f.pcb, f.tx, f.rx, f.life, f.callback, f.fault, f.out)
  /\ RxFields(f.rx, f.rx.reass_q, f.rx.train, f.rx.ring, f.rx.fatal,
              f.rx.accepted)

Good(f) == FlowShape(f) /\ FlowFieldsOK(f) /\ TxOK(f.tx) /\ TimerOK(f)

OutOK(f, st) == \A i \in 1..Len(f.out) : HdrOK(f.out[i], st, f.pcb.rcv_nxt)

Safe(f, st, peer_st, r) == EndOK(f, st, peer_st, r) /\ OutOK(f, st)

\* The streams and the peer's rcv_nxt that a handler is run with.
Context(st, peer_st, r) ==
  /\ st \in Seq(BufType) /\ Len(st) + 1 < Modulus \div 2
  /\ peer_st \in Seq(BufType) /\ Len(peer_st) + 1 < Modulus \div 2
  /\ r \in Nat /\ r <= Len(st) + 1

\* Names for the updates the handlers are made of.
SetPcb(f, q)   == [f EXCEPT !.pcb = q]
SetFault(f, x) == [f EXCEPT !.fault = x]
Emitted(f, h)  == [f EXCEPT !.out = Append(f.out, h)]

\* Changing one field leaves the others alone.
LEMMA WithOut ==
  ASSUME NEW f, FlowShape(f), NEW x
  PROVE  Fields([f EXCEPT !.out = x], f.state, f.pcb, f.tx, f.rx, f.life,
                f.callback, f.fault, x)
  BY Zenon DEF FlowShape, Fields

\* The same for the control block,
LEMMA WithPcb ==
  ASSUME NEW f, FlowShape(f), NEW x
  PROVE  Fields([f EXCEPT !.pcb = x], f.state, x, f.tx, f.rx, f.life,
                f.callback, f.fault, f.out)
  BY Zenon DEF FlowShape, Fields

\* and for the fault.
LEMMA WithFault ==
  ASSUME NEW f, FlowShape(f), NEW x
  PROVE  Fields([f EXCEPT !.fault = x], f.state, f.pcb, f.tx, f.rx, f.life,
                f.callback, x, f.out)
  BY Zenon DEF FlowShape, Fields

\* A new flow has a well-typed control block.
LEMMA InitPcbType == InitPcb \in PcbType
  BY SwiftAssumption DEF SwiftAssumption, InitPcb, PcbType, kRtoDisabled

\* The part of the bitmap a header carries is a bitmap.
LEMMA HdrBitmapType ==
  ASSUME NEW p \in PcbType
  PROVE  HdrBitmap(p) \in SUBSET (Int \X Int)
  BY Zenon DEF HdrBitmap, PcbType

SameSeqnos(q, p) ==
  q.snd_una = p.snd_una /\ q.snd_nxt = p.snd_nxt /\ q.rcv_nxt = p.rcv_nxt

\* Advancing snd_nxt or rcv_nxt keeps the type and the other fields.
LEMMA AdvanceOps ==
  ASSUME NEW p \in PcbType, NEW n \in Int
  PROVE  /\ advance_snd_nxt(p, n) \in PcbType
         /\ advance_snd_nxt(p, n).snd_nxt = Wrap(p.snd_nxt + n)
         /\ advance_snd_nxt(p, n).snd_una = p.snd_una
         /\ advance_snd_nxt(p, n).rcv_nxt = p.rcv_nxt
         /\ advance_snd_nxt(p, n).rto_timer = p.rto_timer
         /\ advance_rcv_nxt(p, n) \in PcbType
         /\ advance_rcv_nxt(p, n).rcv_nxt = Wrap(p.rcv_nxt + n)
         /\ advance_rcv_nxt(p, n).snd_una = p.snd_una
         /\ advance_rcv_nxt(p, n).snd_nxt = p.snd_nxt
         /\ advance_rcv_nxt(p, n).rto_timer = p.rto_timer
<1>1. /\ Wrap(p.snd_nxt + n) \in 0..(Modulus - 1)
      /\ Wrap(p.rcv_nxt + n) \in 0..(Modulus - 1)
  BY WrapRange, HalfModulus DEF PcbType
<1> QED
  BY <1>1 DEF advance_snd_nxt, advance_rcv_nxt, PcbType

\* The timer operations touch the timer only.
LEMMA TimerOps ==
  ASSUME NEW p \in PcbType
  PROVE  /\ rto_reset(p) \in PcbType /\ SameSeqnos(rto_reset(p), p)
         /\ rto_reset(p).rto_timer = 0
         /\ rto_disable(p) \in PcbType /\ SameSeqnos(rto_disable(p), p)
         /\ rto_disable(p).rto_timer = -1
         /\ rto_maybe_reset(p) \in PcbType /\ SameSeqnos(rto_maybe_reset(p), p)
         /\ rto_maybe_reset(p).rto_timer <= 0
         /\ p.rto_timer < kRtoThresholdInTicks =>
              /\ rto_advance(p) \in PcbType /\ SameSeqnos(rto_advance(p), p)
              /\ rto_advance(p).rto_timer = p.rto_timer + 1
<1> USE SwiftAssumption DEF SwiftAssumption, PcbType, kRtoDisabled, SameSeqnos
<1>1. /\ rto_reset(p) \in PcbType /\ SameSeqnos(rto_reset(p), p)
      /\ rto_reset(p).rto_timer = 0
  BY DEF rto_reset
<1>2. /\ rto_disable(p) \in PcbType /\ SameSeqnos(rto_disable(p), p)
      /\ rto_disable(p).rto_timer = -1
  BY SMTT(20) DEF rto_disable
<1>3. /\ rto_maybe_reset(p) \in PcbType /\ SameSeqnos(rto_maybe_reset(p), p)
      /\ rto_maybe_reset(p).rto_timer <= 0
  BY <1>1, <1>2 DEF rto_maybe_reset
<1>4. p.rto_timer < kRtoThresholdInTicks =>
              /\ rto_advance(p) \in PcbType /\ SameSeqnos(rto_advance(p), p)
              /\ rto_advance(p).rto_timer = p.rto_timer + 1
  BY DEF rto_advance
<1> QED
  BY <1>1, <1>2, <1>3, <1>4, Zenon

\* The window is a number of packets, never negative.
LEMMA EffectiveWnd == \A p \in PcbType : effective_wnd(p) \in Nat
<1> TAKE p \in PcbType
<1> DEFINE x == kInitialCwnd - (p.snd_nxt - p.snd_una - p.snd_ooo_acks)
<1>1. x \in Int /\ kInitialCwnd \in Nat
  BY HalfModulus, SwiftAssumption DEF SwiftAssumption, PcbType
<1>2. effective_wnd(p) = IF Wrap(x) > kInitialCwnd THEN 0 ELSE Wrap(x)
  BY Zenon DEF effective_wnd
<1> HIDE DEF x
<1> QED
  BY <1>1, <1>2, WrapRange, HalfModulus

\* A change of the control block that keeps the three sequence numbers.
LEMMA PcbChange ==
  ASSUME NEW f, Good(f), NEW q \in PcbType,
         f.life # "removed" => q.rto_timer < kRtoThresholdInTicks,
         NEW st, NEW peer_st, NEW r
  PROVE  LET g == SetPcb(f, q)
         IN  /\ Good(g) /\ g.life = f.life /\ g.pcb = q
             /\ Safe(f, st, peer_st, r) /\ f.life # "absent"
                /\ SameSeqnos(q, f.pcb)
                => Safe(g, st, peer_st, r)
<1> DEFINE g == SetPcb(f, q)
<1>1. Fields(g, f.state, q, f.tx, f.rx, f.life, f.callback, f.fault, f.out)
  BY WithPcb, Zenon DEF Good, SetPcb
<1> HIDE DEF g
<1>2. Good(g)
  BY <1>1, Zenon DEF Good, FlowShape, Fields, FlowFieldsOK, TimerOK
<1>3. ASSUME Safe(f, st, peer_st, r), f.life # "absent",
             SameSeqnos(q, f.pcb)
      PROVE  Safe(g, st, peer_st, r)
  BY <1>1, <1>3, ZenonT(30) DEF SameSeqnos, Fields, Safe, EndOK, OutOK, SndOK, RcvOK, AckedOK,
                    Opening, Open
<1> QED
  BY <1>1, <1>2, <1>3, Zenon DEF g, Fields

-----------------------------------------------------------------------------
(* Sending.                                                                 *)

\* A header that describes what the end has is a good thing to send.
LEMMA Emit ==
  ASSUME NEW f, Good(f), NEW h \in HdrType,
         NEW st, NEW peer_st, NEW r
  PROVE  LET g == Emitted(f, h)
         IN  /\ Good(g) /\ g.pcb = f.pcb /\ g.life = f.life
             /\ Safe(f, st, peer_st, r) /\ HdrOK(h, st, f.pcb.rcv_nxt)
                => Safe(g, st, peer_st, r)
<1> DEFINE g == Emitted(f, h)
<1>1. Fields(g, f.state, f.pcb, f.tx, f.rx, f.life, f.callback, f.fault,
             Append(f.out, h))
  BY WithOut, Zenon DEF Good, Emitted
<1> HIDE DEF g
<1>2. Good(g)
  BY <1>1 DEF Good, FlowShape, Fields, FlowFieldsOK, TimerOK
<1>3. ASSUME Safe(f, st, peer_st, r), HdrOK(h, st, f.pcb.rcv_nxt)
      PROVE  Safe(g, st, peer_st, r)
  <2>1. EndOK(g, st, peer_st, r)
    BY <1>1, <1>3, ZenonT(30) DEF Fields, Safe, EndOK, SndOK, RcvOK, AckedOK, Opening, Open
  <2>2. OutOK(g, st)
    BY <1>1, <1>3 DEF Fields, Safe, OutOK, Good, FlowFieldsOK
  <2> QED
    BY <2>1, <2>2, Zenon DEF Safe
<1> QED
  BY <1>1, <1>2, <1>3, Zenon DEF g, Fields

\* A control packet leaves the flow as it was, and its header is right.
LEMMA SendControlPacketOK ==
  ASSUME NEW f, Good(f), NEW s \in 0..(Modulus - 1),
         NEW flags \in {"SYN", "SYNACK", "ACK", "RST"},
         NEW st, NEW peer_st, NEW r
  PROVE  LET g == SendControlPacket(f, s, flags)
         IN  /\ Good(g)
             /\ g.pcb = f.pcb
             /\ g.life = f.life /\ g.pcb.rcv_nxt = f.pcb.rcv_nxt
             /\ Safe(f, st, peer_st, r)
                /\ (flags \in {"SYN", "SYNACK"} => s = 0)
                => Safe(g, st, peer_st, r)
<1> DEFINE h == [flags |-> flags, seqno |-> s, ackno |-> f.pcb.rcv_nxt,
                 sack |-> HdrBitmap(f.pcb), count |-> f.pcb.sack_bitmap_count]
<1>1. f.pcb \in PcbType
  BY SMTT(20) DEF Good, FlowFieldsOK
<1>2. h \in HdrType
  BY <1>1, HdrBitmapType, Zenon DEF HdrType, PcbType
<1>3. (flags \in {"SYN", "SYNACK"} => s = 0) => HdrOK(h, st, f.pcb.rcv_nxt)
  BY <1>1, HalfModulus DEF HdrOK, PcbType
<1>4. SendControlPacket(f, s, flags) = Emitted(f, h)
  BY Zenon DEF SendControlPacket, Emitted
<1> HIDE DEF h
<1> QED
  BY <1>2, <1>3, <1>4, Emit, Zenon

\* A flow that dies changes nothing else.
LEMMA Fault ==
  ASSUME NEW f, Good(f),
         NEW x \in {"none", "no_unacked", "off_chain", "over_ack", "ring_full"},
         NEW st, NEW peer_st, NEW r
  PROVE  LET g == SetFault(f, x)
         IN  /\ Good(g) /\ g.pcb = f.pcb /\ g.life = f.life
             /\ Safe(f, st, peer_st, r) => Safe(g, st, peer_st, r)
<1> DEFINE g == SetFault(f, x)
<1>1. Fields(g, f.state, f.pcb, f.tx, f.rx, f.life, f.callback, x, f.out)
  BY WithFault, Zenon DEF Good, SetFault
<1> HIDE DEF g
<1>2. Good(g)
  BY <1>1, Zenon DEF Good, FlowShape, Fields, FlowFieldsOK, TimerOK
<1>3. ASSUME Safe(f, st, peer_st, r)
      PROVE  Safe(g, st, peer_st, r)
  BY <1>1, <1>3, ZenonT(30) DEF Fields, Safe, EndOK, OutOK, SndOK, RcvOK, AckedOK,
                    Opening, Open
<1> QED
  BY <1>1, <1>2, <1>3, Zenon DEF g, Fields

\* Buffer i of the chain goes out with its own number.
LEMMA SendDataOK ==
  ASSUME NEW f, Good(f), NEW i \in Nat \ {0}, NEW s \in 0..(Modulus - 1),
         NEW st, NEW peer_st, NEW r, Context(st, peer_st, r)
  PROVE  LET g == SendData(f, i, s)
         IN  /\ Good(g) /\ g.pcb = f.pcb /\ g.life = f.life
             /\ Safe(f, st, peer_st, r) /\ s = Wrap(f.pcb.snd_una + i - 1)
                => Safe(g, st, peer_st, r)
<1>1. CASE i > Len(f.tx.chain)
  <2>1. ~(i <= Len(f.tx.chain))
    BY <1>1 DEF Good, FlowFieldsOK, TxType
  <2>2. PICK x \in {"no_unacked", "off_chain"} :
          SendData(f, i, s) = SetFault(f, x)
    BY <1>1, <2>1, Zenon DEF SendData, SetFault
  <2> QED
    BY <2>2, Fault
<1>2. CASE i <= Len(f.tx.chain)
  <2> DEFINE h == [flags |-> "DATA", seqno |-> s, buf |-> f.tx.chain[i]]
  <2>0. f.tx.chain \in Seq(BufType) /\ f.pcb \in PcbType
    BY Zenon DEF Good, FlowFieldsOK, TxType
  <2>1. ~(i > Len(f.tx.chain))
    BY <1>2, <2>0
  <2>2. SendData(f, i, s) = Emitted(f, h)
    BY <1>2, <2>1, Zenon DEF SendData, Emitted
  <2>3. h \in HdrType
    BY <1>2, <2>0 DEF HdrType
  <2>4. ASSUME Safe(f, st, peer_st, r), s = Wrap(f.pcb.snd_una + i - 1)
        PROVE  HdrOK(h, st, f.pcb.rcv_nxt)
    <3>1. IsRest(f.tx.chain, st) /\ (Opening(f, st) \/ Open(f, st))
      BY <2>4, Zenon DEF Safe, EndOK, SndOK
    <3>2. Open(f, st)
      BY <1>2, <2>0, <3>1 DEF Opening, IsRest
    <3> DEFINE L == Len(st)
               C == Len(f.tx.chain)
               una == f.pcb.snd_una
    <3>3. L \in Nat /\ C \in Nat /\ C <= L /\ L + 1 < Modulus \div 2
      BY <2>0, <3>1 DEF Context, IsRest
    <3>4. una = L - C + 1
      BY <3>2, Zenon DEF Open
    <3> HIDE DEF L, C, una
    <3>5. una + i - 1 = L - C + i /\ L - C + i \in 1..L
      BY <1>2, <3>3, <3>4, SMTT(60) DEF C
    <3>6. s = L - C + i
      BY <2>4, <3>3, <3>5, WrapSmall, HalfModulus DEF una
    <3>7. i \in 1..C
      BY <1>2, <3>3 DEF C
    <3>8. f.tx.chain[i] = st[s]
      BY <3>1, <3>6, <3>7, Zenon DEF IsRest, L, C
    <3> QED
      BY <3>5, <3>6, <3>8, Zenon DEF HdrOK, L
  <2> HIDE DEF h
  <2> QED
    BY <2>2, <2>3, <2>4, Emit, Zenon
<1> QED
  BY <1>1, <1>2 DEF Good, FlowFieldsOK, TxType

\* FastRetransmit resends the head of the chain under its own number.
LEMMA FastRetransmitOK ==
  ASSUME NEW f, Good(f), NEW st, NEW peer_st, NEW r, Context(st, peer_st, r)
  PROVE  LET g == FastRetransmit(f)
         IN  /\ Good(g)
             /\ g.life = f.life /\ g.pcb.rcv_nxt = f.pcb.rcv_nxt
             /\ Safe(f, st, peer_st, r) /\ f.life # "absent"
                => Safe(g, st, peer_st, r)
<1> DEFINE d == SendData(f, 1, f.pcb.snd_una)
           q == rto_reset(d.pcb)
<1>1. f.pcb \in PcbType /\ f.pcb.snd_una \in 0..(Modulus - 1)
  BY Zenon DEF Good, FlowFieldsOK, PcbType
<1>2. f.pcb.snd_una = Wrap(f.pcb.snd_una + 1 - 1)
  BY <1>1, WrapSmall, HalfModulus
<1>3. /\ Good(d) /\ d.pcb = f.pcb /\ d.life = f.life
      /\ Safe(f, st, peer_st, r) => Safe(d, st, peer_st, r)
  BY <1>1, <1>2, SendDataOK
<1>4. /\ q \in PcbType /\ q.rto_timer < kRtoThresholdInTicks
      /\ SameSeqnos(q, d.pcb)
  BY <1>1, <1>3, TimerOps, SwiftAssumption DEF SwiftAssumption
<1>5. FastRetransmit(f) = SetPcb(d, q)
  BY Zenon DEF FastRetransmit, SetPcb
<1>6. SetPcb(d, q).life = d.life
  BY <1>3, WithPcb, Zenon DEF Good, SetPcb, Fields
<1> HIDE DEF d, q
<1> QED
  BY <1>3, <1>4, <1>5, <1>6, PcbChange, SMTT(20) DEF SameSeqnos

\* What TransmitPackets does, for n = TransmitCount(f).
LEMMA TransmitPacketsOK ==
  ASSUME NEW f, Good(f), NEW ok \in BOOLEAN,
         NEW st, NEW peer_st, NEW r, Context(st, peer_st, r)
  PROVE  LET g == TransmitPackets(f, ok)
         IN  /\ Good(g)
             /\ g.life = f.life /\ g.pcb.rcv_nxt = f.pcb.rcv_nxt
             /\ Safe(f, st, peer_st, r) /\ f.life # "absent"
                => Safe(g, st, peer_st, r)
<1> DEFINE n == TransmitCount(f)
           bufs == UnsentBufs(f.tx, n)
           pkts == [i \in 1..n |-> [flags |-> "DATA", buf |-> bufs[i],
                                    seqno |-> Wrap(f.pcb.snd_nxt + i - 1)]]
           tx == TakeUnsent(f.tx, n)
           a == advance_snd_nxt(f.pcb, n)
           q == IF rto_disabled(a) THEN rto_reset(a) ELSE a
           g == TransmitPackets(f, ok)
<1>1. /\ f.pcb \in PcbType /\ f.out \in Seq(HdrType)
      /\ f.tx \in TxType /\ TxOK(f.tx)
  BY Zenon DEF Good, FlowFieldsOK
<1>2. n \in Nat /\ n <= f.tx.num_unsent
  <2>1. effective_wnd(f.pcb) \in Nat
    BY <1>1, EffectiveWnd, Zenon
  <2> QED
    BY <2>1, <1>1 DEF TransmitCount, TxType
<1>3. CASE n = 0 \/ ~ok
  BY <1>3, Zenon DEF TransmitPackets
<1>4. CASE n # 0 /\ ok
  <2>1. g = [f EXCEPT !.tx = tx, !.out = f.out \o pkts, !.pcb = q]
    BY <1>4, Zenon DEF TransmitPackets
  <2>2. Fields(g, f.state, q, tx, f.rx, f.life, f.callback, f.fault,
               f.out \o pkts)
    <3> HIDE DEF n, pkts, tx, q, g
    <3> QED
      BY <2>1, Zenon DEF Good, FlowShape, Fields
  <2>3. /\ a \in PcbType /\ a.snd_una = f.pcb.snd_una
        /\ a.rcv_nxt = f.pcb.rcv_nxt /\ a.rto_timer = f.pcb.rto_timer
        /\ a.snd_nxt = Wrap(f.pcb.snd_nxt + n)
    <3>1. f.pcb \in PcbType /\ n \in Int
      BY <1>1, <1>2
    <3> HIDE DEF n
    <3> QED
      BY ONLY <3>1, AdvanceOps, Zenon DEF a
  <2>4. /\ q \in PcbType /\ q.snd_una = f.pcb.snd_una
        /\ q.rcv_nxt = f.pcb.rcv_nxt
        /\ q.snd_nxt = Wrap(f.pcb.snd_nxt + n)
        /\ q.rto_timer = f.pcb.rto_timer \/ q.rto_timer = 0
    <3> HIDE DEF a
    <3> QED
      BY <2>3, TimerOps, Zenon DEF SameSeqnos
  <2>5. /\ tx \in TxType /\ tx.chain = f.tx.chain
        /\ tx.num_unsent = f.tx.num_unsent - n /\ TxOK(tx)
    <3> HIDE DEF n
    <3>1. NumUnsentInChain(f.tx) = f.tx.num_unsent
      BY <1>1 DEF NumUnsentInChain, TxOK, TxType
    <3>2. /\ tx = [f.tx EXCEPT !.oldest_unsent =
                     IF n = f.tx.num_unsent THEN 0 ELSE @ + n,
                   !.num_unsent = @ - n]
      BY <3>1, Zenon DEF TakeUnsent
    <3> HIDE DEF tx
    <3>3. /\ tx.chain = f.tx.chain
          /\ tx.num_unsent = f.tx.num_unsent - n
          /\ tx.num_tracked = f.tx.num_tracked
          /\ tx.oldest_unsent = IF n = f.tx.num_unsent THEN 0
                                ELSE f.tx.oldest_unsent + n
      BY <3>2, <1>1, Zenon DEF TxType
    <3>4. /\ f.tx.num_unsent - n \in Nat /\ f.tx.oldest_unsent + n \in Nat
          /\ f.tx.chain \in Seq(BufType) /\ f.tx.num_tracked \in Nat
      BY <1>1, <1>2, SMTT(60) DEF TxType
    <3>5. tx \in TxType
      BY <3>2, <3>4, <1>1, Zenon DEF TxType
    <3>6. TxOK(tx)
      <4>1. Len(f.tx.chain) \in Nat /\ f.tx.num_unsent \in Nat
        BY <1>1 DEF TxType
      <4>2. /\ f.tx.num_unsent # 0 /\ n \in Nat /\ n <= f.tx.num_unsent
            /\ f.tx.oldest_unsent = Len(f.tx.chain) - f.tx.num_unsent + 1
            /\ f.tx.num_tracked = Len(f.tx.chain)
            /\ f.tx.num_unsent <= Len(f.tx.chain)
        BY <4>1, <1>1, <1>2, <1>4 DEF TxOK
      <4>3. tx.num_unsent <= Len(tx.chain) /\ tx.num_tracked = Len(tx.chain)
        BY <3>3, <4>1, <4>2
      <4>4. tx.oldest_unsent = IF tx.num_unsent = 0 THEN 0
                               ELSE Len(tx.chain) - tx.num_unsent + 1
        BY <3>3, <4>1, <4>2
      <4> QED
        BY <4>3, <4>4, Zenon DEF TxOK
    <3> QED
      BY <3>3, <3>5, <3>6, Zenon
  <2>6. /\ bufs \in Seq(BufType) /\ Len(bufs) = n
        /\ \A i \in 1..n :
             bufs[i] = f.tx.chain[Len(f.tx.chain) - f.tx.num_unsent + i]
    <3> HIDE DEF n
    <3>1. /\ f.tx.oldest_unsent = Len(f.tx.chain) - f.tx.num_unsent + 1
          /\ Len(f.tx.chain) \in Nat /\ f.tx.num_unsent \in Nat
          /\ f.tx.num_unsent <= Len(f.tx.chain)
          /\ f.tx.chain \in Seq(BufType)
      BY <1>1, <1>2, <1>4 DEF TxOK, TxType
    <3> DEFINE o == f.tx.oldest_unsent
    <3>2. bufs = SubSeq(f.tx.chain, o, o + n - 1)
      BY Zenon DEF UnsentBufs
    <3>3. o \in 1..(Len(f.tx.chain) + 1) /\ o + n - 1 \in 0..Len(f.tx.chain)
      BY <3>1, <1>2, <1>4, SMTT(60)
    <3> HIDE DEF bufs, o
    <3>4. bufs \in Seq(BufType) /\ Len(bufs) = n
          /\ \A i \in 1..n : bufs[i] = f.tx.chain[o + i - 1]
      BY <3>1, <3>2, <3>3, <1>2, SMTT(60)
    <3> QED
      BY <3>1, <3>4, <1>2, SMTT(60) DEF o
  <2>7. pkts \in Seq(HdrType) /\ Len(pkts) = n
    <3> HIDE DEF n, bufs
    <3>1. \A i \in 1..n : Wrap(f.pcb.snd_nxt + i - 1) \in 0..(Modulus - 1)
      <4> TAKE i \in 1..n
      <4>1. f.pcb.snd_nxt + i - 1 \in Int
        BY <1>1, <1>2, HalfModulus, SMTT(60) DEF PcbType
      <4> QED
        BY <4>1, WrapRange, Zenon
    <3>2. \A i \in 1..n : bufs[i] \in BufType
      BY <2>6
    <3>3. \A i \in 1..n : pkts[i] \in HdrType
      BY <3>1, <3>2, Zenon DEF HdrType
    <3> QED
      BY <3>3, <1>2
  <2>8. Good(g)
    <3> HIDE DEF n, pkts, tx, q, g
    <3>1. f.out \o pkts \in Seq(HdrType)
      BY <2>7, <1>1
    <3>2. FlowShape(g)
      BY <2>2, Zenon DEF Good, FlowShape, Fields
    <3>3. FlowFieldsOK(g)
      BY <2>2, <2>4, <2>5, <3>1, Zenon DEF Good, Fields, FlowFieldsOK
    <3>4. TimerOK(g)
      BY <2>2, <2>4, SwiftAssumption DEF SwiftAssumption, Good, Fields, TimerOK
    <3> QED
      BY <2>2, <2>5, <3>2, <3>3, <3>4, Zenon DEF Good, Fields
  <2>9. ASSUME Safe(f, st, peer_st, r), f.life # "absent"
        PROVE  Safe(g, st, peer_st, r)
    <3> DEFINE L == Len(st)
               C == Len(f.tx.chain)
               u == f.tx.num_unsent
               nxt == f.pcb.snd_nxt
    <3>1. IsRest(f.tx.chain, st) /\ (Opening(f, st) \/ Open(f, st))
      BY <2>9, Zenon DEF Safe, EndOK, SndOK
    <3>2. L \in Nat /\ C \in Nat /\ C <= L /\ L + 1 < Modulus \div 2
          /\ u \in Nat /\ u <= C
      BY <1>1, <3>1 DEF Context, IsRest, TxOK, TxType
    <3>3. Open(f, st)
      BY <1>2, <1>4, <3>1, <3>2 DEF Opening
    <3>4. nxt = L - u + 1
      BY <3>3, Zenon DEF Open
    <3> HIDE DEF n, pkts, tx, q, g, bufs, L, C, u, nxt
    <3>5. n <= u /\ n > 0
      BY <1>2, <1>4 DEF u
    <3>6. q.snd_nxt = nxt + n
      BY <2>4, <1>2, <3>2, <3>4, <3>5, WrapSmall, HalfModulus DEF nxt
    <3>7. Open(g, st)
      BY <2>2, <2>4, <2>5, <3>3, <3>4, <3>6, <1>2, <3>2, SMTT(20)
      DEF Open, Fields, L, nxt, u
    <3>8. SndOK(g, st) /\ RcvOK(g.rx, peer_st) /\ AckedOK(g, st, r)
      BY <3>1, <3>7, <2>9, <2>2, <2>4, <2>5, Zenon
      DEF Fields, Safe, EndOK, SndOK, RcvOK, AckedOK
    <3>9. \A i \in 1..n : HdrOK(pkts[i], st, q.rcv_nxt)
      <4> TAKE i \in 1..n
      <4>1. Wrap(nxt + i - 1) = L - u + i
        BY <1>2, <3>2, <3>4, <3>5, WrapSmall, HalfModulus
      <4>2. bufs[i] = f.tx.chain[C - u + i]
        BY <2>6, Zenon DEF C, u
      <4>3. C - u + i \in 1..C /\ L - C + (C - u + i) = L - u + i
        BY <1>2, <3>2, <3>5
      <4>4. f.tx.chain[C - u + i] = st[L - u + i]
        BY <4>3, <3>1, Zenon DEF IsRest, C, L
      <4>5. pkts[i] = [flags |-> "DATA", buf |-> st[L - u + i], seqno |-> L - u + i]
        BY <4>1, <4>2, <4>4, Zenon DEF pkts, nxt
      <4>6. L - u + i \in 1..L
        BY <3>2, <3>5, <1>2
      <4> QED
        BY <4>5, <4>6 DEF HdrOK, L
    <3>10. OutOK(g, st)
      BY <3>9, <2>7, <1>1, <1>2, <2>2, <2>4, <2>9 DEF OutOK, Fields, Safe
    <3> QED
      BY <3>8, <3>10, Zenon DEF Safe, EndOK
  <2> HIDE DEF g, q
  <2> QED
    BY <2>2, <2>4, <2>8, <2>9, Zenon DEF g, Fields
<1> QED
  BY <1>3, <1>4, Zenon
-----------------------------------------------------------------------------
(* Receiving an acknowledgement.                                            *)

\* So does the walk over the SACK bitmap for the hole it finds.
LEMMA FastRecoveryOK ==
  ASSUME NEW f, Good(f), NEW h, h.count \in 0..255, NEW ok \in BOOLEAN,
         f.pcb.duplicate_acks > kRexmitThreshold,
         NEW st, NEW peer_st, NEW r, Context(st, peer_st, r)
  PROVE  LET g == FastRecovery(f, h, ok)
         IN  /\ Good(g)
             /\ g.life = f.life /\ g.pcb.rcv_nxt = f.pcb.rcv_nxt
             /\ Safe(f, st, peer_st, r) /\ f.life # "absent"
                => Safe(g, st, peer_st, r)
<1> DEFINE holes == Holes(h, f.pcb.duplicate_acks - kRexmitThreshold)
           hole == CHOOSE i \in holes : TRUE
           d == SendData(f, hole + 1, Wrap(f.pcb.snd_una + hole))
           q == rto_reset(d.pcb)
           ends == WalkEnds(h)
           last == CHOOSE i \in ends : \A j \in ends : i <= j
<1>1. f.pcb \in PcbType /\ f.pcb.snd_una \in Nat
  BY DEF Good, FlowFieldsOK, PcbType
<1>2. CASE holes # {}
  <2>1. hole \in Nat
    <3>1. holes \subseteq Nat
      BY SwiftAssumption DEF SwiftAssumption, Holes, HdrBits
    <3> HIDE DEF holes
    <3> QED
      BY <1>2, <3>1, Zenon
  <2> HIDE DEF hole
  <2>2. /\ hole + 1 \in Nat \ {0}
        /\ f.pcb.snd_una + hole \in Int
        /\ f.pcb.snd_una + (hole + 1) - 1 = f.pcb.snd_una + hole
    BY <1>1, <2>1
  <2>3. Wrap(f.pcb.snd_una + hole) \in 0..(Modulus - 1)
    BY <2>2, WrapRange, Zenon
  <2>4. /\ Good(d) /\ d.pcb = f.pcb /\ d.life = f.life
        /\ Safe(f, st, peer_st, r) => Safe(d, st, peer_st, r)
    BY <2>2, <2>3, SendDataOK, Zenon
  <2>5. /\ q \in PcbType /\ q.rto_timer < kRtoThresholdInTicks
        /\ SameSeqnos(q, d.pcb)
    <3> HIDE DEF d
    <3> QED
      BY <1>1, <2>4, TimerOps, SwiftAssumption DEF SwiftAssumption
  <2>6. FastRecovery(f, h, ok) = SetPcb(d, q)
    BY <1>2, Zenon DEF FastRecovery, SetPcb, hole
  <2>7. SetPcb(d, q).life = d.life
    <3> HIDE DEF d, q
    <3> QED
      BY <2>4, WithPcb, Zenon DEF Good, SetPcb, Fields
  <2> HIDE DEF d, q
  <2> QED
    BY <2>4, <2>5, <2>6, <2>7, PcbChange DEF SameSeqnos
<1>3. CASE holes = {} /\ (ends = {} \/ last > Len(f.tx.chain))
  <2>1. FastRecovery(f, h, ok) = SetFault(f, "off_chain")
    BY <1>3, Zenon DEF FastRecovery, SetFault
  <2> QED
    BY <2>1, Fault, Zenon
<1>4. CASE holes = {} /\ ~(ends = {} \/ last > Len(f.tx.chain))
  <2>1. FastRecovery(f, h, ok) = TransmitPackets(f, ok)
    BY <1>4, Zenon DEF FastRecovery
  <2> QED
    BY <2>1, TransmitPacketsOK, Zenon
<1> QED
  BY <1>2, <1>3, <1>4, SMTT(20)

\* A duplicate ACK keeps the flow consistent, whatever its SACK bitmap says.
LEMMA DuplicateAckOK ==
  ASSUME NEW f, Good(f), NEW h, h.count \in 0..255, NEW ok \in BOOLEAN,
         NEW st, NEW peer_st, NEW r, Context(st, peer_st, r)
  PROVE  LET g == DuplicateAck(f, h, ok)
         IN  /\ Good(g)
             /\ g.life = f.life /\ g.pcb.rcv_nxt = f.pcb.rcv_nxt
             /\ Safe(f, st, peer_st, r) /\ f.life # "absent"
                => Safe(g, st, peer_st, r)
<1> DEFINE q == [f.pcb EXCEPT !.duplicate_acks = @ + 1,
                              !.snd_ooo_acks = h.count]
           g == SetPcb(f, q)
           d == f.pcb.duplicate_acks + 1
<1>1. f.pcb \in PcbType /\ d \in Nat
  BY SMTT(60) DEF Good, FlowFieldsOK, PcbType
<1>2. /\ q \in PcbType /\ SameSeqnos(q, f.pcb)
      /\ q.rto_timer = f.pcb.rto_timer /\ q.duplicate_acks = d
  <2>1. q \in PcbType
    BY ONLY <1>1, h.count \in 0..255, ZenonT(60) DEF PcbType
  <2>2. /\ SameSeqnos(q, f.pcb)
        /\ q.rto_timer = f.pcb.rto_timer /\ q.duplicate_acks = d
    BY <1>1, Zenon DEF PcbType, SameSeqnos
  <2> QED
    BY <2>1, <2>2, Zenon
<1> HIDE DEF q
<1>3. f.life # "removed" => q.rto_timer < kRtoThresholdInTicks
  BY <1>2, Zenon DEF Good, TimerOK
<1>4. /\ Good(g) /\ g.life = f.life /\ g.pcb = q
      /\ Safe(f, st, peer_st, r) /\ f.life # "absent"
         => Safe(g, st, peer_st, r)
  BY <1>2, <1>3, PcbChange, Zenon
<1>5. [f EXCEPT !.pcb.duplicate_acks = @ + 1, !.pcb.snd_ooo_acks = h.count] = g
  BY <1>1, Zenon DEF Good, FlowShape, Fields, SetPcb, PcbType, q
<1> HIDE DEF g
<1>6. DuplicateAck(f, h, ok) =
        CASE d < kRexmitThreshold -> TransmitPackets(g, ok)
          [] d = kRexmitThreshold -> TransmitPackets(FastRetransmit(g), ok)
          [] d > kRexmitThreshold -> FastRecovery(g, h, ok)
  BY <1>2, <1>4, <1>5, Zenon DEF DuplicateAck
<1>7. kRexmitThreshold \in Nat
  BY SwiftAssumption, Zenon DEF SwiftAssumption
<1> HIDE DEF d
<1>8. CASE d < kRexmitThreshold
  <2>1. DuplicateAck(f, h, ok) = TransmitPackets(g, ok)
    BY <1>1, <1>6, <1>7, <1>8
  <2> QED
    BY <2>1, <1>2, <1>4, TransmitPacketsOK, Zenon DEF SameSeqnos
<1>9. CASE d = kRexmitThreshold
  <2>1. DuplicateAck(f, h, ok) = TransmitPackets(FastRetransmit(g), ok)
    BY <1>1, <1>6, <1>7, <1>9
  <2>2. /\ Good(FastRetransmit(g)) /\ FastRetransmit(g).life = f.life
        /\ FastRetransmit(g).pcb.rcv_nxt = f.pcb.rcv_nxt
        /\ Safe(f, st, peer_st, r) /\ f.life # "absent"
           => Safe(FastRetransmit(g), st, peer_st, r)
    BY <1>2, <1>4, FastRetransmitOK, Zenon DEF SameSeqnos
  <2> QED
    BY <2>1, <2>2, TransmitPacketsOK, Zenon
<1>10. CASE d > kRexmitThreshold
  <2>1. DuplicateAck(f, h, ok) = FastRecovery(g, h, ok)
    BY <1>1, <1>6, <1>7, <1>10
  <2> QED
    BY <2>1, <1>2, <1>4, <1>10, FastRecoveryOK DEF SameSeqnos
<1> QED
  BY <1>1, <1>7, <1>8, <1>9, <1>10, SMTT(20)

\* ReceiveAcks releases n buffers from the head of the chain.
LEMMA ReceiveAcksOK ==
  ASSUME NEW t \in TxType, TxOK(t), NEW n \in Nat, CanReceiveAcks(t, n)
  PROVE  LET u == ReceiveAcks(t, n)
         IN  /\ u \in TxType /\ TxOK(u)
             /\ n <= Len(t.chain) - t.num_unsent
             /\ Len(u.chain) = Len(t.chain) - n
             /\ u.num_unsent = t.num_unsent
             /\ \A i \in 1..Len(u.chain) : u.chain[i] = t.chain[n + i]
<1> DEFINE C == Len(t.chain)
           rest == SubSeq(t.chain, n + 1, C)
           o == IF t.oldest_unsent = 0 THEN 0 ELSE t.oldest_unsent - n
           u == ReceiveAcks(t, n)
<1>1. /\ t.chain \in Seq(BufType) /\ C \in Nat /\ t.oldest_unsent \in Nat
      /\ t.num_unsent \in Nat /\ t.num_tracked = C /\ t.num_unsent <= C
      /\ t.oldest_unsent = IF t.num_unsent = 0 THEN 0 ELSE C - t.num_unsent + 1
  BY Zenon DEF TxType, TxOK
<1>2. n <= C /\ (t.num_unsent = 0 \/ n < C - t.num_unsent + 1)
  BY <1>1 DEF CanReceiveAcks
<1> HIDE DEF C
<1>3. /\ rest \in Seq(BufType) /\ Len(rest) = C - n
      /\ \A i \in 1..Len(rest) : rest[i] = t.chain[n + i]
  BY <1>1, <1>2 DEF C
<1>4. o \in Nat /\ o = IF t.num_unsent = 0 THEN 0 ELSE (C - n) - t.num_unsent + 1
  BY <1>1, <1>2, SMTT(60)
<1>5. u = [t EXCEPT !.chain = rest, !.oldest_unsent = o,
                    !.num_tracked = t.num_tracked - n]
  BY Zenon DEF ReceiveAcks, C
<1> HIDE DEF rest, o, u
<1>6. /\ u.chain = rest /\ u.oldest_unsent = o
      /\ u.num_tracked = t.num_tracked - n /\ u.num_unsent = t.num_unsent
  BY <1>5, Zenon DEF TxType
<1>7. t.num_tracked - n \in Nat
  BY <1>1, <1>2
<1>8. u \in TxType
  BY <1>3, <1>4, <1>5, <1>7, Zenon DEF TxType
<1>9. TxOK(u)
  BY <1>1, <1>2, <1>3, <1>4, <1>6, SMTT(60) DEF TxOK
<1> QED
  BY <1>1, <1>2, <1>3, <1>6, <1>8, <1>9, SMTT(60) DEF u, C

\* A flow object with a new state, control block and chain.
LEMMA WithStateTxPcb ==
  ASSUME NEW f, FlowShape(f), NEW x, NEW y, NEW z
  PROVE  Fields([f EXCEPT !.state = x, !.tx = y, !.pcb = z], x, z, y, f.rx,
                f.life, f.callback, f.fault, f.out)
  BY Zenon DEF FlowShape, Fields

\* The control block after a new ACK.
LEMMA AckedPcb ==
  ASSUME NEW p \in PcbType, NEW a \in 0..(Modulus - 1)
  PROVE  LET q == [p EXCEPT !.snd_una = a, !.duplicate_acks = 0,
                            !.snd_ooo_acks = 0, !.rto_rexmits = 0]
         IN  /\ q \in PcbType /\ q.snd_una = a /\ q.snd_nxt = p.snd_nxt
             /\ q.rcv_nxt = p.rcv_nxt
<1>1. 0 \in 0..kRexmitThreshold
  BY SwiftAssumption DEF SwiftAssumption
<1>2. [p EXCEPT !.snd_una = a, !.duplicate_acks = 0] \in PcbType
  <2>1. [p EXCEPT !.snd_una = a] \in PcbType
    BY DEF PcbType
  <2>2. \A x \in PcbType : [x EXCEPT !.duplicate_acks = 0] \in PcbType
    BY DEF PcbType
  <2>3. [p EXCEPT !.snd_una = a, !.duplicate_acks = 0]
        = [[p EXCEPT !.snd_una = a] EXCEPT !.duplicate_acks = 0]
    BY Zenon DEF PcbType
  <2> QED
    BY <2>1, <2>2, <2>3, Zenon
<1>3. \A x \in PcbType :
        [x EXCEPT !.snd_ooo_acks = 0, !.rto_rexmits = 0] \in PcbType
  <2>1. \A x \in PcbType : [x EXCEPT !.snd_ooo_acks = 0] \in PcbType
    BY DEF PcbType
  <2>2. \A x \in PcbType : [x EXCEPT !.rto_rexmits = 0] \in PcbType
    BY <1>1 DEF PcbType
  <2>3. \A x \in PcbType :
          [x EXCEPT !.snd_ooo_acks = 0, !.rto_rexmits = 0]
          = [[x EXCEPT !.snd_ooo_acks = 0] EXCEPT !.rto_rexmits = 0]
    BY Zenon DEF PcbType
  <2> QED
    BY <2>1, <2>2, <2>3, Zenon
<1>4. [p EXCEPT !.snd_una = a, !.duplicate_acks = 0,
                !.snd_ooo_acks = 0, !.rto_rexmits = 0]
      = [[p EXCEPT !.snd_una = a, !.duplicate_acks = 0]
           EXCEPT !.snd_ooo_acks = 0, !.rto_rexmits = 0]
  BY Zenon DEF PcbType
<1>5. [p EXCEPT !.snd_una = a, !.duplicate_acks = 0,
                !.snd_ooo_acks = 0, !.rto_rexmits = 0] \in PcbType
  BY <1>2, <1>3, <1>4, Zenon
<1> QED
  BY <1>5, Zenon DEF PcbType

\* A new ACK releases what it acknowledges and nothing else.
LEMMA NewAckOK ==
  ASSUME NEW f, Good(f), NEW h, h.ackno \in 0..(Modulus - 1),
         NEW ok \in BOOLEAN, seqno_gt(h.ackno, f.pcb.snd_una),
         NEW st, NEW peer_st, NEW r, Context(st, peer_st, r)
  PROVE  LET g == NewAck(f, h, ok)
         IN  /\ Good(g)
             /\ g.life = f.life /\ g.pcb.rcv_nxt = f.pcb.rcv_nxt
             /\ Safe(f, st, peer_st, r) /\ f.life # "absent" /\ h.ackno <= r
                /\ ~seqno_gt(h.ackno, f.pcb.snd_nxt)
                => Safe(g, st, peer_st, r)
<1> DEFINE syn == IF f.state = "SynReceived" THEN 1 ELSE 0
           n == Wrap(h.ackno - f.pcb.snd_una) - syn
           p == [f.pcb EXCEPT !.snd_una = h.ackno, !.duplicate_acks = 0,
                              !.snd_ooo_acks = 0, !.rto_rexmits = 0]
           q == rto_maybe_reset(p)
           tx == ReceiveAcks(f.tx, n)
           state == IF syn = 1 THEN "Established" ELSE f.state
           g == [f EXCEPT !.state = state, !.tx = tx, !.pcb = q]
<1>1. /\ f.pcb \in PcbType /\ f.tx \in TxType /\ TxOK(f.tx)
      /\ f.pcb.snd_una \in 0..(Modulus - 1)
      /\ f.pcb.snd_nxt \in 0..(Modulus - 1)
      /\ h.ackno - f.pcb.snd_una \in Int
  <2>1. f.pcb \in PcbType /\ f.tx \in TxType /\ TxOK(f.tx)
    BY Zenon DEF Good, FlowFieldsOK
  <2>2. f.pcb.snd_una \in 0..(Modulus - 1) /\ f.pcb.snd_nxt \in 0..(Modulus - 1)
    BY <2>1, Zenon DEF PcbType
  <2> QED
    BY <2>1, <2>2, HalfModulus
<1>2. n \in Nat
  <2>1. Wrap(h.ackno - f.pcb.snd_una) # 0
    BY Zenon DEF seqno_gt, seqno_eq
  <2>2. Wrap(h.ackno - f.pcb.snd_una) \in Nat
    BY <1>1, WrapRange, HalfModulus
  <2> QED
    BY <2>1, <2>2
<1>3. /\ p \in PcbType /\ p.snd_una = h.ackno /\ p.snd_nxt = f.pcb.snd_nxt
      /\ p.rcv_nxt = f.pcb.rcv_nxt
  BY <1>1, AckedPcb, Zenon
<1>4. /\ q \in PcbType /\ q.snd_una = h.ackno /\ q.snd_nxt = f.pcb.snd_nxt
      /\ q.rcv_nxt = f.pcb.rcv_nxt /\ q.rto_timer < kRtoThresholdInTicks
  <2>1. q.rto_timer \in Int
    <3> HIDE DEF p
    <3> QED
      BY <1>3, TimerOps DEF PcbType, kRtoDisabled
  <2> HIDE DEF p
  <2> QED
    BY <1>3, <2>1, TimerOps, SwiftAssumption, SMTT(20) DEF SwiftAssumption, SameSeqnos
<1>5. CASE ~CanReceiveAcks(f.tx, n)
  <2>1. NewAck(f, h, ok) = SetFault(f, "over_ack")
    BY <1>5, Zenon DEF NewAck, SetFault
  <2> QED
    BY <2>1, Fault, Zenon
<1>6. CASE CanReceiveAcks(f.tx, n)
  <2>1. NewAck(f, h, ok) = TransmitPackets(g, ok)
    BY <1>6, Zenon DEF NewAck
  <2>2. Fields(g, state, q, tx, f.rx, f.life, f.callback, f.fault, f.out)
    <3> HIDE DEF state, q, tx
    <3> QED
      BY WithStateTxPcb, Zenon DEF Good
  <2>3. /\ tx \in TxType /\ TxOK(tx)
        /\ n <= Len(f.tx.chain) - f.tx.num_unsent
        /\ Len(tx.chain) = Len(f.tx.chain) - n
        /\ tx.num_unsent = f.tx.num_unsent
        /\ \A i \in 1..Len(tx.chain) : tx.chain[i] = f.tx.chain[n + i]
    <3> HIDE DEF n
    <3> QED
      BY <1>1, <1>2, <1>6, ReceiveAcksOK, Zenon
  <2>4. state \in {"Closed", "SynSent", "SynReceived", "Established"}
    BY Zenon DEF Good, FlowFieldsOK
  <2> HIDE DEF g, q, tx, n, p
  <2>5. Good(g)
    <3>1. FlowShape(g)
      BY <2>2, Zenon DEF Good, FlowShape, Fields
    <3>2. FlowFieldsOK(g)
      BY <1>4, <2>2, <2>3, <2>4, Zenon DEF Good, Fields, FlowFieldsOK
    <3>3. TimerOK(g)
      BY <1>4, <2>2, Zenon DEF Fields, TimerOK
    <3> QED
      BY <2>2, <2>3, <3>1, <3>2, <3>3, Zenon DEF Good, Fields
  <2>6. ASSUME Safe(f, st, peer_st, r), f.life # "absent", h.ackno <= r,
               ~seqno_gt(h.ackno, f.pcb.snd_nxt)
        PROVE  Safe(g, st, peer_st, r)
    <3> DEFINE L == Len(st)
               C == Len(f.tx.chain)
               u == f.tx.num_unsent
               una == f.pcb.snd_una
               nxt == f.pcb.snd_nxt
    <3>1. IsRest(f.tx.chain, st) /\ (Opening(f, st) \/ Open(f, st))
      BY <2>6, Zenon DEF Safe, EndOK, SndOK
    <3>2. /\ L \in Nat /\ C \in Nat /\ C <= L /\ L + 1 < Modulus \div 2
          /\ u \in Nat /\ u <= C /\ f.tx.chain \in Seq(BufType)
      BY <1>1, <3>1 DEF Context, IsRest, TxOK, TxType
    <3>3. /\ una \in Nat /\ nxt \in Nat /\ una < Modulus \div 2
          /\ nxt < Modulus \div 2
      <4>1. CASE Opening(f, st)
        BY <4>1, HalfModulus DEF Opening
      <4>2. CASE Open(f, st)
        <5>1. una = L - C + 1 /\ nxt = L - u + 1
          BY <4>2, Zenon DEF Open
        <5> HIDE DEF L, C, u, una, nxt
        <5> QED
          BY <5>1, <3>2, HalfModulus
      <4> QED
        BY <3>1, <4>1, <4>2, Zenon
    <3>4. h.ackno \in Nat /\ h.ackno < Modulus \div 2
      BY <2>6, <3>2, HalfModulus DEF Context
    <3>5. una < h.ackno /\ h.ackno <= nxt
      BY <2>6, <3>3, <3>4, SeqnoOrder DEF una, nxt
    <3>6. n = h.ackno - una - syn
      BY <1>1, <3>3, <3>4, <3>5, WrapSmall, HalfModulus, SMTT(20) DEF n
    <3>7. CASE Opening(f, st)
      <4>1. una = 0 /\ L = 0 /\ C = 0 /\ u = 0 /\ h.ackno = 1 /\ nxt = 1
        BY <3>7, <3>2, <3>3, <3>4, <3>5 DEF Opening
      <4>2. n = 0 /\ f.state = "SynReceived"
        BY <1>2, <2>3, <3>6, <4>1
      <4>3. /\ state = "Established" /\ q.snd_una = 1 /\ q.snd_nxt = 1
            /\ q.rcv_nxt = 1 /\ Len(tx.chain) = 0 /\ tx.num_unsent = 0
            /\ Len(f.rx.accepted) = 0
        BY <1>4, <2>3, <3>7, <4>1, <4>2 DEF Opening
      <4>4. Open(g, st)
        BY <2>2, <2>6, <4>1, <4>3 DEF Open, Fields
      <4>5. IsRest(tx.chain, st)
        BY <4>1, <4>3 DEF IsRest
      <4>6. AckedOK(g, st, r)
        BY <2>2, <4>1, <4>3 DEF AckedOK, Fields
      <4> QED
        BY <2>2, <1>4, <2>6, <4>4, <4>5, <4>6, Zenon
        DEF Safe, EndOK, SndOK, RcvOK, OutOK, Fields
    <3>8. CASE Open(f, st)
      <4>1. syn = 0 /\ state = f.state /\ una = L - C + 1 /\ nxt = L - u + 1
        BY <3>8 DEF Open
      <4> HIDE DEF L, C, u, una, nxt, syn, state
      <4>2. /\ q.snd_una = L - Len(tx.chain) + 1
            /\ q.snd_nxt = L - tx.num_unsent + 1
        <5>1. Len(tx.chain) = C - n /\ tx.num_unsent = u
          BY <2>3, Zenon DEF C, u
        <5>2. q.snd_una = h.ackno /\ q.snd_nxt = nxt
          BY <1>4, Zenon DEF nxt
        <5>3. L \in Nat /\ C \in Nat /\ u \in Nat
          BY <3>2, Zenon
        <5>4. h.ackno = una + n
          BY <1>2, <3>3, <3>4, <3>6, <4>1
        <5> QED
          BY <1>2, <5>1, <5>2, <5>3, <5>4, <4>1
      <4>3. Open(g, st)
        BY <1>4, <2>2, <3>8, <4>1, <4>2, Zenon DEF Open, Fields, L
      <4>4. IsRest(tx.chain, st)
        <5>1. Len(tx.chain) = C - n /\ Len(tx.chain) \in Nat
          BY <2>3 DEF C, TxType
        <5>2. ASSUME NEW i \in 1..Len(tx.chain)
              PROVE  tx.chain[i] = st[L - Len(tx.chain) + i]
          <6>1. n + i \in 1..C /\ L - C + (n + i) = L - Len(tx.chain) + i
            BY <1>2, <3>2, <5>1
          <6>2. tx.chain[i] = f.tx.chain[n + i]
            BY <2>3, Zenon
          <6>3. f.tx.chain[n + i] = st[L - C + (n + i)]
            BY <3>1, <6>1, Zenon DEF IsRest, L, C
          <6> QED
            BY <6>1, <6>2, <6>3, Zenon
        <5>3. Len(tx.chain) <= L
          BY <1>2, <3>2, <5>1
        <5> QED
          BY <5>2, <5>3, Zenon DEF IsRest, L
      <4>5. AckedOK(g, st, r)
        BY <1>4, <2>2, <2>6, Zenon DEF AckedOK, Fields
      <4> QED
        BY <2>2, <1>4, <2>6, <4>3, <4>4, <4>5, Zenon
        DEF Safe, EndOK, SndOK, RcvOK, OutOK, Fields
    <3> QED
      BY <3>1, <3>7, <3>8, Zenon
  <2> QED
    BY <1>4, <2>1, <2>2, <2>5, <2>6, TransmitPacketsOK DEF Fields
<1> QED
  BY <1>5, <1>6, Zenon

\* process_ack keeps the flow consistent for every ACK of the peer.
LEMMA ProcessAckOK ==
  ASSUME NEW f, Good(f), NEW h, h.ackno \in 0..(Modulus - 1),
         h.count \in 0..255, NEW ok \in BOOLEAN,
         NEW st, NEW peer_st, NEW r, Context(st, peer_st, r)
  PROVE  LET g == process_ack(f, h, ok)
         IN  /\ Good(g)
             /\ g.life = f.life /\ g.pcb.rcv_nxt = f.pcb.rcv_nxt
             /\ Safe(f, st, peer_st, r) /\ f.life # "absent" /\ h.ackno <= r
                => Safe(g, st, peer_st, r)
<1> DEFINE lt == seqno_lt(h.ackno, f.pcb.snd_una)
           eq == seqno_eq(h.ackno, f.pcb.snd_una)
           gt == seqno_gt(h.ackno, f.pcb.snd_una)
<1>1. (lt /\ ~eq /\ ~gt) \/ (eq /\ ~lt /\ ~gt) \/ (gt /\ ~lt /\ ~eq)
  <2>1. \A w \in Int : ~(w >= Modulus \div 2 /\ w = 0)
    BY ONLY HalfModulus
  <2>2. Wrap(h.ackno - f.pcb.snd_una) = 0 => ~lt
    BY ONLY <2>1 DEF seqno_lt
  <2> QED
    BY ONLY <2>2, Zenon DEF seqno_eq, seqno_gt
<1>2. CASE lt /\ ~eq /\ ~gt
  BY <1>2, Zenon DEF process_ack
<1>3. CASE eq /\ ~lt /\ ~gt
  <2>1. process_ack(f, h, ok) = DuplicateAck(f, h, ok)
    BY <1>3, Zenon DEF process_ack
  <2> QED
    BY <2>1, DuplicateAckOK
<1>4. CASE gt /\ ~lt /\ ~eq /\ seqno_gt(h.ackno, f.pcb.snd_nxt)
  <2>1. process_ack(f, h, ok) = TransmitPackets(f, ok)
    BY <1>4, Zenon DEF process_ack
  <2> QED
    BY <2>1, TransmitPacketsOK, Zenon
<1>5. CASE gt /\ ~lt /\ ~eq /\ ~seqno_gt(h.ackno, f.pcb.snd_nxt)
  <2>1. process_ack(f, h, ok) = NewAck(f, h, ok)
    BY <1>5, Zenon DEF process_ack
  <2> QED
    BY <2>1, <1>5, NewAckOK
<1> QED
  BY <1>1, <1>2, <1>3, <1>4, <1>5, Zenon

-----------------------------------------------------------------------------
(* Retransmission.                                                          *)

\* Sending does not look at the timer.
LEMMA SendAnyTimer ==
  ASSUME NEW f, Good(f), NEW z
  PROVE  LET g == SetPcb(f, rto_advance(f.pcb))
         IN  /\ \A s, flags :
                  /\ SendControlPacket(g, s, flags).pcb = rto_advance(f.pcb)
                  /\ SetPcb(SendControlPacket(g, s, flags), z)
                       = SetPcb(SendControlPacket(f, s, flags), z)
             /\ \A s :
                  /\ SendData(g, 1, s).pcb = rto_advance(f.pcb)
                  /\ SetPcb(SendData(g, 1, s), z) = SetPcb(SendData(f, 1, s), z)
<1> DEFINE q == rto_advance(f.pcb)
           g == SetPcb(f, q)
<1>1. f.pcb \in PcbType /\ FlowShape(f)
  BY Zenon DEF Good, FlowFieldsOK
<1>2. /\ q.rcv_nxt = f.pcb.rcv_nxt
      /\ HdrBitmap(q) = HdrBitmap(f.pcb)
      /\ q.sack_bitmap_count = f.pcb.sack_bitmap_count
  BY <1>1, Zenon DEF rto_advance, PcbType, HdrBitmap
<1> HIDE DEF q
<1>3. Fields(g, f.state, q, f.tx, f.rx, f.life, f.callback, f.fault, f.out)
  BY <1>1, WithPcb, Zenon DEF SetPcb
<1> HIDE DEF g
<1>4. FlowShape(g)
  BY <1>1, <1>3, Zenon DEF FlowShape, Fields
<1>5. ASSUME NEW x
      PROVE  /\ [g EXCEPT !.out = x].pcb = q
             /\ SetPcb([g EXCEPT !.out = x], z) = SetPcb([f EXCEPT !.out = x], z)
             /\ [g EXCEPT !.fault = x].pcb = q
             /\ SetPcb([g EXCEPT !.fault = x], z)
                  = SetPcb([f EXCEPT !.fault = x], z)
  BY <1>1, <1>3, <1>4, Zenon DEF SetPcb, FlowShape, Fields
<1>6. ASSUME NEW s, NEW flags
      PROVE  /\ SendControlPacket(g, s, flags).pcb = q
             /\ SetPcb(SendControlPacket(g, s, flags), z)
                  = SetPcb(SendControlPacket(f, s, flags), z)
  <2>1. PICK x : /\ SendControlPacket(g, s, flags) = [g EXCEPT !.out = x]
                 /\ SendControlPacket(f, s, flags) = [f EXCEPT !.out = x]
    BY <1>2, <1>3, Zenon DEF SendControlPacket, Fields
  <2> QED
    BY <1>5, <2>1, Zenon
<1>7. ASSUME NEW s
      PROVE  /\ SendData(g, 1, s).pcb = q
             /\ SetPcb(SendData(g, 1, s), z) = SetPcb(SendData(f, 1, s), z)
  <2>1. g.tx = f.tx /\ g.out = f.out /\ Len(f.tx.chain) \in Nat
    BY <1>3 DEF Fields, Good, FlowFieldsOK, TxType
  <2>2. CASE 1 <= Len(f.tx.chain)
    <3> DEFINE x == Append(f.out, [flags |-> "DATA", seqno |-> s,
                                   buf |-> f.tx.chain[1]])
    <3>0. ~(1 > Len(f.tx.chain))
      BY <2>1, <2>2
    <3>1. /\ SendData(g, 1, s) = [g EXCEPT !.out = x]
          /\ SendData(f, 1, s) = [f EXCEPT !.out = x]
      BY <2>1, <2>2, <3>0, Zenon DEF SendData
    <3> HIDE DEF x
    <3> QED
      BY <1>5, <3>1, Zenon
  <2>3. CASE 1 > Len(f.tx.chain)
    <3> DEFINE x == IF f.tx.chain = <<>> THEN "no_unacked" ELSE "off_chain"
    <3>0. ~(1 <= Len(f.tx.chain))
      BY <2>1, <2>3
    <3>1. /\ SendData(g, 1, s) = [g EXCEPT !.fault = x]
          /\ SendData(f, 1, s) = [f EXCEPT !.fault = x]
      BY <2>1, <2>3, <3>0, Zenon DEF SendData
    <3> HIDE DEF x
    <3> QED
      BY <1>5, <3>1, Zenon
  <2> QED
    BY <2>1, <2>2, <2>3
<1> QED
  BY <1>6, <1>7, Zenon DEF g, q

Again(p) == [p EXCEPT !.rto_rexmits = p.rto_rexmits + 1]

-----------------------------------------------------------------------------
(* Receiving data.                                                          *)

\* A nonempty set of numbers up to n has a least element.
LEMMA Least ==
  ASSUME NEW T \in SUBSET Nat, T # {}
  PROVE  \E n \in T : \A m \in T : n <= m
<1> DEFINE R == OpToRel(<, Nat)
<1>1. IsWellFoundedOn(R, Nat)
  BY NatLessThanWellFounded, Zenon
<1>2. \A x, y \in Nat : x < y => <<x, y>> \in R
  BY Zenon DEF OpToRel
<1> HIDE DEF R
<1>3. PICK n \in T : \A m \in T : ~(<<m, n>> \in R)
  BY <1>1, WFMin, Zenon
<1>4. ASSUME NEW m \in T
      PROVE  n <= m
  <2>1. m \in Nat /\ n \in Nat
    BY Zenon
  <2>2. ~(m < n)
    BY <1>2, <1>3, <2>1, Zenon
  <2> QED
    BY <2>1, <2>2
<1> QED
  BY <1>4, Zenon

\* Length and elements of a concatenation.
LEMMA ConcatFacts ==
  ASSUME NEW S, NEW a \in Seq(S), NEW b \in Seq(S)
  PROVE  /\ a \o b \in Seq(S) /\ Len(a \o b) = Len(a) + Len(b)
         /\ \A i \in 1..Len(a) : (a \o b)[i] = a[i]
         /\ \A i \in 1..Len(b) : (a \o b)[Len(a) + i] = b[i]
  OBVIOUS

EntryType == [seqno: 0..(Modulus - 1), buf: BufType]

\* The loop of PushInOrderMsgbufsToShmTrain stops at the first gap.
LEMMA InOrderCountOK ==
  ASSUME NEW p \in PcbType, NEW q \in Seq(EntryType)
  PROVE  LET n == InOrderCount(p, q)
         IN  /\ n \in 0..Len(q)
             /\ \A i \in 1..n : q[i].seqno = Wrap(p.rcv_nxt + i - 1)
<1> DEFINE stop(n) == n < Len(q) => q[n + 1].seqno # Wrap(p.rcv_nxt + n)
           good(n) == /\ \A i \in 1..n : q[i].seqno = Wrap(p.rcv_nxt + i - 1)
                      /\ stop(n)
           T == {m \in 0..Len(q) : stop(m)}
<1>1. Len(q) \in Nat /\ p.rcv_nxt \in Nat
  BY DEF PcbType
<1>2. Len(q) \in T /\ T \in SUBSET Nat
  BY <1>1
<1>3. PICK n \in T : \A m \in T : n <= m
  <2> HIDE DEF T
  <2> QED
    BY <1>2, Least, Zenon
<1>4. n \in 0..Len(q) /\ stop(n)
  BY <1>3, Zenon
<1>5. ASSUME NEW i \in 1..n
      PROVE  q[i].seqno = Wrap(p.rcv_nxt + i - 1)
  <2>1. i - 1 \in 0..Len(q) /\ ~(n <= i - 1) /\ i - 1 < Len(q)
    BY <1>1, <1>4
  <2>2. ~stop(i - 1)
    <3>1. i - 1 \notin T
      BY <1>3, <2>1, Zenon
    <3> QED
      BY <2>1, <3>1, Zenon
  <2>3. (i - 1) + 1 = i /\ p.rcv_nxt + (i - 1) = p.rcv_nxt + i - 1
    BY <1>1, <1>4
  <2> QED
    BY <2>1, <2>2, <2>3, Zenon
<1>6. \E m \in 0..Len(q) : good(m)
  BY <1>4, <1>5, Zenon
<1>7. InOrderCount(p, q) = CHOOSE m \in 0..Len(q) : good(m)
  BY Zenon DEF InOrderCount
<1> HIDE DEF good
<1>8. InOrderCount(p, q) \in 0..Len(q) /\ good(InOrderCount(p, q))
  BY <1>6, <1>7, Zenon
<1> QED
  BY <1>8, Zenon DEF good

\* The search for the place in the reassembly queue ends in the queue.
LEMMA FindPosOK ==
  ASSUME NEW q \in Seq(EntryType), NEW s \in 0..(Modulus - 1)
  PROVE  FindPos(q, s) \in 1..(Len(q) + 1)
<1> DEFINE here(i) == i <= Len(q) => q[i].seqno >= s
           good(i) == here(i) /\ \A j \in 1..(i - 1) : q[j].seqno < s
           T == {i \in 1..(Len(q) + 1) : here(i)}
<1>1. Len(q) \in Nat /\ \A i \in 1..Len(q) : q[i].seqno \in Nat
  <2>1. Len(q) \in Nat /\ \A i \in 1..Len(q) : q[i] \in EntryType
    OBVIOUS
  <2> QED
    BY <2>1, HalfModulus DEF EntryType
<1>2. Len(q) + 1 \in T /\ T \in SUBSET Nat
  BY <1>1
<1>3. PICK n \in T : \A m \in T : n <= m
  <2> HIDE DEF T
  <2> QED
    BY <1>2, Least, Zenon
<1>4. n \in 1..(Len(q) + 1) /\ here(n)
  BY <1>3, Zenon
<1>5. ASSUME NEW j \in 1..(n - 1)
      PROVE  q[j].seqno < s
  <2>1. j \in 1..(Len(q) + 1) /\ ~(n <= j) /\ j \in 1..Len(q)
    BY <1>1, <1>4
  <2>2. ~here(j)
    BY <1>3, <2>1, Zenon
  <2> QED
    BY <1>1, <2>1, <2>2, HalfModulus
<1>6. \E m \in 1..(Len(q) + 1) : good(m)
  BY <1>4, <1>5, Zenon
<1>7. FindPos(q, s) = CHOOSE m \in 1..(Len(q) + 1) : good(m)
  BY Zenon DEF FindPos
<1> HIDE DEF good
<1> QED
  BY <1>6, <1>7, Zenon

\* The operations on the SACK bitmap touch the bitmap and its count only.
LEMMA SackOps ==
  ASSUME NEW p \in PcbType, NEW n \in Nat
  PROVE  LET b == sack_bitmap_bit_set(p, n)
             s == sack_bitmap_shift_right(p, n)
         IN  /\ b \in PcbType /\ SameSeqnos(b, p) /\ b.rto_timer = p.rto_timer
             /\ s \in PcbType /\ SameSeqnos(s, p) /\ s.rto_timer = p.rto_timer
<1>1. p.sack_bitmap \in SUBSET (Int \X Int) /\ p.sack_bitmap_count \in 0..255
  BY Zenon DEF PcbType
<1>2. BucketSize \in Nat \ {0} /\ BucketWidth \in Nat \ {0}
  BY SwiftAssumption, Zenon DEF SwiftAssumption
<1>3. ASSUME NEW x \in SUBSET (Int \X Int), NEW c \in 0..255
      PROVE  LET b == [p EXCEPT !.sack_bitmap = x, !.sack_bitmap_count = c]
             IN  b \in PcbType /\ SameSeqnos(b, p) /\ b.rto_timer = p.rto_timer
  <2> DEFINE b1 == [p EXCEPT !.sack_bitmap = x]
             b2 == [b1 EXCEPT !.sack_bitmap_count = c]
  <2>1. [p EXCEPT !.sack_bitmap = x, !.sack_bitmap_count = c] = b2
    BY Zenon
  <2>2. b1 \in PcbType /\ SameSeqnos(b1, p) /\ b1.rto_timer = p.rto_timer
    BY DEF PcbType, SameSeqnos
  <2> HIDE DEF b1
  <2>3. b2 \in PcbType /\ SameSeqnos(b2, b1) /\ b2.rto_timer = b1.rto_timer
    BY <2>2 DEF PcbType, SameSeqnos
  <2> HIDE DEF b2
  <2> QED
    BY <2>1, <2>2, <2>3, Zenon DEF SameSeqnos
<1>4. /\ p.sack_bitmap \cup {<<n \div BucketSize, n % BucketSize>>}
           \in SUBSET (Int \X Int)
      /\ (p.sack_bitmap_count + 1) % 256 \in 0..255
  BY <1>1, <1>2
<1>5. \A b \in Int \X Int : TapeBit(TapePos(b) + n) \in Int \X Int
  BY <1>2, SMTT(20) DEF TapeBit, TapePos
<1>6. /\ {TapeBit(TapePos(b) + n) :
            b \in {x \in p.sack_bitmap : TapePos(x) + n < PcbBuckets * BucketWidth}}
           \in SUBSET (Int \X Int)
      /\ (p.sack_bitmap_count - n) % 256 \in 0..255
  <2>1. (p.sack_bitmap_count - n) % 256 \in 0..255
    <3>1. p.sack_bitmap_count - n \in Int
      BY <1>1
    <3>2. \A x \in Int : x % 256 \in 0..255
      OBVIOUS
    <3> QED
      BY <3>1, <3>2, Zenon
  <2>2. {x \in p.sack_bitmap : TapePos(x) + n < PcbBuckets * BucketWidth}
          \in SUBSET (Int \X Int)
    BY <1>1, Zenon
  <2> QED
    BY <2>1, <2>2, <1>5
<1>7. LET b == sack_bitmap_bit_set(p, n)
      IN  b \in PcbType /\ SameSeqnos(b, p) /\ b.rto_timer = p.rto_timer
  BY <1>3, <1>4, ZenonT(30) DEF sack_bitmap_bit_set
<1>8. LET s == sack_bitmap_shift_right(p, n)
      IN  s \in PcbType /\ SameSeqnos(s, p) /\ s.rto_timer = p.rto_timer
  BY <1>3, <1>6, ZenonT(30) DEF sack_bitmap_shift_right
<1> QED
  BY <1>7, <1>8, Zenon

\* The buffers at the front of the queue continue the accepted stream.
LEMMA PushOK ==
  ASSUME NEW p \in PcbType, NEW rx, rx.reass_q \in Seq(EntryType),
         rx.accepted \in Seq(BufType),
         NEW peer_st \in Seq(BufType), Len(peer_st) + 1 < Modulus \div 2
  PROVE  LET d == PushInOrderMsgbufsToShmTrain(p, rx)
         IN  /\ d.pcb \in PcbType /\ d.pcb.rto_timer = p.rto_timer
             /\ d.pcb.snd_una = p.snd_una /\ d.pcb.snd_nxt = p.snd_nxt
             /\ RxFields(d.rx, d.rx.reass_q, d.rx.train, d.rx.ring, d.rx.fatal,
                         d.rx.accepted)
             /\ d.rx.reass_q \in Seq(EntryType)
             /\ d.rx.accepted \in Seq(BufType)
             /\ RcvOK(rx, peer_st) /\ p.rcv_nxt = Len(rx.accepted) + 1 =>
                  /\ RcvOK(d.rx, peer_st)
                  /\ d.pcb.rcv_nxt = Len(d.rx.accepted) + 1
                  /\ d.pcb.rcv_nxt >= p.rcv_nxt
<1> DEFINE q == rx.reass_q
           acc == rx.accepted
           n == InOrderCount(p, q)
           bufs == [i \in 1..n |-> q[i].buf]
           rest == SubSeq(q, n + 1, Len(q))
           a == advance_rcv_nxt(p, n)
           d == PushInOrderMsgbufsToShmTrain(p, rx)
<1>0. q \in Seq(EntryType) /\ Len(q) \in Nat /\ acc \in Seq(BufType)
      /\ Len(acc) \in Nat
  OBVIOUS
<1> HIDE DEF q, acc
<1>1. /\ n \in 0..Len(q) /\ n \in Nat /\ n <= Len(q)
      /\ \A i \in 1..n : q[i].seqno = Wrap(p.rcv_nxt + i - 1)
  BY <1>0, InOrderCountOK
<1> HIDE DEF n
<1>2. /\ bufs \in Seq(BufType) /\ Len(bufs) = n
      /\ \A i \in 1..n : bufs[i] = q[i].buf
  <2>1. \A i \in 1..n : q[i] \in EntryType
    BY <1>0, <1>1
  <2>2. \A i \in 1..n : q[i].buf \in BufType
    BY <2>1, Zenon DEF EntryType
  <2> QED
    BY <1>1, <2>2
<1>3. /\ rest \in Seq(EntryType)
      /\ \A i \in 1..Len(rest) : n + i \in 1..Len(q) /\ rest[i] = q[n + i]
  <2>1. rest = SubSeq(q, n + 1, Len(q)) /\ n + 1 \in 1..(Len(q) + 1)
    BY <1>0, <1>1
  <2> HIDE DEF rest
  <2>2. rest \in Seq(EntryType) /\ Len(rest) = Len(q) - n
        /\ \A i \in 1..(Len(q) - n) : rest[i] = q[n + i]
    BY <1>0, <1>1, <2>1
  <2>3. \A i \in 1..(Len(q) - n) : n + i \in 1..Len(q)
    BY <1>0, <1>1
  <2> QED
    BY <2>2, <2>3, Zenon
<1>4. /\ d.pcb = sack_bitmap_shift_right(a, n) /\ d.rx.reass_q = rest
      /\ d.rx.accepted = acc \o bufs
      /\ RxFields(d.rx, d.rx.reass_q, d.rx.train, d.rx.ring, d.rx.fatal,
                  d.rx.accepted)
  BY Zenon DEF PushInOrderMsgbufsToShmTrain, RxFields, n, q, acc
<1>5. /\ a \in PcbType /\ a.rto_timer = p.rto_timer /\ a.snd_una = p.snd_una
      /\ a.snd_nxt = p.snd_nxt /\ a.rcv_nxt = Wrap(p.rcv_nxt + n)
  <2>1. n \in Int
    BY <1>1
  <2> QED
    BY <2>1, AdvanceOps, Zenon
<1> HIDE DEF a, bufs, rest, d
<1>6. /\ d.pcb \in PcbType /\ d.pcb.rto_timer = p.rto_timer
      /\ d.pcb.snd_una = p.snd_una /\ d.pcb.snd_nxt = p.snd_nxt
      /\ d.pcb.rcv_nxt = Wrap(p.rcv_nxt + n)
  <2>1. LET s == sack_bitmap_shift_right(a, n)
        IN  s \in PcbType /\ SameSeqnos(s, a) /\ s.rto_timer = a.rto_timer
    BY <1>1, <1>5, SackOps, SMTT(60)
  <2> QED
    BY <1>4, <1>5, <2>1, Zenon DEF SameSeqnos
<1>7. ASSUME RcvOK(rx, peer_st), p.rcv_nxt = Len(acc) + 1
      PROVE  /\ RcvOK(d.rx, peer_st)
             /\ d.pcb.rcv_nxt = Len(d.rx.accepted) + 1
             /\ d.pcb.rcv_nxt >= p.rcv_nxt
  <2> DEFINE A == Len(acc)
             L == Len(peer_st)
  <2>1. A \in Nat /\ L \in Nat /\ A <= L /\ L + 1 < Modulus \div 2
    BY <1>0, <1>7 DEF RcvOK, acc
  <2>2. \A i \in 1..Len(q) : q[i].seqno \in 1..L /\ q[i].buf = peer_st[q[i].seqno]
    BY <1>7, Zenon DEF RcvOK, q
  <2> HIDE DEF A, L
  <2>3. n <= L - A
    <3> SUFFICES ASSUME n > L - A PROVE FALSE
      BY <1>1, <2>1
    <3>1. L - A + 1 \in 1..n /\ L - A + 1 \in 1..Len(q)
      BY <1>1, <2>1
    <3>2. p.rcv_nxt + (L - A + 1) - 1 = L + 1
      <4>1. p.rcv_nxt = A + 1
        BY <1>7, Zenon DEF A
      <4> QED
        BY <2>1, <4>1
    <3>3. q[L - A + 1].seqno = Wrap(L + 1)
      BY <1>1, <3>1, <3>2, SMTT(60)
    <3>4. Wrap(L + 1) = L + 1
      BY <2>1, WrapSmall, HalfModulus
    <3> QED
      BY <2>1, <2>2, <3>1, <3>3, <3>4, SMTT(60)
  <2>4. \A i \in 1..n : bufs[i] = peer_st[A + i]
    <3> TAKE i \in 1..n
    <3>1. p.rcv_nxt + i - 1 = A + i /\ A + i <= L /\ i \in 1..Len(q)
      BY <1>1, <1>7, <2>1, <2>3, SMTT(60) DEF A
    <3>2. Wrap(A + i) = A + i
      BY <1>1, <2>1, <3>1, WrapSmall, HalfModulus
    <3> QED
      BY <1>1, <1>2, <2>2, <3>1, <3>2, Zenon
  <2>5. Len(acc \o bufs) = A + n /\ A + n <= L
    <3>1. Len(acc \o bufs) = Len(acc) + Len(bufs)
      BY <1>0, <1>2, ConcatFacts, Zenon
    <3> QED
      BY <1>1, <1>2, <2>1, <2>3, <3>1 DEF A
  <2>6. ASSUME NEW i \in 1..(A + n)
        PROVE  (acc \o bufs)[i] = peer_st[i]
    <3>1. CASE i <= A
      <4>1. i \in 1..A /\ (acc \o bufs)[i] = acc[i]
        BY <1>0, <1>1, <1>2, <2>1, <3>1 DEF A
      <4> QED
        BY <4>1, <1>7, Zenon DEF RcvOK, A, acc
    <3>2. CASE i > A
      <4>1. i - A \in 1..n /\ A + (i - A) = i
        BY <1>1, <2>1, <3>2
      <4>2. (acc \o bufs)[i] = bufs[i - A]
        BY <1>0, <1>1, <1>2, <2>1, <3>2 DEF A
      <4> QED
        BY <2>4, <4>1, <4>2, Zenon
    <3>3. i \in Nat
      BY <1>1, <2>1
    <3>4. i <= A \/ i > A
      BY <2>1, <3>3
    <3> QED
      BY <3>1, <3>2, <3>4, Zenon
  <2>7. RcvOK(d.rx, peer_st)
    <3>1. ASSUME d.rx.accepted = <<>>
          PROVE  d.rx.ring = <<>>
      <4>1. A = 0 /\ n = 0
        BY <1>1, <1>4, <2>1, <2>5, <3>1
      <4>2. acc = <<>>
        BY <1>0, <4>1 DEF A
      <4>3. rx.ring = <<>>
        BY <1>7, <4>2, Zenon DEF RcvOK, acc
      <4>4. d.rx.ring = rx.ring
        BY <4>1, Zenon DEF d, PushInOrderMsgbufsToShmTrain, n, q
      <4> QED
        BY <4>3, <4>4, Zenon
    <3> QED
      BY <1>3, <1>4, <2>2, <2>5, <2>6, <3>1, SMTT(60) DEF RcvOK, L
  <2>8. Wrap(p.rcv_nxt + n) = A + n + 1
    <3>1. p.rcv_nxt + n = A + n + 1
      <4>1. p.rcv_nxt = A + 1
        BY <1>7, Zenon DEF A
      <4> QED
        BY <1>1, <2>1, <4>1
    <3> QED
      <4>1. A + n + 1 \in Int /\ 0 <= A + n + 1 /\ A + n + 1 < Modulus
        BY <1>1, <2>1, <2>5, HalfModulus
      <4> QED
        BY <3>1, <4>1, WrapSmall, Zenon
  <2> QED
    BY <1>1, <1>4, <1>6, <1>7, <2>1, <2>5, <2>7, <2>8 DEF A
<1> QED
  BY <1>0, <1>2, <1>3, <1>4, <1>6, <1>7 DEF d, acc

\* The elements of z are those of q and x.
Inserted(z, q, x, S) ==
  /\ z \in Seq(S)
  /\ \A i \in 1..Len(z) : z[i] = x \/ \E j \in 1..Len(q) : z[i] = q[j]

\* An insertion adds x to the queue and nothing else.
LEMMA InsertFacts ==
  ASSUME NEW S, NEW q \in Seq(S), NEW x \in S, NEW at \in 1..(Len(q) + 1)
  PROVE  Inserted(InsertEntry(q, at, x), q, x, S)
<1> DEFINE left == SubSeq(q, 1, at - 1)
           right == SubSeq(q, at, Len(q))
           y == <<x>>
           lx == left \o y
           all == lx \o right
<1>1. Len(q) \in Nat /\ at \in Nat /\ 1 <= at /\ at <= Len(q) + 1
  OBVIOUS
<1>2. /\ left \in Seq(S) /\ Len(left) = at - 1
      /\ \A i \in 1..(at - 1) : i \in 1..Len(q) /\ left[i] = q[i]
  BY <1>1
<1>3. /\ right \in Seq(S) /\ Len(right) = Len(q) - at + 1
      /\ \A i \in 1..(Len(q) - at + 1) :
           at + i - 1 \in 1..Len(q) /\ right[i] = q[at + i - 1]
  BY <1>1
<1>4. y \in Seq(S) /\ Len(y) = 1 /\ y[1] = x
  OBVIOUS
<1> HIDE DEF left, right, y
<1>5. /\ lx \in Seq(S) /\ Len(lx) = at
      /\ \A i \in 1..(at - 1) : lx[i] = left[i]
      /\ lx[at] = x
  <2>1. /\ lx \in Seq(S) /\ Len(lx) = Len(left) + 1
        /\ \A i \in 1..Len(left) : lx[i] = left[i]
        /\ lx[Len(left) + 1] = x
    <3>1. 1 \in 1..Len(y)
      BY <1>4
    <3>2. left \in Seq(S) /\ y \in Seq(S)
      BY <1>2, <1>4, Zenon
    <3>3. /\ lx \in Seq(S) /\ Len(lx) = Len(left) + Len(y)
          /\ \A i \in 1..Len(left) : lx[i] = left[i]
          /\ \A i \in 1..Len(y) : lx[Len(left) + i] = y[i]
      BY ONLY <3>2, ConcatFacts
    <3> HIDE DEF lx
    <3> QED
      BY <1>4, <3>1, <3>3, Zenon
  <2>2. Len(left) + 1 = at
    BY <1>1, <1>2
  <2> HIDE DEF lx
  <2> QED
    BY <1>2, <2>1, <2>2, Zenon
<1> HIDE DEF lx
<1>6. /\ all \in Seq(S) /\ Len(all) = at + Len(right)
      /\ \A i \in 1..at : all[i] = lx[i]
      /\ \A i \in 1..Len(right) : all[at + i] = right[i]
  BY <1>3, <1>5, ConcatFacts
<1> HIDE DEF all
<1>7. ASSUME NEW i \in 1..Len(all)
      PROVE  all[i] = x \/ \E j \in 1..Len(q) : all[i] = q[j]
  <2>1. CASE i < at
    <3>1. i \in 1..(at - 1) /\ i \in 1..at
      BY <1>1, <2>1
    <3> QED
      BY <3>1, <1>2, <1>5, <1>6, SMTT(60)
  <2>2. CASE i = at
    BY <2>2, <1>1, <1>5, <1>6
  <2>3. CASE i > at
    <3>1. i - at \in 1..Len(right) /\ at + (i - at) = i
      BY <1>1, <1>3, <1>6, <2>3
    <3>2. all[i] = right[i - at]
      BY <3>1, <1>6, Zenon
    <3> QED
      BY <3>1, <3>2, <1>3, Zenon
  <2>4. i \in Nat
    OBVIOUS
  <2> QED
    BY <1>1, <2>1, <2>2, <2>3, <2>4
<1>8. InsertEntry(q, at, x) = all
  BY Zenon DEF InsertEntry, all, lx, left, right, y
<1> QED
  BY ONLY <1>6, <1>7, <1>8, Zenon DEF Inserted

\* Consume keeps the accepted stream and the queue consistent with the stream of
\* the peer.
LEMMA ConsumeOK ==
  ASSUME NEW p \in PcbType, NEW rx, NEW s \in 0..(Modulus - 1),
         NEW buf \in BufType, NEW ok \in BOOLEAN,
         RxFields(rx, rx.reass_q, rx.train, rx.ring, rx.fatal, rx.accepted),
         rx.reass_q \in Seq(EntryType), rx.accepted \in Seq(BufType),
         NEW peer_st \in Seq(BufType), Len(peer_st) + 1 < Modulus \div 2
  PROVE  LET d == Consume(p, rx, s, buf, ok)
         IN  /\ d.pcb \in PcbType /\ d.pcb.rto_timer = p.rto_timer
             /\ d.pcb.snd_una = p.snd_una /\ d.pcb.snd_nxt = p.snd_nxt
             /\ RxFields(d.rx, d.rx.reass_q, d.rx.train, d.rx.ring, d.rx.fatal,
                         d.rx.accepted)
             /\ d.rx.reass_q \in Seq(EntryType)
             /\ d.rx.accepted \in Seq(BufType)
             /\ RcvOK(rx, peer_st) /\ p.rcv_nxt = Len(rx.accepted) + 1
                /\ s \in 1..Len(peer_st) /\ buf = peer_st[s] =>
                  /\ RcvOK(d.rx, peer_st)
                  /\ d.pcb.rcv_nxt = Len(d.rx.accepted) + 1
                  /\ d.pcb.rcv_nxt >= p.rcv_nxt
<1> DEFINE at == IF s = p.rcv_nxt THEN 1 ELSE FindPos(rx.reass_q, s)
           x == [seqno |-> s, buf |-> buf]
           q == InsertEntry(rx.reass_q, at, x)
           dist == Wrap(s - p.rcv_nxt)
           b == sack_bitmap_bit_set(p, dist)
           rq == [rx EXCEPT !.reass_q = q]
           pushed == PushInOrderMsgbufsToShmTrain(b, rq)
           d == Consume(p, rx, s, buf, ok)
           drop == \/ seqno_lt(s, p.rcv_nxt)
                   \/ dist >= kReassemblyMaxSeqnoDistance
                   \/ /\ s # p.rcv_nxt
                      /\ at <= Len(rx.reass_q) /\ rx.reass_q[at].seqno = s
<1>1. (d.pcb = p /\ d.rx = rx) \/ (d.pcb = pushed.pcb /\ d.rx = pushed.rx)
  <2>1. d = IF drop THEN [rc |-> 0, pcb |-> p, rx |-> rx]
            ELSE IF ~ok THEN [rc |-> -1, pcb |-> p, rx |-> rx]
            ELSE [rc |-> 0, pcb |-> pushed.pcb, rx |-> pushed.rx]
    BY Zenon DEF Consume
  <2> HIDE DEF d, drop, pushed
  <2>2. CASE drop
    <3>1. d = [rc |-> 0, pcb |-> p, rx |-> rx]
      BY <2>1, <2>2, Zenon
    <3>2. d.pcb = p
      BY ONLY <3>1, Zenon
    <3>3. d.rx = rx
      BY ONLY <3>1, Zenon
    <3> QED
      BY ONLY <3>2, <3>3, Zenon
  <2>4. CASE ~drop /\ ~ok
    <3>1. d = [rc |-> -1, pcb |-> p, rx |-> rx]
      BY <2>1, <2>4, Zenon
    <3>2. d.pcb = p
      BY ONLY <3>1, Zenon
    <3>3. d.rx = rx
      BY ONLY <3>1, Zenon
    <3> QED
      BY ONLY <3>2, <3>3, Zenon
  <2>3. CASE ~drop /\ ok
    <3>1. d = [rc |-> 0, pcb |-> pushed.pcb, rx |-> pushed.rx]
      BY <2>1, <2>3, Zenon
    <3> QED
      BY <3>1, Zenon
  <2> QED
    BY <2>2, <2>3, <2>4, Zenon
<1> HIDE DEF drop
<1>2. at \in 1..(Len(rx.reass_q) + 1) /\ x \in EntryType
  <2>1. FindPos(rx.reass_q, s) \in 1..(Len(rx.reass_q) + 1)
    BY FindPosOK, Zenon
  <2>2. 1 \in 1..(Len(rx.reass_q) + 1)
    OBVIOUS
  <2> QED
    BY <2>1, <2>2, Zenon DEF EntryType
<1>3. /\ q \in Seq(EntryType)
      /\ \A i \in 1..Len(q) : q[i] = x \/ \E j \in 1..Len(rx.reass_q) :
                                            q[i] = rx.reass_q[j]
  <2> HIDE DEF at, x
  <2>1. rx.reass_q \in Seq(EntryType)
    BY Zenon
  <2>2. Inserted(q, rx.reass_q, x, EntryType)
    BY ONLY <1>2, <2>1, InsertFacts, Zenon
  <2> HIDE DEF q
  <2> QED
    BY ONLY <2>2, Zenon DEF Inserted
<1>4. b \in PcbType /\ SameSeqnos(b, p) /\ b.rto_timer = p.rto_timer
  <2>1. dist \in Nat
    <3>1. s - p.rcv_nxt \in Int
      BY HalfModulus DEF PcbType
    <3>2. dist \in 0..(Modulus - 1)
      BY <3>1, WrapRange, Zenon
    <3> HIDE DEF dist
    <3> QED
      BY <3>2, HalfModulus
  <2> HIDE DEF dist
  <2> QED
    BY <2>1, SackOps, Zenon
<1> HIDE DEF q
<1>5. rq.reass_q = q /\ rq.accepted = rx.accepted /\ rq.ring = rx.ring
  BY Zenon DEF RxFields
<1> HIDE DEF at, dist, b, rq, d
<1>6. ASSUME RcvOK(rx, peer_st), s \in 1..Len(peer_st), buf = peer_st[s]
      PROVE  RcvOK(rq, peer_st)
  <2>1. ASSUME NEW i \in 1..Len(q)
        PROVE  q[i].seqno \in 1..Len(peer_st) /\ q[i].buf = peer_st[q[i].seqno]
    <3>1. CASE q[i] = x
      BY <3>1, <1>6
    <3>2. CASE \E j \in 1..Len(rx.reass_q) : q[i] = rx.reass_q[j]
      BY <3>2, <1>6, Zenon DEF RcvOK
    <3> QED
      BY <1>3, <3>1, <3>2, Zenon
  <2> QED
    BY <1>5, <1>6, <2>1, Zenon DEF RcvOK
<1>7. /\ pushed.pcb \in PcbType /\ pushed.pcb.rto_timer = b.rto_timer
      /\ pushed.pcb.snd_una = b.snd_una /\ pushed.pcb.snd_nxt = b.snd_nxt
      /\ RxFields(pushed.rx, pushed.rx.reass_q, pushed.rx.train,
                  pushed.rx.ring, pushed.rx.fatal, pushed.rx.accepted)
      /\ pushed.rx.reass_q \in Seq(EntryType)
      /\ pushed.rx.accepted \in Seq(BufType)
      /\ RcvOK(rq, peer_st) /\ b.rcv_nxt = Len(rq.accepted) + 1 =>
           /\ RcvOK(pushed.rx, peer_st)
           /\ pushed.pcb.rcv_nxt = Len(pushed.rx.accepted) + 1
           /\ pushed.pcb.rcv_nxt >= b.rcv_nxt
  BY <1>3, <1>4, <1>5, PushOK, Zenon
<1> HIDE DEF pushed, x
<1>8. p.rcv_nxt >= p.rcv_nxt
  BY HalfModulus DEF PcbType
<1>9. CASE d.pcb = p /\ d.rx = rx
  BY <1>8, <1>9, SMTT(20) DEF d
<1>10. CASE d.pcb = pushed.pcb /\ d.rx = pushed.rx
  BY <1>4, <1>5, <1>6, <1>7, <1>10, Zenon DEF d, SameSeqnos
<1> QED
  BY <1>1, <1>9, <1>10, Zenon

-----------------------------------------------------------------------------
(* The loop of PushInOrderMsgbufsToShmTrain, by induction.                  *)

\* Induction over the natural numbers, for sets.
LEMMA Induction ==
  ASSUME NEW T, 0 \in T, \A n \in Nat : n \in T => n + 1 \in T
  PROVE  Nat \subseteq T
<1> SUFFICES ASSUME Nat \ T # {}
             PROVE  FALSE
  BY Zenon
<1>1. Nat \ T \in SUBSET Nat
  BY Zenon
<1>2. PICK n \in Nat \ T : \A m \in Nat \ T : n <= m
  BY <1>1, Least, Zenon
<1>3. n # 0 /\ n \in Nat /\ ~(n \in T)
  BY Zenon
<1>4. n - 1 \in Nat /\ ~(n <= n - 1) /\ (n - 1) + 1 = n
  BY <1>3
<1>5. n - 1 \in T
  BY <1>2, <1>4, Zenon
<1> QED
  BY <1>3, <1>4, <1>5, Zenon

\* The loop of PushInOrderMsgbufsToShmTrain as a recursion: there is a function
\* with the states after each iteration, and Deliver is its last value.
LEMMA DeliverLoop ==
  ASSUME NEW rx, NEW bufs, Len(bufs) \in Nat
  PROVE  \E f : /\ f[0] = [train |-> rx.train, ring |-> rx.ring, fatal |-> rx.fatal]
                /\ \A i \in 1..Len(bufs) : f[i] = PushFront(f[i - 1], bufs[i])
                /\ Deliver(rx, bufs) = f[Len(bufs)]
<1> DEFINE N == Len(bufs)
           d0 == [train |-> rx.train, ring |-> rx.ring, fatal |-> rx.fatal]
           Rec(f, n) == f = [i \in 0..n |-> IF i = 0 THEN d0
                                            ELSE PushFront(f[i - 1], bufs[i])]
           after == CHOOSE f : Rec(f, N)
           T == {n \in Nat : \E f : Rec(f, n)}
<1>1. Deliver(rx, bufs) = after[N]
  BY Zenon DEF Deliver
<1> HIDE DEF d0
<1>2. ASSUME NEW n \in Nat, NEW f, Rec(f, n)
      PROVE  \E g : Rec(g, n + 1)
  <2> DEFINE g == [i \in 0..(n + 1) |-> IF i <= n THEN f[i]
                                        ELSE PushFront(f[n], bufs[n + 1])]
  <2>1. ASSUME NEW i \in 0..(n + 1)
        PROVE  g[i] = IF i = 0 THEN d0 ELSE PushFront(g[i - 1], bufs[i])
    <3>1. CASE i = 0
      BY <1>2, <3>1
    <3>2. CASE i # 0 /\ i <= n
      <4>1. i \in 0..n /\ i - 1 \in 0..n /\ i - 1 <= n /\ i - 1 \in 0..(n + 1)
        BY <3>2
      <4>2. g[i] = f[i] /\ g[i - 1] = f[i - 1]
        BY <3>2, <4>1, Zenon
      <4>3. f[i] = PushFront(f[i - 1], bufs[i])
        BY <1>2, <3>2, <4>1, Zenon
      <4> QED
        BY <3>2, <4>2, <4>3, Zenon
    <3>3. CASE i = n + 1
      <4>1. i - 1 = n /\ n \in 0..(n + 1) /\ i # 0 /\ ~(i <= n)
        BY <3>3
      <4> QED
        BY <3>3, <4>1
    <3> QED
      BY <3>1, <3>2, <3>3
  <2>2. Rec(g, n + 1)
    BY <2>1, Zenon
  <2> QED
    BY <2>2, Zenon
<1>3. \E f : Rec(f, 0)
  <2> DEFINE f == [i \in 0..0 |-> d0]
  <2>1. Rec(f, 0)
    BY SMT
  <2> QED
    BY <2>1, Zenon
<1>4. 0 \in T /\ \A n \in Nat : n \in T => n + 1 \in T
  <2> HIDE DEF Rec
  <2>1. 0 \in T
    BY <1>3, Zenon
  <2>2. ASSUME NEW n \in Nat, n \in T
        PROVE  n + 1 \in T
    <3>1. PICK f : Rec(f, n)
      BY <2>2, Zenon
    <3>2. \E g : Rec(g, n + 1)
      BY <1>2, <3>1, Zenon
    <3> QED
      BY <3>2
  <2> QED
    BY <2>1, <2>2, Zenon
<1>5. Nat \subseteq T
  <2> HIDE DEF T
  <2> QED
    BY <1>4, Induction, Zenon
<1>6. Rec(after, N)
  <2> HIDE DEF Rec
  <2>1. \E f : Rec(f, N)
    BY <1>5, Zenon
  <2> QED
    BY <2>1, Zenon
<1>7. 0 \in 0..N /\ \A i \in 1..N : i \in 0..N /\ i # 0
  OBVIOUS
<1>8. after[0] = d0
  <2> HIDE DEF after
  <2> QED
    BY <1>6, <1>7, Zenon
<1>9. ASSUME NEW i \in 1..N
      PROVE  after[i] = PushFront(after[i - 1], bufs[i])
  <2> HIDE DEF after
  <2> QED
    BY <1>6, <1>7, Zenon
<1> HIDE DEF Rec, after, N
<1>10. after[0] = [train |-> rx.train, ring |-> rx.ring, fatal |-> rx.fatal]
  BY <1>8, Zenon DEF d0
<1> QED
  BY <1>1, <1>9, <1>10, Zenon DEF N

-----------------------------------------------------------------------------
(* Streams, trains and messages.                                            *)

\* The buffers of a message.
LEMMA MessageOK ==
  ASSUME NEW e \in Ends, NEW n \in Nat, n < Len(Workload(e))
  PROVE  /\ Message(e, n + 1) \in Seq(BufType)
         /\ Len(Message(e, n + 1)) = Workload(e)[n + 1]
         /\ Workload(e)[n + 1] \in Nat \ {0}
<1> DEFINE k == Workload(e)[n + 1]
<1>1. Workload(e) \in Seq(Nat \ {0})
  BY FlowAssumption, Zenon DEF FlowAssumption
<1>2. n + 1 \in 1..Len(Workload(e))
  BY <1>1
<1>3. k \in Nat \ {0}
  BY <1>1, <1>2
<1> HIDE DEF k
<1>4. Message(e, n + 1) = [i \in 1..k |-> [msg |-> n + 1, pos |-> i, len |-> k]]
  BY Zenon DEF Message, k
<1>5. \A i \in 1..k : [msg |-> n + 1, pos |-> i, len |-> k] \in BufType
  BY <1>3 DEF BufType
<1> QED
  BY <1>3, <1>4, <1>5 DEF k

\* Where a stream is laid out, the messages its first a buffers complete are
\* among those submitted.
LEMMA WholeRange ==
  ASSUME NEW e \in Ends, NEW st \in Seq(BufType), NEW n \in Nat, Laid(e, st, n),
         NEW a \in 0..Len(st)
  PROVE  Whole(st, a) \in 0..n /\ Part(st, a) \in Nat
<1>1. a # 0 => a \in 1..Len(st) /\ st[a] \in BufType
  OBVIOUS
<1>2. Part(st, a) \in Nat /\ Whole(st, a) \in Int
  BY <1>1, SMTT(20) DEF Whole, Part, BufType
<1>3. CASE a = Len(st)
  BY <1>2, <1>3 DEF Laid
<1>4. CASE a # Len(st)
  <2>1. a \in 0..(Len(st) - 1)
    BY <1>4
  <2>2. Whole(st, a) + 1 \in 1..n
    BY <2>1, Zenon DEF Laid
  <2> QED
    BY <1>2, <2>2
<1> QED
  BY <1>3, <1>4, Zenon

\* The next buffer of a stream that is laid out, and what is complete with it.
LEMMA NextBuffer ==
  ASSUME NEW e \in Ends, NEW st \in Seq(BufType), NEW n \in Nat, Laid(e, st, n),
         NEW a \in Nat, a + 1 <= Len(st)
  PROVE  LET k == Whole(st, a)
             i == Part(st, a) + 1
             w == Workload(e)[k + 1]
         IN  /\ k \in 0..n /\ i \in Nat /\ w \in Nat /\ k + 1 \in 1..Len(Workload(e))
             /\ st[a + 1] = [msg |-> k + 1, pos |-> i, len |-> w]
             /\ is_last(st[a + 1]) <=> i = w
             /\ i = w => Whole(st, a + 1) = k + 1 /\ Part(st, a + 1) = 0
             /\ i # w => Whole(st, a + 1) = k /\ Part(st, a + 1) = i
<1> DEFINE k == Whole(st, a)
           i == Part(st, a) + 1
           w == Workload(e)[k + 1]
<1>1. a \in 0..Len(st) /\ a \in 0..(Len(st) - 1) /\ a + 1 # 0 /\ n \in Nat
  OBVIOUS
<1>2. k \in 0..n /\ i \in Nat
  BY <1>1, WholeRange
<1>3. /\ k + 1 \in 1..n /\ n <= Len(Workload(e))
      /\ st[a + 1] = [msg |-> k + 1, pos |-> i, len |-> w]
  BY <1>1, Zenon DEF Laid
<1>4. k + 1 \in 1..Len(Workload(e)) /\ w \in Nat
  <2>1. Workload(e) \in Seq(Nat \ {0})
    BY FlowAssumption, Zenon DEF FlowAssumption
  <2> QED
    BY <1>1, <1>3, <2>1
<1>5. st[a + 1].pos = i /\ st[a + 1].len = w /\ st[a + 1].msg = k + 1
  BY <1>3
<1>6. is_last(st[a + 1]) <=> i = w
  BY <1>5, Zenon DEF is_last
<1>7. i = w => Whole(st, a + 1) = k + 1 /\ Part(st, a + 1) = 0
  <2> HIDE DEF k, i, w
  <2> QED
    BY <1>1, <1>5, <1>6, Zenon DEF Whole, Part
<1>8. i # w => Whole(st, a + 1) = k /\ Part(st, a + 1) = i
  <2> HIDE DEF k, i, w
  <2>1. k \in Int
    BY <1>2
  <2> QED
    BY <1>1, <1>5, <1>6, <2>1 DEF Whole, Part
<1> QED
  BY <1>2, <1>3, <1>4, <1>6, <1>7, <1>8, Zenon

\* Trains as sequences.
LEMMA TrainFacts ==
  ASSUME NEW e \in Ends, NEW m \in 1..Len(Workload(e)), NEW i \in Nat
  PROVE  /\ Train(e, m, i) \in Seq(BufType) /\ Len(Train(e, m, i)) = i
         /\ Append(Train(e, m, i), [msg |-> m, pos |-> i + 1,
                                    len |-> Workload(e)[m]])
              = Train(e, m, i + 1)
         /\ Train(e, m, Workload(e)[m]) = Message(e, m)
<1> DEFINE w == Workload(e)[m]
<1>1. m \in Nat /\ w \in Nat
  <2>1. Workload(e) \in Seq(Nat \ {0})
    BY FlowAssumption, Zenon DEF FlowAssumption
  <2> QED
    BY <2>1
<1>2. Train(e, m, w) = Message(e, m)
  BY Zenon DEF Train, Message
<1> HIDE DEF w
<1>3. /\ Train(e, m, i) = [j \in 1..i |-> [msg |-> m, pos |-> j, len |-> w]]
      /\ Train(e, m, i + 1) = [j \in 1..(i + 1) |-> [msg |-> m, pos |-> j, len |-> w]]
  BY Zenon DEF Train, w
<1>4. Train(e, m, i) \in Seq(BufType) /\ Len(Train(e, m, i)) = i
  BY <1>1, <1>3 DEF BufType
<1>5. Append(Train(e, m, i), [msg |-> m, pos |-> i + 1, len |-> w])
        = Train(e, m, i + 1)
  BY <1>1, <1>3, <1>4
<1> QED
  BY <1>2, <1>4, <1>5, Zenon DEF w

\* The messages of a workload as sequences.
LEMMA MessagesFacts ==
  ASSUME NEW e \in Ends, NEW k \in 0..Len(Workload(e))
  PROVE  LET s == [m \in 1..k |-> Message(e, m)]
         IN  /\ s \in Seq(Seq(BufType)) /\ Len(s) = k
             /\ k + 1 <= Len(Workload(e)) =>
                  Append(s, Message(e, k + 1)) = [m \in 1..(k + 1) |-> Message(e, m)]
<1> DEFINE s == [m \in 1..k |-> Message(e, m)]
<1>0. Workload(e) \in Seq(Nat \ {0}) /\ k \in Nat
  BY FlowAssumption DEF FlowAssumption
<1>1. ASSUME NEW m \in 1..Len(Workload(e))
      PROVE  Message(e, m) \in Seq(BufType)
  <2>1. Workload(e)[m] \in Nat
    BY <1>0
  <2> QED
    BY <2>1, TrainFacts, Zenon
<1>2. s \in Seq(Seq(BufType)) /\ Len(s) = k
  <2>1. \A m \in 1..k : Message(e, m) \in Seq(BufType)
    BY <1>0, <1>1
  <2> QED
    BY <1>0, <2>1
<1>3. Append(s, Message(e, k + 1)) = [m \in 1..(k + 1) |-> Message(e, m)]
  BY <1>0, <1>2
<1> QED
  BY <1>2, <1>3, Zenon

\* A stream that grows keeps what its buffers complete.
LEMMA WholeGrows ==
  ASSUME NEW st \in Seq(BufType), NEW m \in Seq(BufType), NEW a \in 0..Len(st)
  PROVE  Whole(st \o m, a) = Whole(st, a) /\ Part(st \o m, a) = Part(st, a)
<1>1. a # 0 => (st \o m)[a] = st[a]
  OBVIOUS
<1> DEFINE all == st \o m
<1> HIDE DEF all
<1> QED
  BY <1>1, Zenon DEF Whole, Part, all

\* A submission lays the next message behind the others.
LEMMA LaidGrows ==
  ASSUME NEW e \in Ends, NEW st \in Seq(BufType), NEW n \in Nat, Laid(e, st, n),
         n < Len(Workload(e))
  PROVE  Laid(e, st \o Message(e, n + 1), n + 1)
<1> DEFINE w == Workload(e)[n + 1]
           m == Message(e, n + 1)
           all == st \o m
           L == Len(st)
<1>1. m \in Seq(BufType) /\ Len(m) = w /\ w \in Nat /\ w > 0
  BY MessageOK
<1>2. \A i \in 1..w : m[i] = [msg |-> n + 1, pos |-> i, len |-> w]
  BY Zenon DEF Message
<1> HIDE DEF w, m
<1>3. /\ all \in Seq(BufType) /\ Len(all) = L + w /\ L \in Nat
      /\ \A i \in 1..L : all[i] = st[i]
      /\ \A i \in 1..w : all[L + i] = m[i]
  <2>1. st \in Seq(BufType) /\ m \in Seq(BufType)
    BY <1>1, Zenon
  <2>2. /\ all \in Seq(BufType) /\ Len(all) = L + Len(m)
        /\ \A i \in 1..L : all[i] = st[i]
        /\ \A i \in 1..Len(m) : all[L + i] = m[i]
    BY ONLY <2>1, ConcatFacts
  <2> QED
    BY <1>1, <2>1, <2>2
<1>4. \A a \in 0..L : Whole(all, a) = Whole(st, a) /\ Part(all, a) = Part(st, a)
  BY <1>1, WholeGrows, Zenon
<1> HIDE DEF all
<1>5. ASSUME NEW j \in 1..w
      PROVE  /\ Whole(all, L + j) = IF j = w THEN n + 1 ELSE n
             /\ Part(all, L + j) = IF j = w THEN 0 ELSE j
  <2>1. all[L + j] = [msg |-> n + 1, pos |-> j, len |-> w] /\ L + j # 0
    BY <1>2, <1>3
  <2>2. /\ all[L + j].msg = n + 1 /\ all[L + j].pos = j
        /\ is_last(all[L + j]) <=> j = w
    BY <2>1 DEF is_last
  <2>3. (n + 1) - 1 = n
    OBVIOUS
  <2> QED
    BY <2>1, <2>2, <2>3, Zenon DEF Whole, Part
<1>6. n + 1 <= Len(Workload(e))
  <2>1. Len(Workload(e)) \in Nat
    BY FlowAssumption DEF FlowAssumption
  <2> QED
    BY <2>1
<1>7. ASSUME NEW a \in 0..(Len(all) - 1)
      PROVE  LET k == Whole(all, a) + 1
             IN  k \in 1..(n + 1) /\ all[a + 1] = [msg |-> k, pos |-> Part(all, a) + 1,
                                                 len |-> Workload(e)[k]]
  <2>1. CASE a < L
    <3>1. a \in 0..(L - 1) /\ a \in 0..L /\ a + 1 \in 1..L
      BY <1>3, <2>1
    <3>2. LET k == Whole(st, a) + 1
          IN  k \in 1..n /\ st[a + 1] = [msg |-> k, pos |-> Part(st, a) + 1,
                                         len |-> Workload(e)[k]]
      BY <3>1, Zenon DEF Laid
    <3>3. 1..n \subseteq 1..(n + 1)
      OBVIOUS
    <3> QED
      BY <1>3, <1>4, <3>1, <3>2, <3>3, Zenon
  <2>2. CASE a >= L
    <3> DEFINE j == a - L
    <3>1. j \in 0..(w - 1) /\ a + 1 = L + (j + 1) /\ j + 1 \in 1..w /\ a = L + j
      BY <1>1, <1>3, <2>2
    <3>2. Whole(all, a) = n /\ Part(all, a) = j
      <4>1. CASE j = 0
        <5>1. a = L /\ L \in 0..L
          BY <1>3, <3>1, <4>1
        <5>2. Whole(st, L) = n /\ Part(st, L) = 0
          BY Zenon DEF Laid
        <5> QED
          BY <1>4, <4>1, <5>1, <5>2, Zenon
      <4>2. CASE j # 0
        <5>1. j \in 1..w /\ j # w
          BY <1>1, <3>1, <4>2
        <5> HIDE DEF j
        <5> QED
          BY <1>5, <3>1, <5>1, Zenon
      <4> QED
        BY <4>1, <4>2, Zenon
    <3>3. all[a + 1] = [msg |-> n + 1, pos |-> j + 1, len |-> w]
      BY <1>2, <1>3, <3>1, SMTT(20)
    <3>4. n + 1 \in 1..(n + 1)
      OBVIOUS
    <3> HIDE DEF j
    <3> QED
      BY <3>2, <3>3, <3>4, Zenon DEF w
  <2> QED
    BY <1>3, <2>1, <2>2
<1>8. Whole(all, Len(all)) = n + 1 /\ Part(all, Len(all)) = 0
  BY <1>1, <1>3, <1>5
<1>9. Laid(e, all, n + 1)
  BY <1>6, <1>7, <1>8, Zenon DEF Laid
<1> QED
  BY <1>9, Zenon DEF all, m

\* What was handed over stays in step with a stream that grows.
LEMMA HandedGrows ==
  ASSUME NEW e \in Ends, NEW st \in Seq(BufType), NEW m \in Seq(BufType),
         NEW rx, NEW rc, rx.accepted \in Seq(BufType),
         Len(rx.accepted) <= Len(st), Handed(e, st, Len(rx.accepted), rc, rx)
  PROVE  Handed(e, st \o m, Len(rx.accepted), rc, rx)
<1> DEFINE a == Len(rx.accepted)
<1>1. a \in 0..Len(st)
  OBVIOUS
<1>2. Whole(st \o m, a) = Whole(st, a) /\ Part(st \o m, a) = Part(st, a)
  BY <1>1, WholeGrows, Zenon
<1> HIDE DEF a
<1>3. Handed(e, st, a, rc, rx) => Handed(e, st \o m, a, rc, rx)
  BY <1>2, Zenon DEF Handed
<1> QED
  BY <1>3, Zenon DEF a

-----------------------------------------------------------------------------
(* What the buffers that were accepted hand over.                           *)

\* Appending to the second of two sequences appends to their concatenation.
LEMMA ConcatAppend ==
  ASSUME NEW S, NEW s \in Seq(S), NEW t \in Seq(S), NEW x \in S
  PROVE  s \o Append(t, x) = Append(s \o t, x)
  OBVIOUS

\* The record of the loop has these fields and no others.
Record3(d) == d = [train |-> d.train, ring |-> d.ring, fatal |-> d.fatal]

\* One iteration of the loop hands over what the next buffer of the stream
\* completes.
LEMMA PushFrontHands ==
  ASSUME NEW e \in Ends, NEW st \in Seq(BufType), NEW n \in Nat, Laid(e, st, n),
         NEW a \in Nat, a + 1 <= Len(st),
         NEW rc \in Seq(Seq(BufType)), NEW d, Record3(d), DeliveryFields(d),
         Handed(e, st, a, rc, d)
  PROVE  LET g == PushFront(d, st[a + 1])
         IN  /\ Record3(g) /\ DeliveryFields(g) /\ Handed(e, st, a + 1, rc, g)
             /\ Len(g.ring) >= Len(d.ring)
<1> DEFINE buf == st[a + 1]
           g == PushFront(d, buf)
           w == Whole(st, a)
           i == Part(st, a) + 1
           l == Workload(e)[w + 1]
           wn == Whole(st, a + 1)
           pn == Part(st, a + 1)
<1>1. /\ w \in 0..n /\ i \in Nat /\ l \in Nat /\ w + 1 \in 1..Len(Workload(e))
      /\ buf = [msg |-> w + 1, pos |-> i, len |-> l]
      /\ is_last(buf) <=> i = l
      /\ i = l => wn = w + 1 /\ pn = 0
      /\ i # l => wn = w /\ pn = i
  BY NextBuffer, Zenon
<1>2. PICK k \in 0..w :
        /\ rc \o d.ring = [m \in 1..k |-> Message(e, m)]
        /\ ~d.fatal => k = w /\ d.train = Train(e, k + 1, Part(st, a))
  BY Zenon DEF Handed
<1>3. Part(st, a) = i - 1 /\ Part(st, a) \in Nat
  <2>1. a \in 0..Len(st)
    OBVIOUS
  <2> QED
    BY <2>1, WholeRange
<1>4. buf \in BufType
  OBVIOUS
<1>5. d.train \in Seq(BufType) /\ d.ring \in Seq(Seq(BufType)) /\ d.fatal \in BOOLEAN
  BY Zenon DEF DeliveryFields
<1>6. Handed(e, st, a + 1, rc, g) <=>
        \E j \in 0..wn : /\ rc \o g.ring = [m \in 1..j |-> Message(e, m)]
                         /\ ~g.fatal => j = wn /\ g.train = Train(e, j + 1, pn)
  BY Zenon DEF Handed
<1> DEFINE train == Append(d.train, buf)
<1>7. g = IF d.fatal THEN d
          ELSE IF ~is_last(buf) THEN [d EXCEPT !.train = train]
          ELSE IF Len(d.ring) >= RingCapacity THEN [d EXCEPT !.fatal = TRUE]
          ELSE [d EXCEPT !.train = <<>>, !.ring = Append(d.ring, train)]
  BY Zenon DEF PushFront, Record3
<1>8. train \in Seq(BufType)
  BY <1>4, <1>5
<1> HIDE DEF g, buf, w, i, l, wn, pn, train
<1>9. CASE d.fatal
  <2>1. g = d
    BY <1>7, <1>9, Zenon
  <2>2. k \in 0..wn
    BY <1>1, <1>2
  <2>3. Handed(e, st, a + 1, rc, g)
    BY <1>2, <1>6, <1>9, <2>1, <2>2, Zenon
  <2>4. Len(d.ring) \in Nat
    BY <1>5
  <2> QED
    BY <2>1, <2>3, <2>4 DEF g, buf
<1>10. CASE ~d.fatal /\ ~is_last(buf)
  <2>1. g = [d EXCEPT !.train = train]
    BY <1>7, <1>10, Zenon
  <2>2. g = [train |-> train, ring |-> d.ring, fatal |-> d.fatal]
    BY <2>1, Zenon DEF Record3
  <2>3. g.train = train /\ g.ring = d.ring /\ g.fatal = d.fatal
    BY <2>2, Zenon
  <2>4. wn = w /\ pn = i /\ k = w /\ d.train = Train(e, k + 1, i - 1)
    BY <1>1, <1>2, <1>3, <1>10, Zenon
  <2>5. train = Train(e, k + 1, i)
    <3>1. k + 1 \in 1..Len(Workload(e)) /\ i - 1 \in Nat /\ (i - 1) + 1 = i
      BY <1>1, <1>3, <2>4
    <3>2. buf = [msg |-> k + 1, pos |-> i, len |-> Workload(e)[k + 1]]
      BY <1>1, <2>4, Zenon DEF l
    <3> QED
      BY <2>4, <3>1, <3>2, TrainFacts, Zenon DEF train
  <2>6. k \in 0..wn
    BY <1>1, <1>2, <2>4, Zenon
  <2>7. Handed(e, st, a + 1, rc, g)
    BY <1>2, <1>6, <2>3, <2>4, <2>5, <2>6, Zenon
  <2>8. Len(g.ring) >= Len(d.ring)
    BY <1>5, <2>3
  <2>9. Record3(g) /\ DeliveryFields(g)
    BY <1>5, <1>8, <2>2, <2>3, Zenon DEF Record3, DeliveryFields
  <2> QED
    BY <2>7, <2>8, <2>9, Zenon DEF g, buf
<1>11. CASE ~d.fatal /\ is_last(buf) /\ Len(d.ring) >= RingCapacity
  <2>1. g = [d EXCEPT !.fatal = TRUE]
    BY <1>7, <1>11, Zenon
  <2>2. g = [train |-> d.train, ring |-> d.ring, fatal |-> TRUE]
    BY <2>1, Zenon DEF Record3
  <2>3. g.train = d.train /\ g.ring = d.ring /\ g.fatal = TRUE
    BY <2>2, Zenon
  <2>4. k \in 0..wn
    BY <1>1, <1>2, <1>11
  <2>5. Handed(e, st, a + 1, rc, g)
    BY <1>2, <1>6, <2>3, <2>4, Zenon
  <2>6. Len(g.ring) >= Len(d.ring)
    BY <1>5, <2>3
  <2>7. Record3(g) /\ DeliveryFields(g)
    BY <1>5, <2>2, <2>3, Zenon DEF Record3, DeliveryFields
  <2> QED
    BY <2>5, <2>6, <2>7, Zenon DEF g, buf
<1>12. CASE ~d.fatal /\ is_last(buf) /\ ~(Len(d.ring) >= RingCapacity)
  <2> DEFINE ring == Append(d.ring, train)
  <2>1. g = [d EXCEPT !.train = <<>>, !.ring = ring]
    BY <1>7, <1>12, Zenon
  <2>2. ring \in Seq(Seq(BufType)) /\ Len(ring) >= Len(d.ring)
    BY <1>5, <1>8
  <2>3. k = w /\ wn = k + 1 /\ pn = 0 /\ i = l /\ d.train = Train(e, k + 1, i - 1)
    BY <1>1, <1>2, <1>3, <1>12, Zenon
  <2>4. k + 1 \in 1..Len(Workload(e)) /\ k \in 0..Len(Workload(e))
    BY <1>1, <2>3
  <2>5. train = Message(e, k + 1)
    <3>1. i - 1 \in Nat /\ (i - 1) + 1 = i /\ i = Workload(e)[k + 1]
      BY <1>1, <1>3, <2>3 DEF l
    <3>2. buf = [msg |-> k + 1, pos |-> (i - 1) + 1, len |-> Workload(e)[k + 1]]
      BY <1>1, <2>3, <3>1, Zenon DEF l
    <3> QED
      BY <2>3, <2>4, <3>1, <3>2, TrainFacts, SMTT(20) DEF train
  <2>6. rc \o ring = Append(rc \o d.ring, train)
    <3>1. PICK S : S = Seq(BufType)
      BY Zenon
    <3>2. train \in S /\ d.ring \in Seq(S) /\ rc \in Seq(S)
      BY <1>5, <1>8, <3>1, Zenon
    <3> QED
      BY ONLY <3>2, ConcatAppend, SMTT(20)
  <2>7. rc \o ring = [m \in 1..(k + 1) |-> Message(e, m)]
    <3>1. Append([m \in 1..k |-> Message(e, m)], Message(e, k + 1))
            = [m \in 1..(k + 1) |-> Message(e, m)]
      BY <2>4, MessagesFacts
    <3> QED
      BY <1>2, <2>5, <2>6, <3>1, Zenon
  <2>8. <<>> = Train(e, (k + 1) + 1, 0)
    BY DEF Train
  <2> HIDE DEF ring
  <2>9. g = [train |-> <<>>, ring |-> ring, fatal |-> d.fatal]
    BY <2>1, Zenon DEF Record3
  <2>10. g.train = <<>> /\ g.ring = ring /\ g.fatal = d.fatal
    BY <2>9, Zenon
  <2>11. k + 1 \in 0..wn
    BY <1>1, <1>2, <2>3
  <2>12. Handed(e, st, a + 1, rc, g)
    BY <1>6, <2>3, <2>7, <2>8, <2>10, <2>11, Zenon
  <2>13. <<>> \in Seq(BufType)
    OBVIOUS
  <2>14. Record3(g) /\ DeliveryFields(g)
    BY <1>5, <2>2, <2>9, <2>10, <2>13, SMTT(20) DEF Record3, DeliveryFields
  <2> QED
    BY <2>2, <2>10, <2>12, <2>14, Zenon DEF g, buf
<1> QED
  BY <1>9, <1>10, <1>11, <1>12, Zenon

\* The loop hands over what the buffers it takes complete.
LEMMA DeliverHands ==
  ASSUME NEW e \in Ends, NEW st \in Seq(BufType), NEW n \in Nat, Laid(e, st, n),
         NEW a \in Nat, NEW bufs \in Seq(BufType), a + Len(bufs) <= Len(st),
         \A i \in 1..Len(bufs) : bufs[i] = st[a + i],
         NEW rc \in Seq(Seq(BufType)), NEW rx, DeliveryFields(rx),
         Handed(e, st, a, rc, rx)
  PROVE  LET d == Deliver(rx, bufs)
         IN  /\ DeliveryFields(d) /\ Handed(e, st, a + Len(bufs), rc, d)
             /\ Len(d.ring) >= Len(rx.ring)
<1>1. Len(bufs) \in Nat
  OBVIOUS
<1>2. PICK f : /\ f[0] = [train |-> rx.train, ring |-> rx.ring, fatal |-> rx.fatal]
               /\ \A i \in 1..Len(bufs) : f[i] = PushFront(f[i - 1], bufs[i])
               /\ Deliver(rx, bufs) = f[Len(bufs)]
  BY <1>1, DeliverLoop, SMTT(20)
<1> DEFINE P(i) == /\ Record3(f[i]) /\ DeliveryFields(f[i])
                   /\ Handed(e, st, a + i, rc, f[i])
                   /\ Len(f[i].ring) >= Len(rx.ring)
           T == {i \in Nat : i <= Len(bufs) => P(i)}
<1>3. P(0)
  <2>1. f[0].train = rx.train /\ f[0].ring = rx.ring /\ f[0].fatal = rx.fatal
    BY <1>2
  <2>2. Record3(f[0]) /\ DeliveryFields(f[0])
    BY <1>2, <2>1, Zenon DEF Record3, DeliveryFields
  <2>3. a + 0 = a
    OBVIOUS
  <2>4. Handed(e, st, a, rc, f[0])
    BY <2>1, Zenon DEF Handed
  <2>5. Len(rx.ring) \in Nat
    BY DEF DeliveryFields
  <2> QED
    BY <2>1, <2>2, <2>3, <2>4, <2>5
<1>4. ASSUME NEW i \in Nat, i + 1 <= Len(bufs), P(i)
      PROVE  P(i + 1)
  <2> DEFINE d == f[i]
             b == a + i
             g == PushFront(d, st[b + 1])
  <2>1. b \in Nat /\ b + 1 <= Len(st) /\ b + 1 = a + (i + 1) /\ i + 1 \in 1..Len(bufs)
        /\ (i + 1) - 1 = i
    <3>1. Len(st) \in Nat
      OBVIOUS
    <3>2. a \in Nat /\ i \in Nat /\ i + 1 <= Len(bufs) /\ a + Len(bufs) <= Len(st)
      BY <1>4
    <3> QED
      BY ONLY <1>1, <3>1, <3>2
  <2>2. bufs[i + 1] = st[b + 1]
    BY <2>1, SMTT(20)
  <2>3. f[i + 1] = g
    BY <1>2, <2>1, <2>2, Zenon
  <2>4. Record3(d) /\ DeliveryFields(d) /\ Handed(e, st, b, rc, d)
        /\ Len(d.ring) >= Len(rx.ring)
    BY <1>4, Zenon
  <2> HIDE DEF d, b
  <2>5. /\ Record3(g) /\ DeliveryFields(g) /\ Handed(e, st, b + 1, rc, g)
        /\ Len(g.ring) >= Len(d.ring)
    BY <2>1, <2>4, PushFrontHands, Zenon
  <2>6. Len(g.ring) \in Nat /\ Len(d.ring) \in Nat /\ Len(rx.ring) \in Nat
    BY <2>4, <2>5, SMTT(20) DEF DeliveryFields
  <2>7. Len(g.ring) >= Len(rx.ring)
    BY <2>4, <2>5, <2>6, SMTT(20)
  <2> QED
    BY <2>1, <2>3, <2>5, <2>7, Zenon
<1> HIDE DEF P
<1>5. 0 \in T /\ \A i \in Nat : i \in T => i + 1 \in T
  <2>1. \A i \in Nat : i + 1 \in Nat /\ (i + 1 <= Len(bufs) => i <= Len(bufs))
    BY <1>1
  <2> QED
    BY <1>3, <1>4, <2>1, Zenon
<1>6. Nat \subseteq T
  <2> HIDE DEF T
  <2> QED
    BY <1>5, Induction, Zenon
<1>7. P(Len(bufs))
  BY <1>1, <1>6
<1> QED
  BY <1>2, <1>7, Zenon DEF P

\* r and d agree on what was handed over.
SameDelivery(r, d) == r.train = d.train /\ r.ring = d.ring /\ r.fatal = d.fatal

\* From rx to r nothing was accepted, or the loop ran on what was.
Delivers(rx, r) ==
  \/ SameDelivery(r, rx) /\ r.accepted = rx.accepted
  \/ \E bufs \in Seq(BufType) : \E rq :
       /\ SameDelivery(rq, rx) /\ SameDelivery(r, Deliver(rq, bufs))
       /\ r.accepted = rx.accepted \o bufs

\* What a receiver has handed over is a matter of these fields.
LEMMA HandedSame ==
  ASSUME NEW e, NEW st, NEW a, NEW rc, NEW r, NEW d, SameDelivery(r, d)
  PROVE  /\ Handed(e, st, a, rc, d) <=> Handed(e, st, a, rc, r)
         /\ DeliveryFields(d) <=> DeliveryFields(r)
  BY Zenon DEF Handed, DeliveryFields, SameDelivery

\* Consume leaves what was handed over alone, or runs the loop on the buffers
\* that it accepts.
LEMMA ConsumeDelivers ==
  ASSUME NEW p \in PcbType, NEW rx, NEW s \in 0..(Modulus - 1), NEW buf \in BufType,
         NEW ok, rx.reass_q \in Seq(EntryType), rx.accepted \in Seq(BufType),
         RxFields(rx, rx.reass_q, rx.train, rx.ring, rx.fatal, rx.accepted)
  PROVE  Delivers(rx, Consume(p, rx, s, buf, ok).rx)
<1> DEFINE d == Wrap(s - p.rcv_nxt)
           at == IF s = p.rcv_nxt THEN 1 ELSE FindPos(rx.reass_q, s)
           q == InsertEntry(rx.reass_q, at, [seqno |-> s, buf |-> buf])
           rq == [rx EXCEPT !.reass_q = q]
           b == sack_bitmap_bit_set(p, d)
           u == PushInOrderMsgbufsToShmTrain(b, rq)
           r == Consume(p, rx, s, buf, ok).rx
<1>1. r = rx \/ r = u.rx
  BY Zenon DEF Consume
<1>2. SameDelivery(rq, rx) /\ rq.reass_q = q /\ rq.accepted = rx.accepted
  BY Zenon DEF RxFields, SameDelivery
<1>3. q \in Seq(EntryType)
  <2>1. [seqno |-> s, buf |-> buf] \in EntryType
    BY Zenon DEF EntryType
  <2>2. at \in 1..(Len(rx.reass_q) + 1)
    <3>1. 1 \in 1..(Len(rx.reass_q) + 1)
      <4>1. Len(rx.reass_q) \in Nat
        OBVIOUS
      <4> QED
        BY <4>1
    <3> QED
      BY <3>1, FindPosOK, Zenon
  <2> HIDE DEF at
  <2> QED
    BY <2>1, <2>2, InsertFacts, Zenon DEF Inserted
<1>4. b \in PcbType
  <2>1. d \in Nat
    <3>1. s - p.rcv_nxt \in Int
      BY HalfModulus DEF PcbType
    <3>2. d \in 0..(Modulus - 1)
      BY <3>1, WrapRange, Zenon
    <3> HIDE DEF d
    <3> QED
      BY <3>2, HalfModulus
  <2> QED
    BY <2>1, SackOps, Zenon
<1> HIDE DEF q, b, r, rq
<1> DEFINE n == InOrderCount(b, q)
           bufs == [i \in 1..n |-> q[i].buf]
<1>5. bufs \in Seq(BufType) /\ n \in Nat
  <2>1. n \in 0..Len(q)
    BY <1>3, <1>4, InOrderCountOK, Zenon
  <2> HIDE DEF n
  <2>2. \A i \in 1..n : q[i] \in EntryType
    BY <1>3, <2>1
  <2>3. \A i \in 1..n : q[i].buf \in BufType
    BY <2>2, Zenon DEF EntryType
  <2> QED
    BY <1>3, <2>1, <2>3
<1>6. /\ u.rx.accepted = rx.accepted \o bufs
      /\ n = 0 => SameDelivery(u.rx, rq)
      /\ n # 0 => SameDelivery(u.rx, Deliver(rq, bufs))
  BY <1>2, Zenon DEF PushInOrderMsgbufsToShmTrain, SameDelivery
<1>7. n = 0 => bufs = <<>>
  OBVIOUS
<1> HIDE DEF n, bufs, u
<1>8. n = 0 => u.rx.accepted = rx.accepted
  BY <1>6, <1>7, SMTT(20)
<1>9. CASE r = u.rx /\ n # 0
  BY <1>2, <1>5, <1>6, <1>9, Zenon DEF Delivers, r
<1>10. CASE r = u.rx /\ n = 0
  BY <1>2, <1>6, <1>8, <1>10, Zenon DEF SameDelivery, Delivers, r
<1>11. CASE r = rx
  BY <1>11, Zenon DEF SameDelivery, Delivers, r
<1> QED
  BY <1>1, <1>9, <1>10, <1>11, Zenon

\* As long as what is accepted is the stream of the peer, Consume keeps what was
\* handed over in step with it.
LEMMA ConsumeHands ==
  ASSUME NEW e \in Ends, NEW st \in Seq(BufType), NEW n \in Nat, Laid(e, st, n),
         NEW p \in PcbType, NEW rx, NEW s \in 0..(Modulus - 1), NEW buf \in BufType,
         NEW ok, rx.reass_q \in Seq(EntryType), rx.accepted \in Seq(BufType),
         RxFields(rx, rx.reass_q, rx.train, rx.ring, rx.fatal, rx.accepted),
         RcvOK(Consume(p, rx, s, buf, ok).rx, st),
         DeliveryFields(rx), NEW rc \in Seq(Seq(BufType)),
         Handed(e, st, Len(rx.accepted), rc, rx)
  PROVE  LET r == Consume(p, rx, s, buf, ok).rx
         IN  /\ DeliveryFields(r) /\ Handed(e, st, Len(r.accepted), rc, r)
             /\ Len(r.ring) >= Len(rx.ring)
<1> DEFINE r == Consume(p, rx, s, buf, ok).rx
           acc == rx.accepted
<1>1. Delivers(rx, r)
  BY ConsumeDelivers, Zenon
<1>2. /\ Len(r.accepted) <= Len(st)
      /\ \A i \in 1..Len(r.accepted) : r.accepted[i] = st[i]
  BY Zenon DEF RcvOK
<1>3. acc \in Seq(BufType) /\ Len(acc) \in Nat
  OBVIOUS
<1> HIDE DEF r
<1>4. CASE SameDelivery(r, rx) /\ r.accepted = acc
  <2>1. DeliveryFields(r) /\ Handed(e, st, Len(r.accepted), rc, r)
    BY <1>4, HandedSame, Zenon
  <2>2. Len(r.ring) >= Len(rx.ring)
    BY <1>4 DEF SameDelivery, DeliveryFields
  <2> QED
    BY <2>1, <2>2, Zenon DEF r
<1>5. ASSUME NEW bufs \in Seq(BufType), NEW rq,
             SameDelivery(rq, rx), SameDelivery(r, Deliver(rq, bufs)),
             r.accepted = acc \o bufs
      PROVE  /\ DeliveryFields(r) /\ Handed(e, st, Len(r.accepted), rc, r)
             /\ Len(r.ring) >= Len(rx.ring)
  <2> DEFINE d == Deliver(rq, bufs)
             a == Len(acc)
  <2>1. /\ Len(acc \o bufs) = a + Len(bufs) /\ Len(bufs) \in Nat /\ a \in Nat
        /\ \A i \in 1..Len(bufs) : (acc \o bufs)[a + i] = bufs[i]
    BY <1>3, ConcatFacts
  <2>2. a + Len(bufs) <= Len(st)
    BY <1>2, <1>5, <2>1, Zenon
  <2>3. ASSUME NEW i \in 1..Len(bufs)
        PROVE  bufs[i] = st[a + i]
    <3>1. a + i \in 1..(a + Len(bufs))
      BY <2>1
    <3>2. r.accepted[a + i] = st[a + i] /\ r.accepted[a + i] = bufs[i]
      BY <1>2, <1>5, <2>1, <3>1, Zenon
    <3> QED
      BY <3>2, Zenon
  <2>4. DeliveryFields(rq) /\ Handed(e, st, a, rc, rq)
    BY <1>5, HandedSame, Zenon
  <2>5. /\ DeliveryFields(d) /\ Handed(e, st, a + Len(bufs), rc, d)
        /\ Len(d.ring) >= Len(rq.ring)
    <3> HIDE DEF a
    <3> QED
      BY <2>1, <2>2, <2>3, <2>4, DeliverHands, Zenon
  <2> HIDE DEF d, a
  <2>6. DeliveryFields(r) /\ Handed(e, st, a + Len(bufs), rc, r)
    BY <1>5, <2>5, HandedSame, Zenon DEF d
  <2>7. Len(r.ring) >= Len(rx.ring)
    BY <1>5, <2>5, Zenon DEF SameDelivery, d
  <2> QED
    BY <1>5, <2>1, <2>6, <2>7, Zenon
<1> QED
  BY <1>1, <1>4, <1>5, Zenon DEF Delivers, r

-----------------------------------------------------------------------------
(* The sending side, whatever the other end does.                           *)

\* The chain stays within half of the sequence space.
Roomy(f) == Len(f.tx.chain) + 1 < Modulus \div 2

NoRst(f) == \A i \in 1..Len(f.out) : f.out[i].flags # "RST"

\* Packets of the handshake, or of its end.
Silent(f) == \A i \in 1..Len(f.out) : f.out[i].flags \in {"SYN", "SYNACK", "RST"}

\* g is f after it sent packets that are no resets, new ones or again: the chain
\* keeps its buffers, and the numbers and the unsent part move together.
Sends(f, g) ==
  /\ g.state = f.state /\ g.life = f.life /\ g.callback = f.callback
  /\ g.rx = f.rx /\ Len(g.tx.chain) = Len(f.tx.chain)
  /\ g.fault = f.fault \/ g.fault \in {"no_unacked", "off_chain"}
  /\ NoRst(f) => NoRst(g)
  /\ Numbered(f) => Numbered(g)

\* What every handler keeps of it.
Handled(f, g) ==
  /\ Len(g.tx.chain) <= Len(f.tx.chain)
  /\ NoRst(f) => NoRst(g)
  /\ Numbered(f) => Numbered(g)

\* What a packet h does to the sending side of f. Only the first SYN finds the
\* flow as it was created.
Takes(f, h, g) ==
  /\ Len(g.tx.chain) <= Len(f.tx.chain)
  /\ NoRst(f) => NoRst(g)
  /\ (/\ Numbered(f)
      /\ h.flags = "SYN" /\ f.state = "Closed"
           => f.pcb = InitPcb /\ f.tx = InitTx) => Numbered(g)
  /\ (/\ Numbered(f) /\ f.fault # "over_ack" /\ g.fault = "over_ack"
      /\ h.flags = "ACK" => f.state # "SynSent") => g.state = "Closed"
  /\ g.state = "SynSent" => f.state = "SynSent"
  /\ g.state = "Closed" =>
       h.flags = "RST" \/ (f.state = "Closed" /\ h.flags # "SYN")

\* What a packet of the handshake, or a reset, does: no ACK is sent before the
\* client has left SYN-SENT, and no data is taken.
Hushed(f, g) ==
  /\ g.rx = f.rx
  /\ g.state \in {"SynSent", "Established"}
       => f.state \in {"SynSent", "Established"}
  /\ Silent(f) /\ f.state \notin {"SynSent", "Established"} => Silent(g)
  /\ g.state = "SynSent" => g = f

-----------------------------------------------------------------------------
(* Sequence numbers at any place of their range.                            *)

\* Sums that pass the end of the range wrap once.
LEMMA WrapOnce ==
  ASSUME NEW n \in Int, Modulus <= n, n < 2 * Modulus
  PROVE  Wrap(n) = n - Modulus
  BY SwiftAssumption DEF SwiftAssumption, Wrap

\* The differences of two sequence numbers, and their sums with a number that
\* is no larger than the range.
LEMMA WrapCases ==
  ASSUME NEW a \in 0..(Modulus - 1), NEW b \in 0..(Modulus - 1),
         NEW n \in 0..(Modulus - 1)
  PROVE  /\ Wrap(a - b) = IF a >= b THEN a - b ELSE a - b + Modulus
         /\ Wrap(a + n) = IF a + n < Modulus THEN a + n ELSE a + n - Modulus
<1>1. Modulus \in Nat
  BY HalfModulus, Zenon
<1>2. a >= b => Wrap(a - b) = a - b
  BY <1>1, WrapSmall
<1>3. a < b => Wrap(a - b) = a - b + Modulus
  BY <1>1, WrapNegative
<1>4. a + n < Modulus => Wrap(a + n) = a + n
  BY <1>1, WrapSmall
<1>5. a + n >= Modulus => Wrap(a + n) = a + n - Modulus
  BY <1>1, WrapOnce
<1> QED
  BY <1>1, <1>2, <1>3, <1>4, <1>5

\* Sending n more packets moves snd_nxt away from snd_una by n.
LEMMA AdvanceDistance ==
  ASSUME NEW nxt \in 0..(Modulus - 1), NEW una \in 0..(Modulus - 1),
         NEW n \in Nat, Wrap(nxt - una) + n < Modulus
  PROVE  Wrap(Wrap(nxt + n) - una) = Wrap(nxt - una) + n
<1>1. Modulus \in Nat /\ Wrap(nxt - una) \in 0..(Modulus - 1)
  BY HalfModulus, WrapRange
<1>2. n \in 0..(Modulus - 1)
  BY <1>1
<1>3. /\ Wrap(nxt - una) = IF nxt >= una THEN nxt - una ELSE nxt - una + Modulus
      /\ Wrap(nxt + n) = IF nxt + n < Modulus THEN nxt + n ELSE nxt + n - Modulus
  BY <1>2, WrapCases, Zenon
<1>4. Wrap(nxt + n) \in 0..(Modulus - 1)
  BY <1>2, WrapRange
<1>5. Wrap(Wrap(nxt + n) - una)
        = IF Wrap(nxt + n) >= una THEN Wrap(nxt + n) - una
          ELSE Wrap(nxt + n) - una + Modulus
  BY <1>2, <1>4, WrapCases, Zenon
<1> QED
  BY <1>1, <1>3, <1>5

\* An acknowledgement that process_ack accepts covers at least one and at most
\* all of the outstanding numbers, and leaves the others outstanding.
LEMMA AckDistance ==
  ASSUME NEW nxt \in 0..(Modulus - 1), NEW una \in 0..(Modulus - 1),
         NEW ackno \in 0..(Modulus - 1), Wrap(nxt - una) < Modulus \div 2,
         seqno_gt(ackno, una), ~seqno_gt(ackno, nxt)
  PROVE  /\ Wrap(ackno - una) \in 1..Wrap(nxt - una)
         /\ Wrap(nxt - ackno) = Wrap(nxt - una) - Wrap(ackno - una)
<1>1. /\ Wrap(nxt - una) = IF nxt >= una THEN nxt - una ELSE nxt - una + Modulus
      /\ Wrap(ackno - una)
           = IF ackno >= una THEN ackno - una ELSE ackno - una + Modulus
      /\ Wrap(ackno - nxt)
           = IF ackno >= nxt THEN ackno - nxt ELSE ackno - nxt + Modulus
      /\ Wrap(nxt - ackno)
           = IF nxt >= ackno THEN nxt - ackno ELSE nxt - ackno + Modulus
  BY WrapCases, Zenon
<1> QED
  BY <1>1, HalfModulus DEF seqno_gt, seqno_lt, seqno_eq

\* So does the acknowledgement of the SYN, which covers one number.
LEMMA NextDistance ==
  ASSUME NEW nxt \in 0..(Modulus - 1), NEW una \in 0..(Modulus - 1),
         Wrap(nxt - una) >= 1
  PROVE  Wrap(nxt - Wrap(una + 1)) = Wrap(nxt - una) - 1
<1>1. Modulus \in Nat /\ Modulus > 2 /\ 1 \in 0..(Modulus - 1)
  BY HalfModulus
<1>2. /\ Wrap(nxt - una) = IF nxt >= una THEN nxt - una ELSE nxt - una + Modulus
      /\ Wrap(una + 1) = IF una + 1 < Modulus THEN una + 1 ELSE una + 1 - Modulus
  BY <1>1, WrapCases, Zenon
<1>3. Wrap(una + 1) \in 0..(Modulus - 1)
  BY <1>1, WrapRange
<1>4. Wrap(nxt - Wrap(una + 1))
        = IF nxt >= Wrap(una + 1) THEN nxt - Wrap(una + 1)
          ELSE nxt - Wrap(una + 1) + Modulus
  BY <1>1, <1>3, WrapCases, Zenon
<1> QED
  BY <1>1, <1>2, <1>4

-----------------------------------------------------------------------------
(* Sending.                                                                 *)

\* Sending twice is sending.
LEMMA SendsTwice ==
  ASSUME NEW f, NEW g, NEW h, Sends(f, g), Sends(g, h)
  PROVE  Sends(f, h)
  BY Zenon DEF Sends

\* A change of the control block that leaves the sequence numbers alone.
LEMMA SetPcbSends ==
  ASSUME NEW f, Good(f), NEW q, q.snd_una = f.pcb.snd_una,
         q.snd_nxt = f.pcb.snd_nxt
  PROVE  Sends(f, SetPcb(f, q))
<1> DEFINE g == SetPcb(f, q)
<1>1. Fields(g, f.state, q, f.tx, f.rx, f.life, f.callback, f.fault, f.out)
  BY WithPcb, Zenon DEF Good, SetPcb
<1> HIDE DEF g
<1>2. NoRst(f) => NoRst(g)
  BY <1>1, Zenon DEF Fields, NoRst
<1>3. Numbered(f) => Numbered(g)
  BY <1>1, Zenon DEF Fields, Numbered, Outstanding, InFlight, SynPending
<1>4. Sends(f, g)
  BY <1>1, <1>2, <1>3, Zenon DEF Fields, Sends
<1> QED
  BY <1>4, Zenon DEF g

\* A retransmission that finds no buffer only raises the fault.
LEMMA SetFaultSends ==
  ASSUME NEW f, Good(f), NEW x \in {"no_unacked", "off_chain"}
  PROVE  Sends(f, SetFault(f, x))
<1> DEFINE g == SetFault(f, x)
<1>1. Fields(g, f.state, f.pcb, f.tx, f.rx, f.life, f.callback, x, f.out)
  BY WithFault, Zenon DEF Good, SetFault
<1> HIDE DEF g
<1>2. NoRst(f) => NoRst(g)
  BY <1>1, Zenon DEF Fields, NoRst
<1>3. Numbered(f) => Numbered(g)
  BY <1>1, Zenon DEF Fields, Numbered, Outstanding, InFlight, SynPending
<1>4. Sends(f, g)
  BY <1>1, <1>2, <1>3, Zenon DEF Fields, Sends
<1> QED
  BY <1>4, Zenon DEF g

\* A packet that is no reset is appended to the output.
LEMMA EmittedSends ==
  ASSUME NEW f, Good(f), NEW h \in HdrType, h.flags # "RST"
  PROVE  Sends(f, Emitted(f, h))
<1> DEFINE g == Emitted(f, h)
<1>1. Fields(g, f.state, f.pcb, f.tx, f.rx, f.life, f.callback, f.fault,
             Append(f.out, h))
  BY WithOut, Zenon DEF Good, Emitted
<1>2. f.out \in Seq(HdrType)
  BY Zenon DEF Good, FlowFieldsOK
<1> HIDE DEF g
<1>3. NoRst(f) => NoRst(g)
  <2>1. g.out = Append(f.out, h)
    BY <1>1, Zenon DEF Fields
  <2>2. /\ Len(Append(f.out, h)) = Len(f.out) + 1
        /\ \A i \in 1..Len(f.out) : Append(f.out, h)[i] = f.out[i]
        /\ Append(f.out, h)[Len(f.out) + 1] = h
    BY <1>2
  <2> QED
    BY <1>2, <2>1, <2>2 DEF NoRst
<1>4. Numbered(f) => Numbered(g)
  BY <1>1, Zenon DEF Fields, Numbered, Outstanding, InFlight, SynPending
<1>5. Sends(f, g)
  BY <1>1, <1>3, <1>4, Zenon DEF Fields, Sends
<1> QED
  BY <1>5, Zenon DEF g

\* Some context, for the lemmas that ask for one.
LEMMA AnyContext == Context(<<>>, <<>>, 0)
  BY HalfModulus DEF Context

\* TransmitPackets moves the first unsent buffers and snd_nxt together.
LEMMA TransmitSends ==
  ASSUME NEW f, Good(f), Roomy(f), NEW ok \in BOOLEAN
  PROVE  Sends(f, TransmitPackets(f, ok))
<1> DEFINE n == TransmitCount(f)
           bufs == UnsentBufs(f.tx, n)
           pkts == [i \in 1..n |-> [flags |-> "DATA", buf |-> bufs[i],
                                    seqno |-> Wrap(f.pcb.snd_nxt + i - 1)]]
           tx == TakeUnsent(f.tx, n)
           a == advance_snd_nxt(f.pcb, n)
           q == IF rto_disabled(a) THEN rto_reset(a) ELSE a
           g == TransmitPackets(f, ok)
<1>1. /\ f.pcb \in PcbType /\ f.out \in Seq(HdrType)
      /\ f.tx \in TxType /\ TxOK(f.tx)
  BY Zenon DEF Good, FlowFieldsOK
<1>2. n \in Nat /\ n <= f.tx.num_unsent
  <2>1. effective_wnd(f.pcb) \in Nat
    BY <1>1, EffectiveWnd, Zenon
  <2> QED
    BY <2>1, <1>1 DEF TransmitCount, TxType
<1>3. CASE n = 0 \/ ~ok
  <2>1. g = f
    BY <1>3, Zenon DEF TransmitPackets
  <2> QED
    BY <2>1, Zenon DEF Sends
<1>4. CASE n # 0 /\ ok
  <2>1. g = [f EXCEPT !.tx = tx, !.out = f.out \o pkts, !.pcb = q]
    BY <1>4, Zenon DEF TransmitPackets
  <2>2. Fields(g, f.state, q, tx, f.rx, f.life, f.callback, f.fault,
               f.out \o pkts)
    <3> HIDE DEF n, pkts, tx, q, g
    <3> QED
      BY <2>1, Zenon DEF Good, FlowShape, Fields
  <2>3. a \in PcbType /\ a.snd_una = f.pcb.snd_una
        /\ a.snd_nxt = Wrap(f.pcb.snd_nxt + n)
    <3>1. f.pcb \in PcbType /\ n \in Int
      BY <1>1, <1>2
    <3> HIDE DEF n
    <3> QED
      BY ONLY <3>1, AdvanceOps, Zenon DEF a
  <2>4. q.snd_una = f.pcb.snd_una /\ q.snd_nxt = Wrap(f.pcb.snd_nxt + n)
    <3> HIDE DEF a
    <3> QED
      BY <2>3, TimerOps, Zenon DEF SameSeqnos
  <2>5. tx.chain = f.tx.chain /\ tx.num_unsent = f.tx.num_unsent - n
    <3> HIDE DEF n
    <3> QED
      BY <1>1, Zenon DEF TakeUnsent, TxType
  <2> HIDE DEF n, tx, q
  <2>6. NoRst(f) => NoRst(g)
    <3>1. \A i \in 1..n : pkts[i].flags = "DATA"
      BY Zenon
    <3>2. /\ Len(f.out \o pkts) = Len(f.out) + n
          /\ \A i \in 1..Len(f.out) : (f.out \o pkts)[i] = f.out[i]
          /\ \A i \in 1..n : (f.out \o pkts)[Len(f.out) + i] = pkts[i]
      <4>1. pkts \in Seq({pkts[i] : i \in 1..n}) /\ Len(pkts) = n
        BY <1>2
      <4> DEFINE U == HdrType \cup {pkts[i] : i \in 1..n}
      <4>2. f.out \in Seq(U) /\ pkts \in Seq(U)
        <5> HIDE DEF pkts
        <5> QED
          BY <1>1, <4>1
      <4> HIDE DEF pkts, U
      <4>3. /\ Len(f.out \o pkts) = Len(f.out) + Len(pkts)
            /\ \A i \in 1..Len(f.out) : (f.out \o pkts)[i] = f.out[i]
            /\ \A i \in 1..Len(pkts) : (f.out \o pkts)[Len(f.out) + i] = pkts[i]
        BY ONLY <4>2
      <4> QED
        BY ONLY <4>1, <4>3, Zenon
    <3> HIDE DEF pkts
    <3>3. g.out = f.out \o pkts
      BY <2>2, Zenon DEF Fields
    <3>4. Len(f.out) \in Nat
      BY <1>1
    <3>5. ASSUME NoRst(f), NEW j \in 1..(Len(f.out) + n)
          PROVE  (f.out \o pkts)[j].flags # "RST"
      <4>1. CASE j \in 1..Len(f.out)
        BY <3>2, <3>5, <4>1, Zenon DEF NoRst
      <4>2. CASE j \notin 1..Len(f.out)
        <5>1. j - Len(f.out) \in 1..n /\ Len(f.out) + (j - Len(f.out)) = j
          BY <1>2, <3>4, <4>2
        <5> QED
          BY <3>1, <3>2, <5>1, Zenon
      <4> QED
        BY <4>1, <4>2, Zenon
    <3> QED
      BY <3>2, <3>3, <3>5, Zenon DEF NoRst
  <2>7. Numbered(f) => Numbered(g)
    <3> SUFFICES ASSUME Numbered(f), g.state # "Closed"
                 PROVE  Outstanding(g) = InFlight(g) + SynPending(g)
      BY Zenon DEF Numbered
    <3>1. /\ f.tx.num_unsent \in Nat /\ Len(f.tx.chain) \in Nat
          /\ f.tx.num_unsent <= Len(f.tx.chain)
      BY <1>1, Zenon DEF TxOK, TxType
    <3>2. /\ SynPending(g) = SynPending(f) /\ SynPending(f) \in {0, 1}
          /\ f.state # "Closed"
      BY <2>2, Zenon DEF Fields, SynPending
    <3>3. InFlight(g) = InFlight(f) + n /\ InFlight(f) \in Nat
          /\ InFlight(f) + n <= Len(f.tx.chain)
      <4>1. Len(g.tx.chain) = Len(f.tx.chain)
            /\ g.tx.num_unsent = f.tx.num_unsent - n
        BY <2>2, <2>5, Zenon DEF Fields
      <4> QED
        BY <1>2, <3>1, <4>1, SMTT(20) DEF InFlight
    <3>4. Outstanding(f) = InFlight(f) + SynPending(f)
      BY <3>2, Zenon DEF Numbered
    <3>5. /\ f.pcb.snd_nxt \in 0..(Modulus - 1)
          /\ f.pcb.snd_una \in 0..(Modulus - 1)
      BY <1>1, Zenon DEF PcbType
    <3>6. Outstanding(f) + n < Modulus
      BY <1>2, <3>1, <3>2, <3>3, <3>4, HalfModulus, SMTT(20) DEF Roomy
    <3>7. Outstanding(g) = Wrap(Wrap(f.pcb.snd_nxt + n) - f.pcb.snd_una)
      BY <2>2, <2>4, Zenon DEF Fields, Outstanding
    <3>8. Outstanding(g) = Outstanding(f) + n
      BY <1>2, <3>5, <3>6, <3>7, AdvanceDistance, Zenon DEF Outstanding
    <3> QED
      BY <1>2, <3>2, <3>3, <3>4, <3>8
  <2>8. Len(g.tx.chain) = Len(f.tx.chain)
    BY <2>2, <2>5, Zenon DEF Fields
  <2> QED
    BY <2>2, <2>6, <2>7, <2>8, Zenon DEF Fields, Sends
<1> QED
  BY <1>3, <1>4, Zenon

\* So do the retransmissions, which change neither.
LEMMA SendDataSends ==
  ASSUME NEW f, Good(f), NEW i \in Nat \ {0}, NEW s \in 0..(Modulus - 1)
  PROVE  Sends(f, SendData(f, i, s)) /\ Good(SendData(f, i, s))
         /\ SendData(f, i, s).pcb = f.pcb
<1>0. Good(SendData(f, i, s)) /\ SendData(f, i, s).pcb = f.pcb
  BY SendDataOK, AnyContext, Zenon
<1>1. CASE i > Len(f.tx.chain)
  <2>1. ~(i <= Len(f.tx.chain))
    BY <1>1 DEF Good, FlowFieldsOK, TxType
  <2>2. PICK x \in {"no_unacked", "off_chain"} :
          SendData(f, i, s) = SetFault(f, x)
    BY <1>1, <2>1, Zenon DEF SendData, SetFault
  <2> QED
    BY <1>0, <2>2, SetFaultSends, Zenon
<1>2. CASE i <= Len(f.tx.chain)
  <2> DEFINE h == [flags |-> "DATA", seqno |-> s, buf |-> f.tx.chain[i]]
  <2>0. f.tx.chain \in Seq(BufType)
    BY Zenon DEF Good, FlowFieldsOK, TxType
  <2>1. ~(i > Len(f.tx.chain))
    BY <1>2, <2>0
  <2>2. SendData(f, i, s) = Emitted(f, h)
    BY <1>2, <2>1, Zenon DEF SendData, Emitted
  <2>3. h \in HdrType /\ h.flags # "RST"
    BY <1>2, <2>0 DEF HdrType
  <2> HIDE DEF h
  <2> QED
    BY <1>0, <2>2, <2>3, EmittedSends, Zenon
<1>3. Len(f.tx.chain) \in Nat
  BY DEF Good, FlowFieldsOK, TxType
<1> QED
  BY <1>1, <1>2, <1>3

\* So do control packets; what they say is what they were sent for.
LEMMA ControlSilent ==
  ASSUME NEW f, Good(f), NEW s, NEW flags \in {"SYN", "SYNACK", "RST"}
  PROVE  Silent(f) => Silent(SendControlPacket(f, s, flags))
<1> DEFINE h == [flags |-> flags, seqno |-> s, ackno |-> f.pcb.rcv_nxt,
                 sack |-> HdrBitmap(f.pcb), count |-> f.pcb.sack_bitmap_count]
           g == SendControlPacket(f, s, flags)
<1>1. h.flags = flags
  BY Zenon
<1>2. g = [f EXCEPT !.out = Append(f.out, h)]
  BY Zenon DEF SendControlPacket
<1> HIDE DEF h, g
<1>3. g.out = Append(f.out, h)
  BY <1>2, WithOut, Zenon DEF Good, Fields
<1>4. f.out \in Seq(HdrType)
  BY Zenon DEF Good, FlowFieldsOK
<1>5. /\ Len(Append(f.out, h)) = Len(f.out) + 1
      /\ \A i \in 1..Len(f.out) : Append(f.out, h)[i] = f.out[i]
      /\ Append(f.out, h)[Len(f.out) + 1] = h
  BY ONLY <1>4
<1>6. Len(f.out) \in Nat
  BY <1>4
<1>7. Silent(f) => Silent(g)
  BY <1>1, <1>3, <1>5, <1>6 DEF Silent
<1> QED
  BY <1>7, Zenon DEF g

\* A SYN, SYN-ACK or ACK.
LEMMA SendControlPacketSends ==
  ASSUME NEW f, Good(f), NEW s \in 0..(Modulus - 1),
         NEW flags \in {"SYN", "SYNACK", "ACK"}
  PROVE  /\ Sends(f, SendControlPacket(f, s, flags))
         /\ Good(SendControlPacket(f, s, flags))
         /\ SendControlPacket(f, s, flags).pcb = f.pcb
<1> DEFINE h == [flags |-> flags, seqno |-> s, ackno |-> f.pcb.rcv_nxt,
                 sack |-> HdrBitmap(f.pcb), count |-> f.pcb.sack_bitmap_count]
<1>1. f.pcb \in PcbType
  BY SMTT(20) DEF Good, FlowFieldsOK
<1>2. h \in HdrType /\ h.flags # "RST"
  BY <1>1, HdrBitmapType, Zenon DEF HdrType, PcbType
<1>3. SendControlPacket(f, s, flags) = Emitted(f, h)
  BY Zenon DEF SendControlPacket, Emitted
<1>4. /\ Good(SendControlPacket(f, s, flags))
      /\ SendControlPacket(f, s, flags).pcb = f.pcb
  BY SendControlPacketOK, ZenonT(30)
<1> HIDE DEF h
<1> QED
  BY <1>2, <1>3, <1>4, EmittedSends, Zenon

\* The retransmission on the third duplicate ACK.
LEMMA FastRetransmitSends ==
  ASSUME NEW f, Good(f)
  PROVE  Sends(f, FastRetransmit(f)) /\ Good(FastRetransmit(f))
<1> DEFINE d == SendData(f, 1, f.pcb.snd_una)
           q == rto_reset(d.pcb)
<1>1. f.pcb \in PcbType /\ f.pcb.snd_una \in 0..(Modulus - 1)
  BY Zenon DEF Good, FlowFieldsOK, PcbType
<1>2. Sends(f, d) /\ Good(d) /\ d.pcb = f.pcb
  BY <1>1, SendDataSends
<1>3. q.snd_una = d.pcb.snd_una /\ q.snd_nxt = d.pcb.snd_nxt
  BY <1>1, <1>2, TimerOps, Zenon DEF SameSeqnos
<1>4. FastRetransmit(f) = SetPcb(d, q)
  BY Zenon DEF FastRetransmit, SetPcb
<1>5. Good(FastRetransmit(f))
  BY FastRetransmitOK, AnyContext, Zenon
<1> HIDE DEF d, q
<1>6. Sends(d, SetPcb(d, q))
  BY <1>2, <1>3, SetPcbSends, Zenon
<1> QED
  BY <1>2, <1>4, <1>5, <1>6, SendsTwice, Zenon

\* The retransmission of a hole, or new data, on the later duplicate ACKs.
LEMMA FastRecoverySends ==
  ASSUME NEW f, Good(f), Roomy(f), NEW h, NEW ok \in BOOLEAN
  PROVE  Sends(f, FastRecovery(f, h, ok))
<1> DEFINE holes == Holes(h, f.pcb.duplicate_acks - kRexmitThreshold)
           hole == CHOOSE i \in holes : TRUE
           d == SendData(f, hole + 1, Wrap(f.pcb.snd_una + hole))
           q == rto_reset(d.pcb)
           ends == WalkEnds(h)
           last == CHOOSE i \in ends : \A j \in ends : i <= j
<1>0. f.pcb \in PcbType
  BY Zenon DEF Good, FlowFieldsOK
<1>1. f.pcb \in PcbType /\ f.pcb.snd_una \in Nat
  BY <1>0, HalfModulus DEF PcbType
<1>2. CASE holes # {}
  <2>1. hole \in Nat
    <3>1. holes \subseteq Nat
      BY SwiftAssumption DEF SwiftAssumption, Holes, HdrBits
    <3> HIDE DEF holes
    <3> QED
      BY <1>2, <3>1, Zenon
  <2> HIDE DEF hole
  <2>2. hole + 1 \in Nat \ {0} /\ f.pcb.snd_una + hole \in Int
    BY <1>1, <2>1
  <2>3. Wrap(f.pcb.snd_una + hole) \in 0..(Modulus - 1)
    BY <2>2, WrapRange, Zenon
  <2>4. Sends(f, d) /\ Good(d) /\ d.pcb = f.pcb
    BY <2>2, <2>3, SendDataSends, Zenon
  <2>5. q.snd_una = d.pcb.snd_una /\ q.snd_nxt = d.pcb.snd_nxt
    <3> HIDE DEF d
    <3> QED
      BY <1>1, <2>4, TimerOps, Zenon DEF SameSeqnos
  <2>6. FastRecovery(f, h, ok) = SetPcb(d, q)
    BY <1>2, Zenon DEF FastRecovery, SetPcb, hole
  <2> HIDE DEF d, q
  <2>7. Sends(d, SetPcb(d, q))
    BY <2>4, <2>5, SetPcbSends, Zenon
  <2> QED
    BY <2>4, <2>6, <2>7, SendsTwice, Zenon
<1>3. CASE holes = {} /\ (ends = {} \/ last > Len(f.tx.chain))
  <2>1. FastRecovery(f, h, ok) = SetFault(f, "off_chain")
    BY <1>3, Zenon DEF FastRecovery, SetFault
  <2> QED
    BY <2>1, SetFaultSends, Zenon
<1>4. CASE holes = {} /\ ~(ends = {} \/ last > Len(f.tx.chain))
  <2>1. FastRecovery(f, h, ok) = TransmitPackets(f, ok)
    BY <1>4, Zenon DEF FastRecovery
  <2> QED
    BY <2>1, TransmitSends, Zenon
<1> QED
  BY <1>2, <1>3, <1>4, Zenon

\* Sending leaves the length of the chain alone.
LEMMA SendsRoomy ==
  ASSUME NEW f, NEW g, Sends(f, g), Roomy(f)
  PROVE  Roomy(g)
  BY Zenon DEF Sends, Roomy

\* A duplicate ACK only makes the flow send.
LEMMA DuplicateAckSends ==
  ASSUME NEW f, Good(f), Roomy(f), NEW h, h.count \in 0..255,
         NEW ok \in BOOLEAN
  PROVE  Sends(f, DuplicateAck(f, h, ok))
<1> DEFINE q == [f.pcb EXCEPT !.duplicate_acks = @ + 1,
                              !.snd_ooo_acks = h.count]
           g == SetPcb(f, q)
           d == f.pcb.duplicate_acks + 1
<1>1. f.pcb \in PcbType /\ d \in Nat
  BY SMTT(60) DEF Good, FlowFieldsOK, PcbType
<1>2. /\ q \in PcbType /\ SameSeqnos(q, f.pcb)
      /\ q.rto_timer = f.pcb.rto_timer /\ q.duplicate_acks = d
  <2>1. q \in PcbType
    BY ONLY <1>1, h.count \in 0..255, ZenonT(60) DEF PcbType
  <2>2. /\ SameSeqnos(q, f.pcb)
        /\ q.rto_timer = f.pcb.rto_timer /\ q.duplicate_acks = d
    BY <1>1 DEF PcbType, SameSeqnos
  <2> QED
    BY <2>1, <2>2, Zenon
<1> HIDE DEF q
<1>3. f.life # "removed" => q.rto_timer < kRtoThresholdInTicks
  BY <1>2, Zenon DEF Good, TimerOK
<1>4. Good(g) /\ g.pcb = q /\ Sends(f, g) /\ Roomy(g)
  <2>1. Good(g) /\ g.pcb = q
    BY <1>2, <1>3, PcbChange, Zenon
  <2>2. Sends(f, g)
    BY <1>2, SetPcbSends, Zenon DEF SameSeqnos
  <2> QED
    BY <2>1, <2>2, SendsRoomy, Zenon
<1>5. [f EXCEPT !.pcb.duplicate_acks = @ + 1, !.pcb.snd_ooo_acks = h.count] = g
  BY <1>1, Zenon DEF Good, FlowShape, Fields, SetPcb, PcbType, q
<1> HIDE DEF g
<1>6. DuplicateAck(f, h, ok) =
        CASE d < kRexmitThreshold -> TransmitPackets(g, ok)
          [] d = kRexmitThreshold -> TransmitPackets(FastRetransmit(g), ok)
          [] d > kRexmitThreshold -> FastRecovery(g, h, ok)
  BY <1>2, <1>4, <1>5, Zenon DEF DuplicateAck
<1>7. kRexmitThreshold \in Nat
  BY SwiftAssumption, Zenon DEF SwiftAssumption
<1> HIDE DEF d
<1>8. CASE d < kRexmitThreshold
  <2>1. DuplicateAck(f, h, ok) = TransmitPackets(g, ok)
    BY <1>1, <1>6, <1>7, <1>8
  <2>2. Sends(g, TransmitPackets(g, ok))
    BY <1>4, TransmitSends, Zenon
  <2> QED
    BY <1>4, <2>1, <2>2, SendsTwice, Zenon
<1>9. CASE d = kRexmitThreshold
  <2>1. DuplicateAck(f, h, ok) = TransmitPackets(FastRetransmit(g), ok)
    BY <1>1, <1>6, <1>7, <1>9
  <2>2. Sends(g, FastRetransmit(g)) /\ Good(FastRetransmit(g))
    BY <1>4, FastRetransmitSends, Zenon
  <2>3. Sends(FastRetransmit(g), TransmitPackets(FastRetransmit(g), ok))
    BY <1>4, <2>2, SendsRoomy, TransmitSends, Zenon
  <2>4. Sends(f, FastRetransmit(g))
    BY <1>4, <2>2, SendsTwice, Zenon
  <2> QED
    BY <2>1, <2>3, <2>4, SendsTwice, Zenon
<1>10. CASE d > kRexmitThreshold
  <2>1. DuplicateAck(f, h, ok) = FastRecovery(g, h, ok)
    BY <1>1, <1>6, <1>7, <1>10
  <2>2. Sends(g, FastRecovery(g, h, ok))
    BY <1>4, FastRecoverySends, Zenon
  <2> QED
    BY <1>4, <2>1, <2>2, SendsTwice, Zenon
<1> QED
  BY <1>1, <1>7, <1>8, <1>9, <1>10, SMTT(20)

\* So does the timer, which sends no data before the flow is established.
LEMMA RTORetransmitSends ==
  ASSUME NEW f, Good(f), f.state # "Closed"
  PROVE  LET g == RTORetransmit(SetPcb(f, rto_advance(f.pcb)))
         IN  Sends(f, g) /\ (f.state # "Established" /\ Silent(f) => Silent(g))
<1> DEFINE q == rto_advance(f.pcb)
           p == SetPcb(f, q)
           z == Again(rto_reset(q))
           una == f.pcb.snd_una
           g == RTORetransmit(p)
<1>0. f.pcb \in PcbType /\ FlowShape(f) /\ una \in 0..(Modulus - 1)
  BY Zenon DEF Good, FlowFieldsOK, PcbType
<1>1. z.snd_una = f.pcb.snd_una /\ z.snd_nxt = f.pcb.snd_nxt /\ q.snd_una = una
  BY <1>0, Zenon DEF PcbType, rto_advance, rto_reset, Again
<1>2. p.state = f.state /\ p.pcb = q
  BY <1>0, WithPcb, Zenon DEF SetPcb, Fields
<1> HIDE DEF z
<1>3. CASE f.state = "Established"
  <2> DEFINE x == SendData(p, 1, una)
             y == SendData(f, 1, una)
  <2>1. x.pcb = q /\ SetPcb(x, z) = SetPcb(y, z)
    BY SendAnyTimer, Zenon
  <2>2. g = SetPcb(x, z)
    <3>1. g = SetPcb(x, Again(rto_reset(x.pcb)))
      BY <1>1, <1>2, <1>3, Zenon DEF RTORetransmit, SetPcb, Again
    <3> QED
      BY <2>1, <3>1, Zenon DEF z
  <2>3. Sends(f, y) /\ Good(y) /\ y.pcb = f.pcb
    BY <1>0, SendDataSends
  <2> HIDE DEF x, y, g
  <2>4. Sends(y, SetPcb(y, z))
    BY <1>1, <2>3, SetPcbSends, Zenon
  <2>5. Sends(f, g)
    BY <2>1, <2>2, <2>3, <2>4, SendsTwice, Zenon
  <2> QED
    BY <1>3, <2>5, Zenon DEF g
<1>4. ASSUME NEW flags \in {"SYN", "SYNACK"},
             g = SetPcb(SendControlPacket(p, una, flags),
                        Again(rto_reset(SendControlPacket(p, una, flags).pcb)))
      PROVE  Sends(f, g) /\ (Silent(f) => Silent(g))
  <2> DEFINE x == SendControlPacket(p, una, flags)
             y == SendControlPacket(f, una, flags)
  <2>1. x.pcb = q /\ SetPcb(x, z) = SetPcb(y, z)
    BY SendAnyTimer
  <2>2. g = SetPcb(x, z)
    BY <1>4, <2>1, Zenon DEF z
  <2>3. Sends(f, y) /\ Good(y) /\ y.pcb = f.pcb /\ (Silent(f) => Silent(y))
    BY <1>0, SendControlPacketSends, ControlSilent, Zenon
  <2> HIDE DEF x, y, g
  <2>4. Sends(y, SetPcb(y, z))
    BY <1>1, <2>3, SetPcbSends, Zenon
  <2>5. SetPcb(y, z).out = y.out
    BY <2>3, WithPcb, Zenon DEF Good, SetPcb, Fields
  <2>6. Silent(y) => Silent(SetPcb(y, z))
    BY <2>5, Zenon DEF Silent
  <2> QED
    BY <2>1, <2>2, <2>3, <2>4, <2>6, SendsTwice, Zenon
<1>5. CASE f.state = "SynReceived"
  BY <1>1, <1>2, <1>4, <1>5, Zenon DEF RTORetransmit, SetPcb, Again, SendSynAck
<1>6. CASE f.state = "SynSent"
  BY <1>1, <1>2, <1>4, <1>6, Zenon DEF RTORetransmit, SetPcb, Again, SendSyn
<1> QED
  BY <1>3, <1>5, <1>6, Zenon DEF Good, FlowFieldsOK

=============================================================================
