------------------------------ MODULE FlowInv ------------------------------
(***************************************************************************)
(* The inductive invariant behind the safety properties of Flow: how the   *)
(* sequence numbers of the two control blocks, the chains, the reassembly  *)
(* queues and the packets in flight relate to the two submitted streams.   *)
(* st stands for the stream of the end itself, peer_st for the stream of   *)
(* its peer. StreamInv is about the two ends together, SenderInv about    *)
(* what TXTracking and the Pcb of one end know of each other.              *)
(***************************************************************************)
EXTENDS Flow

\* The two pointers and two counters of TXTracking describe one chain, whose
\* unsent part is a suffix. (Holds in every state.)
TxOK(t) ==
  /\ t.num_tracked = Len(t.chain)
  /\ t.num_unsent <= Len(t.chain)
  /\ t.oldest_unsent = IF t.num_unsent = 0 THEN 0
                       ELSE Len(t.chain) - t.num_unsent + 1

\* The timer of a live flow has not run out.
TimerOK(f) ==
  f.life # "removed" => f.pcb.rto_timer < kRtoThresholdInTicks

\* The chain is what is left of the stream.
IsRest(chain, st) ==
  /\ Len(chain) <= Len(st)
  /\ \A i \in 1..Len(chain) : chain[i] = st[Len(st) - Len(chain) + i]

\* Before the SYN of this end is acknowledged nothing was sent or received.
Opening(f, st) ==
  /\ f.state # "Established"
  /\ f.pcb.snd_una = 0
  /\ f.pcb.snd_nxt \in {0, 1} /\ f.pcb.rcv_nxt \in {0, 1}
  /\ f.state = "SynSent" => f.pcb.snd_nxt = 1 /\ f.pcb.rcv_nxt = 0
  /\ f.state = "SynReceived" => f.pcb.snd_nxt = 1 /\ f.pcb.rcv_nxt = 1
  /\ f.life = "absent" => f.pcb = InitPcb /\ f.state = "Closed"
  /\ f.callback # "up" /\ st = <<>>
  /\ f.rx.reass_q = <<>> /\ f.rx.ring = <<>> /\ f.rx.accepted = <<>>

\* Afterwards the sequence numbers count the buffers of the streams.
Open(f, st) ==
  /\ f.state \in {"Established", "Closed"} /\ f.life # "absent"
  /\ f.pcb.snd_una = Len(st) - Len(f.tx.chain) + 1
  /\ f.pcb.snd_nxt = Len(st) - f.tx.num_unsent + 1
  /\ f.pcb.rcv_nxt = Len(f.rx.accepted) + 1

SndOK(f, st) == IsRest(f.tx.chain, st) /\ (Opening(f, st) \/ Open(f, st))

\* What was accepted or is queued is what the peer submitted, and the
\* application is only given what was accepted.
RcvOK(rx, peer_st) ==
  /\ rx.accepted = <<>> => rx.ring = <<>>
  /\ Len(rx.accepted) <= Len(peer_st)
  /\ \A i \in 1..Len(rx.accepted) : rx.accepted[i] = peer_st[i]
  /\ \A i \in 1..Len(rx.reass_q) :
       LET q == rx.reass_q[i]
       IN  q.seqno \in 1..Len(peer_st) /\ q.buf = peer_st[q.seqno]

\* A header sent by an end with stream st, whose rcv_nxt is r by now.
HdrOK(h, st, r) ==
  IF h.flags = "DATA" THEN h.seqno \in 1..Len(st) /\ h.buf = st[h.seqno]
  ELSE h.ackno <= r /\ (h.flags \in {"SYN", "SYNACK"} => h.seqno = 0)

\* What was released was acknowledged by the peer, whose rcv_nxt is r.
AckedOK(f, st, r) == Len(st) - Len(f.tx.chain) # 0 => f.pcb.snd_una <= r

EndOK(f, st, peer_st, r) ==
  /\ SndOK(f, st) /\ RcvOK(f.rx, peer_st) /\ AckedOK(f, st, r)

\* The streams stay within half of the sequence space, and as
\* long as no flow was opened a second time both ends are consistent.
StreamInv ==
  /\ \A e \in Ends : TxOK(flow[e].tx) /\ TimerOK(flow[e])
                     /\ flow[e].out = <<>>
                     /\ Len(stream[e]) + 1 < Modulus \div 2
  /\ reopened = {} =>
       /\ \A e \in Ends :
            /\ EndOK(flow[e], stream[e], stream[Peer(e)],
                     flow[Peer(e)].pcb.rcv_nxt)
            /\ recvd[e] # <<>> => flow[e].pcb.rcv_nxt > 1
       /\ \A p \in BagToSet(net) :
            HdrOK(p.hdr, stream[Peer(p.to)], flow[Peer(p.to)].pcb.rcv_nxt)

-----------------------------------------------------------------------------
(* One sender, also when the other end was reset and opened again.          *)

\* The number that the SYN takes until it is acknowledged, and the buffers sent
\* and not acknowledged.
SynPending(f) == IF f.state \in {"SynSent", "SynReceived"} THEN 1 ELSE 0
InFlight(f) == Len(f.tx.chain) - f.tx.num_unsent
Outstanding(f) == Wrap(f.pcb.snd_nxt - f.pcb.snd_una)

Numbered(f) == f.state # "Closed" => Outstanding(f) = InFlight(f) + SynPending(f)

\* An end whose flow was not opened a second time keeps the relation, and
\* ReceiveAcks fails only for a flow that is closed.
SenderOK(e) ==
  e \notin reopened =>
    Numbered(flow[e]) /\ (flow[e].fault = "over_ack" => flow[e].state = "Closed")

\* A flow that was not created yet.
Fresh(f) ==
  f.life = "absent" => /\ f.pcb = InitPcb /\ f.tx = InitTx
                       /\ f.state = "Closed" /\ f.fault = "none"

\* Until the client has the SYN-ACK there is neither data nor an ACK.
Unanswered == flow["client"].life = "absent" \/ flow["client"].state = "SynSent"
Quiet ==
  Unanswered =>
    /\ flow["server"].state \notin {"Established", "SynSent"}
    /\ flow["server"].rx.ring = <<>> /\ recvd["server"] = <<>>
    /\ flow["client"].callback # "up"
    /\ \A p \in BagToSet(net) : p.hdr.flags \notin {"ACK", "DATA"}

\* Where no channel goes away no flow is ever reset.
NoReset ==
  MaxShutDowns = 0 =>
    /\ reopened = {}
    /\ \A e \in Ends : flow[e].state = "Closed" => flow[e].life = "absent"
    /\ \A p \in BagToSet(net) : p.hdr.flags # "RST"

SenderInv ==
  /\ \A e \in Ends : /\ SenderOK(e) /\ Fresh(flow[e])
                      /\ Len(flow[e].tx.chain) <= Len(stream[e])
  /\ flow["server"].state # "SynSent" /\ Quiet /\ NoReset

-----------------------------------------------------------------------------
(* One receiver: what it has handed over, in terms of the peer's stream.    *)

\* Of the first a buffers of st, how many messages they complete, and how many
\* buffers of the next one there are.
Whole(st, a) == IF a = 0 THEN 0
                ELSE IF is_last(st[a]) THEN st[a].msg ELSE st[a].msg - 1
Part(st, a)  == IF a = 0 \/ is_last(st[a]) THEN 0 ELSE st[a].pos

\* The first n buffers of message m of e.
Train(e, m, n) ==
  [i \in 1..n |-> [msg |-> m, pos |-> i, len |-> Workload(e)[m]]]

\* st is made of the buffers of the first n messages of e, one after another.
Laid(e, st, n) ==
  /\ n <= Len(Workload(e))
  /\ \A a \in 0..(Len(st) - 1) :
       LET m == Whole(st, a) + 1
       IN  m \in 1..n /\ st[a + 1] = [msg |-> m, pos |-> Part(st, a) + 1,
                                     len |-> Workload(e)[m]]
  /\ Whole(st, Len(st)) = n /\ Part(st, Len(st)) = 0

\* Of the first a buffers of e's stream st the complete messages were handed
\* over, rc to the application and the others to d.ring, and d.train holds the
\* rest. (When the ring was full the process ended in the middle of that.)
Handed(e, st, a, rc, d) ==
  \E k \in 0..Whole(st, a) :
    /\ rc \o d.ring = [m \in 1..k |-> Message(e, m)]
    /\ ~d.fatal => k = Whole(st, a) /\ d.train = Train(e, k + 1, Part(st, a))

DeliveryFields(d) ==
  /\ d.train \in Seq(BufType) /\ d.ring \in Seq(Seq(BufType))
  /\ d.fatal \in BOOLEAN

DeliveryInv ==
  /\ \A e \in Ends : Laid(e, stream[e], sent[e])
  /\ reopened = {} =>
       /\ recvd \in [Ends -> Seq(Seq(BufType))]
       /\ \A e \in Ends :
            /\ DeliveryFields(flow[e].rx)
            /\ Handed(Peer(e), stream[Peer(e)], Len(flow[e].rx.accepted),
                      recvd[e], flow[e].rx)

FlowInv == StreamInv /\ SenderInv /\ DeliveryInv
=============================================================================
