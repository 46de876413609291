----------------------------- MODULE Reassembly -----------------------------
(***************************************************************************)
(* RXTracking of one established flow, fed with the packets of its peer in *)
(* any order: a sender that numbers its buffers 1, 2, 3, ... may have any  *)
(* of those near rcv_nxt in flight, several times. Sequence numbers wrap   *)
(* at Modulus.                                                             *)
(***************************************************************************)
EXTENDS RxTracking, SequencesExt

CONSTANTS
  MsgLen,     \* buffers of each message
  Window,     \* packets in flight ahead of and behind rcv_nxt
  MaxBuffers  \* the sender stops after this many

ASSUME ReassemblyAssumption ==
  {MsgLen, Window, MaxBuffers} \subseteq Nat \ {0}

VARIABLES
  pcb, rx,    \* the control block and the RXTracking of the flow
  taken       \* messages the application has dequeued, in order

vars == <<pcb, rx, taken>>

\* The n-th buffer of the sender, and the packet that carries it.
Buffer(n) == [msg |-> ((n - 1) \div MsgLen) + 1,
              pos |-> ((n - 1) % MsgLen) + 1, len |-> MsgLen]
Seqno(n) == Wrap(n)

\* What the application got or will get of what was accepted so far.
Accepted == FlattenSeq(taken \o rx.ring) \o rx.train

\* The state after the handshake: the SYN had number 0.
Init ==
  /\ pcb = [InitPcb EXCEPT !.rcv_nxt = 1, !.snd_nxt = 1, !.snd_una = 1]
  /\ rx = InitRx
  /\ taken = <<>>

Arrive(n, ok) ==
  LET r == Consume(pcb, rx, Seqno(n), Buffer(n), ok)
  IN  /\ ~rx.fatal
      /\ pcb' = r.pcb /\ rx' = r.rx
      /\ UNCHANGED taken

AppRecv ==
  /\ rx.ring # <<>>
  /\ taken' = Append(taken, Head(rx.ring))
  /\ rx' = [rx EXCEPT !.ring = Tail(@)]
  /\ UNCHANGED pcb

InFlight == {n \in 1..MaxBuffers : /\ n > Len(Accepted) - Window
                                   /\ n <= Len(Accepted) + Window}

Next == \/ \E n \in InFlight, ok \in BOOLEAN : Arrive(n, ok)
        \/ AppRecv

Spec == Init /\ [][Next]_vars

-----------------------------------------------------------------------------
\* Consume delivers the sender's stream: nothing lost, swapped or duplicated,
\* whatever the arrival order.
AcceptedInOrder ==
  \A n \in 1..Len(Accepted) : Accepted[n] = Buffer(n)

\* "Upon pushing this packet to the RX queue, the reassembly queue should be
\* flushed because all gaps are filled till this point." (flow_test.cc:431-433):
\* no packet stays in the queue once everything before it has arrived.
GapFilledFlushes ==
  ~rx.fatal => \A i \in 1..Len(rx.reass_q) : rx.reass_q[i].seqno # pcb.rcv_nxt

=============================================================================
