------------------------------ MODULE MCJRing ------------------------------
EXTENDS JRing, JRing2Echo

CONSTANTS p1, p2, c1, c2

Ring(users, single, variable, batches, enqs, deqs) ==
  [users |-> users, single |-> single, fixed |-> {"prod", "cons"},
   variable |-> variable, batches |-> batches,
   enqs |-> enqs, deqs |-> deqs]

\* How the rings of a channel are used: the buffer ring, shared by all; the
\* ring from the threads of the application to the one engine; the ring from
\* the engine to the application, with the calls made (_sp_ and _sc_) and with
\* those its flags declare (several consumers). Both sides make _bulk calls;
\* consumers also make _burst calls, and producers do on the third ring, which
\* no code of the repository does though jring.h offers it.
ChannelRings ==
  {Ring({p1, p2, c1, c2}, {}, {"cons"}, {1, 3}, 2, 2),
   Ring({p1, p2, c1}, {"cons"}, {"cons"}, {1, 3}, 2, 2),
   Ring({p1, c1}, {"prod", "cons"}, {"prod", "cons"}, {1, 3}, 3, 3),
   Ring({p1, c1, c2}, {"prod"}, {"cons"}, {1, 3}, 3, 2)}

\* No jring: a pair of jring2 is used instead.
NoRing == Ring({}, {}, {}, {1}, 0, 0)
AllRings == ChannelRings \cup {NoRing}

\* One kind of ring at a time. The threads of either keep running once they are
\* in a call, and so do those of the echo program.
RingsInit ==
  /\ Init
  /\ \E mode \in IF setup = NoRing THEN {"free", "echo"} ELSE {"off"} : EchoInit(mode)

RingsNext == (Next /\ UNCHANGED vars2) \/ (Next2 /\ UNCHANGED vars)

RingsSpec ==
  /\ RingsInit /\ [][RingsNext]_<<vars, vars2>>
  /\ \A t \in Threads : WF_vars(Continue(t) /\ UNCHANGED vars2)
  /\ WF_vars2(ProducerThread /\ UNCHANGED vars)
  /\ WF_vars2(ConsumerThread /\ UNCHANGED vars)
  /\ \A q \in Rings2 : /\ WF_vars2(WriterStep(q) /\ UNCHANGED vars)
                       /\ WF_vars2(ReaderStep(q) /\ UNCHANGED vars)
=============================================================================
