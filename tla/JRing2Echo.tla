----------------------------- MODULE JRing2Echo -----------------------------
(***************************************************************************)
(* Two threads on a pair of rings of jring2.h, as in tools/jring2_perf: a  *)
(* producer keeps kWindowSize requests under way, and a consumer sends     *)
(* each one back. Or, to try the other calls, a writer and a reader that   *)
(* use one ring as they like.                                              *)
(***************************************************************************)
EXTENDS JRing2

CONSTANTS
  kWindowSize,
  MaxRequests,  \* bound: the requests of the producer
  MaxPut        \* bound: the elements of the free writer

ASSUME EchoAssumption ==
  /\ kWindowSize \in 1..mask  \* 16 requests, rings of 1024 slots
  /\ {MaxRequests, MaxPut} \subseteq Nat
  /\ Rings2 = {"p2c", "c2p"}

VARIABLE echo  \* mode, the producer's pc, seq_num and inflight_requests, the
               \* consumer's pc and message, and how the process ended

vars2 == <<ring2, echo>>

EchoInit(mode) ==
  /\ ring2 = [q \in Rings2 |-> jring2_init]
  /\ echo = [mode |-> mode, ppc |-> "top", seq_num |-> 0, inflight |-> 0,
             cpc |-> "top", msg |-> 0, exit |-> "no"]

Running2 == echo.mode = "echo" /\ echo.exit = "no"
Done(s) == s.r.pc = "idle"

-----------------------------------------------------------------------------
\* g_stop ends the process from the head of either loop.
Interrupt ==
  /\ Running2 /\ "top" \in {echo.ppc, echo.cpc}
  /\ echo' = [echo EXCEPT !.exit = "stop"]
  /\ UNCHANGED ring2

\* With a full window, wait for an answer: poll until there is one.
ProducerThread ==
  /\ Running2
  /\ \/ /\ echo.ppc = "top"
        /\ echo' = [echo EXCEPT !.ppc = IF echo.inflight = kWindowSize THEN "poll"
                                        ELSE "issue"]
        /\ UNCHANGED ring2
     \/ /\ echo.ppc = "poll" /\ jring2_dequeue_burst("c2p", 1)
        /\ echo' = [echo EXCEPT !.ppc = "answer"]
     \/ /\ echo.ppc = "answer" /\ Done(ring2["c2p"])
        /\ LET out == ring2["c2p"].r.out
           IN echo' = IF out = <<>> THEN [echo EXCEPT !.ppc = "poll"]
                      ELSE IF out # <<<<echo.seq_num, echo.seq_num>>>>
                      THEN [echo EXCEPT !.exit = "mismatch"]
                      ELSE [echo EXCEPT !.ppc = "issue", !.seq_num = @ + 1,
                                        !.inflight = @ - 1]
        /\ UNCHANGED ring2
     \/ /\ echo.ppc = "issue" /\ echo.seq_num + echo.inflight < MaxRequests
        /\ jring2_enqueue_bulk("p2c", <<echo.seq_num + echo.inflight>>)
        /\ echo' = [echo EXCEPT !.ppc = "sent"]
     \/ /\ echo.ppc = "sent" /\ ring2["p2c"].w.pc = "idle"
        /\ echo' = [echo EXCEPT !.ppc = "top", !.inflight = @ + 1]
        /\ UNCHANGED ring2

ConsumerThread ==
  /\ Running2
  /\ \/ /\ echo.cpc \in {"top", "poll"} /\ jring2_dequeue_burst("p2c", 1)
        /\ echo' = [echo EXCEPT !.cpc = "request"]
     \/ /\ echo.cpc = "request" /\ Done(ring2["p2c"])
        /\ LET out == ring2["p2c"].r.out
           IN echo' = IF out = <<>> THEN [echo EXCEPT !.cpc = "poll"]
                      ELSE [echo EXCEPT !.cpc = "reply", !.msg = out[1][1]]
        /\ UNCHANGED ring2
     \/ /\ echo.cpc = "reply" /\ jring2_enqueue_bulk("c2p", <<echo.msg>>)
        /\ echo' = [echo EXCEPT !.cpc = "replied"]
     \/ /\ echo.cpc = "replied" /\ ring2["c2p"].w.pc = "idle"
        /\ echo' = IF ring2["c2p"].w.ret = 1 THEN [echo EXCEPT !.cpc = "top"]
                   ELSE [echo EXCEPT !.exit = "enqueue"]
        /\ UNCHANGED ring2

-----------------------------------------------------------------------------
\* Calls in any order: enqueue of one or more, count, bursts.
FreeCall ==
  /\ echo.mode = "free" /\ UNCHANGED echo
  /\ \/ LET put == Len(ring2["p2c"].put)
        IN \/ put < MaxPut /\ jring2_enqueue("p2c", put + 1)
           \/ \E n \in 2..3 :
                /\ put + n <= MaxPut
                /\ jring2_enqueue_bulk("p2c", [k \in 1..n |-> put + k])
     \/ jring2_count("p2c")
     \/ \E n \in 1..2 : jring2_dequeue_burst("p2c", n)

\* The threads inside their calls.
WriterStep(q) == echo.exit = "no" /\ jring2_insert(q) /\ UNCHANGED echo
ReaderStep(q) == echo.exit = "no" /\ jring2_dequeue(q) /\ UNCHANGED echo

Next2 ==
  \/ Interrupt \/ ProducerThread \/ ConsumerThread \/ FreeCall
  \/ \E q \in Rings2 : WriterStep(q) \/ ReaderStep(q)

-----------------------------------------------------------------------------
\* The producer gets an answer to every request that it waits for, the right
\* one and in order, or the process is interrupted: it never exits with "val
\* mismatch" or "enqueue failed", and the two threads never wait for each other.
EchoAnswered ==
  (Running2 /\ echo.ppc = "poll") ~> (echo.ppc = "issue" \/ echo.exit = "stop")
=============================================================================
