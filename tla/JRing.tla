------------------------------- MODULE JRing -------------------------------
(***************************************************************************)
(* jring (src/ext/jring.h, src/ext/jring_elem_private.h): the lock-free    *)
(* ring in shared memory between applications and the Machnet process. One *)
(* action per atomic access: load the head, load the other side's tail and *)
(* decide, compare-and-swap the head, copy one element, store the tail.    *)
(* The two sides run the same code with the roles of the tails exchanged.  *)
(* Accesses are sequentially consistent in the model.                      *)
(***************************************************************************)
EXTENDS Integers, Sequences, Functions

CONSTANTS
  Producers, Consumers,  \* threads
  Setups,        \* how rings are used: see setup
  Size,          \* slots of the ring, a power of two
  CtrMod,        \* 2^32: heads and tails are uint32_t
  Start          \* operations done before, on a ring that is empty again

Threads == Producers \cup Consumers

ASSUME JRingAssumption ==
  /\ Producers \cap Consumers = {}
  /\ \A u \in Setups :
       /\ u.users \subseteq Threads
       /\ "prod" \in u.single => \E t \in Producers : u.users \cap Producers = {t}
       /\ "cons" \in u.single => \E t \in Consumers : u.users \cap Consumers = {t}
       /\ u.fixed \cup u.variable \subseteq {"prod", "cons"}
       /\ u.batches \subseteq Nat \ {0} /\ {u.enqs, u.deqs} \subseteq Nat
  /\ {Size, CtrMod} \subseteq Nat \ {0} /\ CtrMod % Size = 0 /\ Size < CtrMod
  /\ Start \in 0..(CtrMod - 1)

VARIABLES
  setup,    \* the threads that use the ring, the sides that make the _sp_ or
            \* _sc_ calls, those that make _bulk (fixed) and _burst (variable)
            \* calls, the batch sizes, and how many calls each side makes
  ht,       \* ht[side]: [head, tail] of the producers and of the consumers
  slots,    \* the elements in the ring's memory
  thr,      \* thr[t]: the local variables of the call thread t is in
  claimed,  \* every element a producer reserved a slot for, in order (history)
  taken     \* how many of them consumers have reserved (history)

vars == <<setup, ht, slots, thr, claimed, taken>>

Wrap(n) == n % CtrMod
capacity == Size - 1

Side(t)  == IF t \in Producers THEN "prod" ELSE "cons"
Other(s) == IF s = "prod" THEN "cons" ELSE "prod"

\* Element k of call c of a producer.
Element(t, c, k) == <<t, c, k>>
Elements == Producers \X Nat \X Nat
Stale == <<>>

\* jring_init, or the state that Start operations later leave behind.
Init ==
  /\ setup \in Setups
  /\ ht = [s \in {"prod", "cons"} |-> [head |-> Start, tail |-> Start]]
  /\ slots = [i \in 0..(Size - 1) |-> Stale]
  /\ thr = [t \in Threads |-> [pc |-> "idle", calls |-> 0, max |-> 0,
                               fixed |-> TRUE, old |-> 0, n |-> 0, at |-> 0,
                               got |-> <<>>]]
  /\ claimed = <<>> /\ taken = 0

-----------------------------------------------------------------------------
\* Where in the queue the head of a thread's own side is (history).
Place(t) == IF t \in Producers THEN Len(claimed) ELSE taken

\* A call: load the head of the own side.
Calls(set) == FoldFunctionOnSet(LAMBDA f, n : f.calls + n, 0, thr, set)

\* The sp_ and sc_ calls, in place of the mp_ and mc_ ones.
Single(t) == Side(t) \in setup.single

MayCall(t) ==
  /\ t \in setup.users /\ thr[t].pc = "idle"
  /\ t \in Producers => Calls(Producers) < setup.enqs
  /\ t \in Consumers => Calls(Consumers) < setup.deqs

Load(t, n, fixed) ==
  /\ MayCall(t)
  /\ thr' = [thr EXCEPT ![t].pc = "check", ![t].calls = @ + 1, ![t].max = n,
                        ![t].fixed = fixed,
                        ![t].old = ht[Side(t)].head, ![t].at = Place(t),
                        ![t].got = <<>>]
  /\ UNCHANGED <<setup, ht, slots, claimed, taken>>

\* The bulk calls are JRING_QUEUE_FIXED, the burst calls JRING_QUEUE_VARIABLE.
jring_enqueue_bulk(t, n) ==
  t \in Producers /\ "prod" \in setup.fixed /\ Load(t, n, TRUE)
jring_enqueue_burst(t, n) ==
  t \in Producers /\ "prod" \in setup.variable /\ Load(t, n, FALSE)
jring_dequeue_bulk(t, n) ==
  t \in Consumers /\ "cons" \in setup.fixed /\ Load(t, n, TRUE)
jring_dequeue_burst(t, n) ==
  t \in Consumers /\ "cons" \in setup.variable /\ Load(t, n, FALSE)

Call(t) ==
  \E n \in setup.batches :
    \/ jring_enqueue_bulk(t, n) \/ jring_enqueue_burst(t, n)
    \/ jring_dequeue_bulk(t, n) \/ jring_dequeue_burst(t, n)

\* Load the other side's tail: how much room (or how many entries) there is.
\* (Mutation: the other side's head in place of its tail.)
Room_head(t) ==
  IF t \in Producers THEN Wrap(capacity + ht["cons"].head - thr[t].old)
  ELSE Wrap(ht["prod"].head - thr[t].old)

Room(t) ==
  IF t \in Producers THEN Wrap(capacity + ht["cons"].tail - thr[t].old)
  ELSE Wrap(ht["prod"].tail - thr[t].old)

BatchSize(t) ==
  IF thr[t].max <= Room(t) THEN thr[t].max
  ELSE IF thr[t].fixed THEN 0 ELSE Room(t)

Check(t) ==
  /\ thr[t].pc = "check"
  /\ thr' = [thr EXCEPT ![t].n = BatchSize(t),
                        ![t].pc = IF BatchSize(t) = 0 THEN "idle" ELSE "move"]
  /\ UNCHANGED <<setup, ht, slots, claimed, taken>>

\* The compare-and-swap of the head; when it fails it reloads the head. The
\* single-threaded variants store without looking.
\* (Mutation: a retry with the head read before.)
Reload_none(t) == thr[t].old

Reload(t) == ht[Side(t)].head
Moved(t) == Single(t) \/ ht[Side(t)].head = thr[t].old

MoveHead(t) ==
  LET f == thr[t]
      s == Side(t)
  IN  /\ f.pc = "move"
      /\ \/ /\ Moved(t)
            /\ ht' = [ht EXCEPT ![s].head = Wrap(f.old + f.n)]
            /\ IF s = "prod"
                 THEN /\ claimed' = claimed \o
                           [k \in 1..f.n |-> Element(t, f.calls, k)]
                      /\ UNCHANGED taken
                 ELSE /\ taken' = taken + f.n
                      /\ UNCHANGED claimed
            /\ thr' = [thr EXCEPT ![t].pc = "copy", ![t].at = Place(t)]
         \/ /\ ~Moved(t)
            /\ thr' = [thr EXCEPT ![t].old = Reload(t), ![t].at = Place(t),
                                  ![t].pc = "check"]
            /\ UNCHANGED <<ht, claimed, taken>>
      /\ UNCHANGED <<setup, slots>>

\* Copy one element. got is what a thread has copied.
Slot(t, k) == (thr[t].old + k - 1) % Size

Copied(t, e) ==
  thr' = [thr EXCEPT ![t].got = Append(@, e),
                     ![t].pc = IF Len(thr[t].got) + 1 = thr[t].n THEN "update"
                               ELSE "copy"]

enqueue_elems(t) ==
  LET k == Len(thr[t].got) + 1
      e == Element(t, thr[t].calls, k)
  IN  /\ t \in Producers
      /\ slots' = [slots EXCEPT ![Slot(t, k)] = e]
      /\ Copied(t, e)

dequeue_elems(t) ==
  /\ t \in Consumers
  /\ Copied(t, slots[Slot(t, Len(thr[t].got) + 1)])
  /\ UNCHANGED slots

Copy(t) ==
  /\ thr[t].pc = "copy"
  /\ enqueue_elems(t) \/ dequeue_elems(t)
  /\ UNCHANGED <<setup, ht, claimed, taken>>

\* Wait for the calls that moved the head before, then store the tail.
\* (Mutation: no waiting.)
TailIsOurs_always(t) == TRUE

TailIsOurs(t) == Single(t) \/ ht[Side(t)].tail = thr[t].old

UpdateTail(t) ==
  LET s == Side(t)
  IN  /\ thr[t].pc = "update"
      /\ TailIsOurs(t)
      /\ ht' = [ht EXCEPT ![s].tail = Wrap(thr[t].old + thr[t].n)]
      /\ thr' = [thr EXCEPT ![t].pc = "idle"]
      /\ UNCHANGED <<setup, slots, claimed, taken>>

\* What a thread does on its own once it is in a call.
Continue(t) == Check(t) \/ MoveHead(t) \/ Copy(t) \/ UpdateTail(t)

Next == \E t \in Threads : Call(t) \/ Continue(t)

Spec == Init /\ [][Next]_vars

-----------------------------------------------------------------------------

\* A thread about to move the head was not lapped since it loaded it: fewer than
\* CtrMod elements (2^32) have passed. Otherwise the compare-and-swap takes the
\* head it finds for the one it loaded. The code relies on this.
NotLapped ==
  \A t \in Threads : thr[t].pc = "move" => Place(t) - thr[t].at < CtrMod

\* What a consumer copies out of the ring is what a producer put at that place
\* of the queue, completely written: never a stale, torn or overwritten slot,
\* however slow a thread is between two of its steps and also when the 32-bit
\* counters wrap.
ReadsRight ==
  \A t \in Consumers : thr[t].pc \in {"copy", "update"} =>
    \A k \in 1..Len(thr[t].got) : thr[t].got[k] = claimed[thr[t].at + k]

\* The ring behaves like a bounded queue: a batch enters when the tail of the
\* producers passes it, and leaves when a consumer moves the head over it.
Published == Len(claimed) - Wrap(ht["prod"].head - ht["prod"].tail)
Queue == INSTANCE BoundedFifo
  WITH Capacity <- capacity,
       queue <- SubSeq(claimed, taken + 1, Published)
RefinesFifo == Queue!FifoSpec

\* Every thread that is in a call keeps running; none has to make calls.
FairSpec == Spec /\ \A t \in Threads : WF_vars(Continue(t))

\* An enqueue or dequeue that was started returns, although it may have to wait
\* in update_tail for others and to retry when another moved the head.
CallsReturn == \A t \in Threads : thr[t].pc # "idle" ~> thr[t].pc = "idle"
=============================================================================
