------------------------------- MODULE JRing2 -------------------------------
(***************************************************************************)
(* jring2.h: rings of one writer and one reader, without shared counters.  *)
(* An entry says by its flag dd that it is full, and the writer keeps an   *)
(* estimate of the free slots that it refreshes only when it is too small. *)
(*                                                                         *)
(* An element is copied in two halves, so that a torn one can be told. The *)
(* compiler barriers order the copy of an element and its flag; x86 keeps  *)
(* that order. There is none between a reader's last two stores (dd and    *)
(* read_idx), which are made in either order.                              *)
(***************************************************************************)
EXTENDS Integers, Sequences

CONSTANTS
  Rings2,  \* the rings
  Cnt      \* slots of a ring, a power of two

ASSUME JRing2Assumption == Cnt \in Nat /\ \E k \in 1..31 : Cnt = 2^k

VARIABLE ring2  \* ring2[q]: a ring, the calls its two threads are in (w and r),
                \* and the elements published so far (put, history)

mask == Cnt - 1
Advance(idx) == (idx + 1) % Cnt
Entry(i) == (i - 1) % Cnt  \* the slot of the i-th element

jring2_init ==
  [write_idx |-> 0, free_write_cnt |-> mask, read_idx |-> 0,
   slots |-> [i \in 0..mask |-> [dd |-> FALSE, lo |-> 0, hi |-> 0]],
   w |-> [pc |-> "idle", todo |-> <<>>, n |-> 0, ret |-> 0],
   r |-> [pc |-> "idle", max |-> 0, lo |-> 0, hi |-> 0, stores |-> {}, out |-> <<>>],
   put |-> <<>>, taken |-> 0]

-----------------------------------------------------------------------------
(* The writer.                                                             *)

\* The slots from the writer to the reader; one always stays empty.
\* (Mutation: also the last slot is used.)
FreeSlots_all(s) == (s.read_idx - s.write_idx + Cnt) % Cnt

FreeSlots(s) == (s.read_idx - s.write_idx + Cnt - 1) % Cnt

\* For the writing thread: it writes the estimate.
jring2_count(q) ==
  /\ ring2[q].w.pc = "idle"
  /\ ring2' = [ring2 EXCEPT ![q].free_write_cnt = FreeSlots(ring2[q])]

\* All of es or none.
jring2_enqueue_bulk(q, es) ==
  LET s    == ring2[q]
      free == IF s.free_write_cnt < Len(es) THEN FreeSlots(s)
              ELSE s.free_write_cnt
      fits == free >= Len(es)
  IN /\ s.w.pc = "idle"
     /\ ring2' = [ring2 EXCEPT
          ![q].free_write_cnt = free,
          ![q].w = [pc |-> IF fits THEN "lo" ELSE "idle", n |-> Len(es),
                    todo |-> IF fits THEN es ELSE <<>>, ret |-> 0]]

jring2_enqueue(q, e) == jring2_enqueue_bulk(q, <<e>>)

\* __jring2_insert: the element, its flag, the writer's index.
jring2_insert(q) ==
  LET w == ring2[q].w
      i == ring2[q].write_idx
      e == Head(w.todo)
      last == Len(w.todo) = 1
  IN \/ /\ w.pc = "lo"
        /\ ring2' = [ring2 EXCEPT ![q].slots[i].lo = e, ![q].w.pc = "hi"]
     \/ /\ w.pc = "hi"
        /\ ring2' = [ring2 EXCEPT ![q].slots[i].hi = e, ![q].w.pc = "dd"]
     \/ /\ w.pc = "dd"
        /\ ring2' = [ring2 EXCEPT
             ![q].slots[i].dd = TRUE, ![q].put = Append(@, e),
             ![q].write_idx = Advance(@),
             ![q].free_write_cnt = IF last THEN @ - w.n ELSE @,
             ![q].w = [w EXCEPT !.pc = IF last THEN "idle" ELSE "lo",
                                !.todo = Tail(w.todo), !.ret = IF last THEN w.n ELSE 0]]

-----------------------------------------------------------------------------
(* The reader.                                                             *)

jring2_dequeue_burst(q, n) ==
  /\ ring2[q].r.pc = "idle"
  /\ ring2' = [ring2 EXCEPT ![q].r.pc = "check", ![q].r.max = n, ![q].r.out = <<>>]

\* jring2_dequeue, as often as the burst still wants elements. (Mutation: the
\* entry is not looked at, and read.)
Full_always(s) == TRUE

Full(s) == s.slots[s.read_idx].dd

jring2_dequeue(q) ==
  LET r == ring2[q].r
      i == ring2[q].read_idx
      slot == ring2[q].slots[i]
      stored(x) == [r EXCEPT !.stores = @ \ {x},
                             !.pc = IF r.stores # {x} THEN "store"
                                    ELSE IF Len(r.out) < r.max THEN "check"
                                    ELSE "idle"]
  IN \/ /\ r.pc = "check"
        /\ ring2' = [ring2 EXCEPT ![q].r.pc = IF Full(ring2[q]) THEN "lo" ELSE "idle"]
     \/ /\ r.pc = "lo"
        /\ ring2' = [ring2 EXCEPT ![q].r.lo = slot.lo, ![q].r.pc = "hi"]
     \/ /\ r.pc = "hi"
        /\ ring2' = [ring2 EXCEPT
             ![q].taken = @ + 1,
             ![q].r = [r EXCEPT !.pc = "store", !.hi = slot.hi,
                                !.stores = {"dd", "idx"},
                                !.out = Append(r.out, <<r.lo, slot.hi>>)]]
     \/ /\ r.pc = "store" /\ "dd" \in r.stores
        /\ LET at == IF "idx" \in r.stores THEN i ELSE (i - 1) % Cnt
           IN ring2' = [ring2 EXCEPT ![q].slots[at].dd = FALSE,
                                     ![q].r = stored("dd")]
     \/ /\ r.pc = "store" /\ "idx" \in r.stores
        /\ ring2' = [ring2 EXCEPT ![q].read_idx = Advance(@),
                                  ![q].r = stored("idx")]

-----------------------------------------------------------------------------
\* Between jring2_enqueue and jring2_dequeue no element is lost, torn or
\* overwritten: what was published and not taken is in its slot, in full and
\* flagged, and what a reader took is what was put at that place, although the
\* writer goes by an old read_idx and the reader's two stores have no order.
EntriesKept ==
  \A q \in Rings2 :
    LET s == ring2[q]
        first == s.taken - Len(s.r.out)
    IN /\ \A i \in (s.taken + 1)..Len(s.put) :
            s.slots[Entry(i)] = [dd |-> TRUE, lo |-> s.put[i], hi |-> s.put[i]]
       /\ s.taken <= Len(s.put)
       /\ \A k \in 1..Len(s.r.out) :
            s.r.out[k] = <<s.put[first + k], s.put[first + k]>>
=============================================================================
