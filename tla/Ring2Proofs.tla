---------------------------- MODULE Ring2Proofs ----------------------------
(***************************************************************************)
(* Proof that the rings of jring2.h (module JRing2) lose, tear and         *)
(* overwrite no entry, for every number of slots and every interleaving of *)
(* the writer and the reader, in the programs of module JRing2Echo.        *)
(*                                                                         *)
(* The invariant counts elements and not indices. With put the elements    *)
(* published and taken those read, the writer's index is Len(put) and the  *)
(* reader's is taken, or one less while that store is to be made, modulo   *)
(* Cnt. The writer's estimate of the free slots may be old, but it never   *)
(* counts on a slot that the reader has not passed, so that what it writes *)
(* to is neither unread nor about to have its flag cleared.                *)
(***************************************************************************)
EXTENDS RingProofs, JRing2Echo

-----------------------------------------------------------------------------
(* Slots and indices.                                                      *)

\* The constants of a ring.
LEMMA Ring2Constants ==
  Cnt \in Nat \ {0} /\ mask = Cnt - 1 /\ mask \in Nat \ {0}
  BY JRing2Assumption, EchoAssumption DEF JRing2Assumption, EchoAssumption, mask

\* Elements less than a round apart have different slots,
LEMMA EntriesApart ==
  ASSUME NEW i \in Nat \ {0}, NEW j \in Nat \ {0}, i # j,
         j - i <= mask, i - j <= mask
  PROVE  Entry(i) # Entry(j)
<1>1. Cnt \in Nat \ {0} /\ mask = Cnt - 1
  BY Ring2Constants, Zenon
<1>2. ASSUME NEW a \in Int, NEW b \in Int, b < a, a - b < Cnt
      PROVE  a % Cnt # b % Cnt
  <2>1. b <= a /\ a # b
    BY <1>2
  <2> QED
    BY ONLY <1>1, <1>2, <2>1, ModApart, Zenon
<1>3. /\ i - 1 \in Int /\ j - 1 \in Int
      /\ i - 1 < j - 1 \/ j - 1 < i - 1
      /\ (j - 1) - (i - 1) < Cnt /\ (i - 1) - (j - 1) < Cnt
  BY <1>1
<1> QED
  BY ONLY <1>2, <1>3, Zenon DEF Entry

\* and a round apart the same one.
LEMMA EntryFacts ==
  ASSUME NEW n \in Nat
  PROVE  /\ Entry(n + 1) \in 0..mask
         /\ Entry(n + 1) = n % Cnt
         /\ Entry(n + Cnt) = Entry(n)
         /\ Advance(n % Cnt) = (n + 1) % Cnt
         /\ ((n % Cnt) - 1) % Cnt = Entry(n)
         /\ (n - 1) % Cnt = Entry(n)
<1>1. Cnt \in Nat \ {0} /\ mask = Cnt - 1
  BY Ring2Constants, Zenon
<1>2. n % Cnt \in 0..mask
  BY <1>1, DivMod
<1>3. (n + 1) - 1 = n
  OBVIOUS
<1>4. ((n - 1) + Cnt * 1) % Cnt = (n - 1) % Cnt
  <2>1. n - 1 \in Int /\ 1 \in Int
    OBVIOUS
  <2> QED
    BY ONLY <2>1, <1>1, ModShift, Zenon
<1>5. (n + Cnt) - 1 = (n - 1) + Cnt * 1
  BY <1>1
<1>6. ((n % Cnt) + 1) % Cnt = (n + 1) % Cnt /\ ((n % Cnt) + -1) % Cnt = (n + -1) % Cnt
  <2>1. n \in Int /\ 1 \in Int /\ -1 \in Int
    OBVIOUS
  <2> QED
    BY ONLY <2>1, <1>1, ModSum, Zenon
<1>7. (n % Cnt) + -1 = (n % Cnt) - 1 /\ n + -1 = n - 1
  BY <1>1, <1>2, Zenon
<1> QED
  BY <1>2, <1>3, <1>4, <1>5, <1>6, <1>7, Zenon DEF Entry, Advance

\* The free slots between the writer's index and the reader's.
LEMMA FreeExact ==
  ASSUME NEW s, NEW a \in Nat, NEW b \in Nat, b <= a, a - b <= mask,
         s.read_idx = b % Cnt, s.write_idx = a % Cnt
  PROVE  FreeSlots(s) = mask - (a - b)
<1>1. Cnt \in Nat \ {0} /\ mask = Cnt - 1
  BY Ring2Constants, Zenon
<1>2. (mask + (b % Cnt) - (a % Cnt)) % Cnt = (mask + b - a) % Cnt
  <2>1. mask \in Int /\ a \in Int /\ b \in Int
    BY <1>1
  <2> QED
    BY ONLY <2>1, <1>1, ModDiff, ZenonT(60)
<1>3. mask + b - a \in 0..(Cnt - 1)
  BY <1>1
<1>4. (mask + b - a) % Cnt = mask + b - a
  BY ONLY <1>1, <1>3, ModSmall, Zenon
<1>5. a % Cnt \in Int /\ b % Cnt \in Int
  BY <1>1, DivMod
<1>6. (b % Cnt) - (a % Cnt) + Cnt - 1 = mask + (b % Cnt) - (a % Cnt)
  BY <1>1, <1>5
<1>7. FreeSlots(s) = mask + b - a
  BY ONLY <1>2, <1>4, <1>6, s.read_idx = b % Cnt, s.write_idx = a % Cnt, Zenon DEF FreeSlots
<1> QED
  BY <1>1, <1>7

-----------------------------------------------------------------------------
(* jring2: one writer and one reader.                                      *)

WriterType ==
  [pc : {"idle", "lo", "hi", "dd"}, todo : Seq(Int), n : Nat, ret : Nat]
ReaderType ==
  [pc : {"idle", "check", "lo", "hi", "store"}, max : Nat, lo : Int, hi : Int,
   stores : SUBSET {"dd", "idx"}, out : Seq(Int \X Int)]
SlotType == [dd : BOOLEAN, lo : Int, hi : Int]

\* The elements whose slots read_idx has passed: not yet the one just taken,
\* while that store is to be made.
Passed(r, k) == IF "idx" \in r.stores THEN k - 1 ELSE k

\* The elements that the call under way has published.
Published2(w) == IF w.pc = "idle" THEN 0 ELSE w.n - Len(w.todo)

\* The indices, and the writer's estimate: it counts on no slot that the reader
\* has not passed, and never on the last one.
Indices(wi, fr, ri, w, r, put, k) ==
  /\ k <= Len(put) /\ Passed(r, k) >= 0
  /\ wi = Len(put) % Cnt
  /\ ri = Passed(r, k) % Cnt
  /\ fr + Len(put) - Published2(w) - Passed(r, k) <= mask

\* The element that the writer is copying.
Writing(fr, sl, w, put) ==
  LET slot == sl[Entry(Len(put) + 1)]
  IN IF w.pc = "idle" THEN TRUE
     ELSE /\ w.todo # <<>> /\ Len(w.todo) <= w.n /\ w.n <= fr
          /\ w.pc \in {"hi", "dd"} => slot.lo = Head(w.todo)
          /\ w.pc = "dd" => slot.hi = Head(w.todo)

\* The element that the reader is copying, and those it has taken.
Reading(r, put, k) ==
  /\ r.pc \in {"lo", "hi"} => k < Len(put)
  /\ r.pc = "hi" => r.lo = put[k + 1]
  /\ (r.pc = "store") <=> (r.stores # {})
  /\ r.pc = "store" => k >= 1
  /\ Len(r.out) <= k
  /\ \A i \in 1..Len(r.out) :
       r.out[i] = <<put[k - Len(r.out) + i], put[k - Len(r.out) + i]>>

\* The slots of what was published and not taken are full; the others have no
\* flag, but for the element just taken while that store is to be made.
FullSlots(sl, put, k) ==
  \A i \in (k + 1)..Len(put) :
    sl[Entry(i)] = [dd |-> TRUE, lo |-> put[i], hi |-> put[i]]
EmptySlots(sl, r, put, k) ==
  \A i \in (Len(put) + 1)..(k + Cnt) :
    ~("dd" \in r.stores /\ i = k + Cnt) => sl[Entry(i)].dd = FALSE

Types2(fr, sl, w, r, put, k) ==
  /\ fr \in Nat /\ put \in Seq(Int) /\ k \in Nat
  /\ w \in WriterType /\ r \in ReaderType
  /\ sl \in [0..mask -> SlotType]

\* A ring in order, from its fields.
InOrder2(wi, fr, ri, sl, w, r, put, k) ==
  /\ Types2(fr, sl, w, r, put, k)
  /\ Indices(wi, fr, ri, w, r, put, k)
  /\ Writing(fr, sl, w, put)
  /\ Reading(r, put, k)
  /\ FullSlots(sl, put, k)
  /\ EmptySlots(sl, r, put, k)

\* The ring with these fields.
RingWith(wi, fr, ri, sl, w, r, put, k) ==
  [write_idx : {wi}, free_write_cnt : {fr}, read_idx : {ri}, slots : {sl},
   w : {w}, r : {r}, put : {put}, taken : {k}]

Good2(s) ==
  /\ s \in RingWith(s.write_idx, s.free_write_cnt, s.read_idx, s.slots, s.w,
                    s.r, s.put, s.taken)
  /\ InOrder2(s.write_idx, s.free_write_cnt, s.read_idx, s.slots, s.w, s.r,
              s.put, s.taken)

RingsOK ==
  /\ ring2 = [q \in Rings2 |-> ring2[q]]
  /\ \A q \in Rings2 : Good2(ring2[q])

EchoType ==
  [mode : {"free", "echo"}, ppc : {"top", "poll", "answer", "issue", "sent"},
   seq_num : Int, inflight : Int,
   cpc : {"top", "poll", "request", "reply", "replied"}, msg : Int,
   exit : {"no", "stop", "mismatch", "enqueue"}]

Ring2Inv == RingsOK /\ echo \in EchoType

-----------------------------------------------------------------------------
(* jring2: every step keeps a ring in order.                               *)

\* jring2_count and the refresh in an enqueue: the estimate is exact.
LEMMA RefreshOK ==
  ASSUME NEW s, NEW wi, NEW fr, NEW ri, NEW sl, NEW w, NEW r, NEW put, NEW k,
         InOrder2(wi, fr, ri, sl, w, r, put, k), w.pc = "idle",
         s.read_idx = ri, s.write_idx = wi
  PROVE  InOrder2(wi, FreeSlots(s), ri, sl, w, r, put, k)
<1> DEFINE W == Len(put)
           P == Passed(r, k)
<1>1. /\ W \in Nat /\ P \in Nat /\ k \in Nat /\ P <= k /\ k <= W /\ fr \in Nat
      /\ wi = W % Cnt /\ ri = P % Cnt /\ fr + W - 0 - P <= mask
  BY DEF InOrder2, Types2, Indices, Published2, Passed
<1> HIDE DEF W, P
<1>2. P <= W /\ W - P <= mask /\ mask \in Nat
  BY <1>1, Ring2Constants
<1>3. FreeSlots(s) = mask - (W - P)
  BY ONLY <1>1, <1>2, s.read_idx = ri, s.write_idx = wi, FreeExact
<1>4. FreeSlots(s) \in Nat /\ FreeSlots(s) + W - 0 - P <= mask
  BY <1>1, <1>2, <1>3
<1>5. Types2(FreeSlots(s), sl, w, r, put, k) /\ Writing(FreeSlots(s), sl, w, put)
  BY <1>4, w.pc = "idle", Zenon DEF InOrder2, Types2, Writing
<1>6. Indices(wi, FreeSlots(s), ri, w, r, put, k)
  BY <1>4, Zenon DEF InOrder2, Indices, Published2, W, P
<1> QED
  BY <1>5, <1>6, Zenon DEF InOrder2

\* jring2_enqueue_bulk begins when the estimate covers all of es,
LEMMA BeginOK ==
  ASSUME NEW wi, NEW fr, NEW ri, NEW sl, NEW w, NEW r, NEW put, NEW k,
         InOrder2(wi, fr, ri, sl, w, r, put, k), w.pc = "idle",
         NEW es \in Seq(Int), es # <<>>, Len(es) <= fr
  PROVE  InOrder2(wi, fr, ri, sl,
                  [pc |-> "lo", n |-> Len(es), todo |-> es, ret |-> 0],
                  r, put, k)
<1> DEFINE v == [pc |-> "lo", n |-> Len(es), todo |-> es, ret |-> 0]
<1>1. v \in WriterType /\ Len(es) \in Nat
  BY DEF WriterType
<1>2. Published2(v) = 0 /\ Published2(w) = 0
  BY <1>1 DEF Published2
<1>3. v.pc = "lo" /\ v.todo = es /\ v.n = Len(es)
  BY Zenon
<1> HIDE DEF v
<1>4. Writing(fr, sl, v, put)
  BY <1>1, <1>3 DEF Writing
<1>5. Types2(fr, sl, v, r, put, k)
  BY <1>1, Zenon DEF InOrder2, Types2
<1>6. Indices(wi, fr, ri, v, r, put, k)
  BY <1>2, Zenon DEF InOrder2, Indices
<1> QED
  BY <1>4, <1>5, <1>6, Zenon DEF InOrder2, v

\* and does nothing otherwise.
LEMMA NoneOK ==
  ASSUME NEW wi, NEW fr, NEW ri, NEW sl, NEW w, NEW r, NEW put, NEW k,
         InOrder2(wi, fr, ri, sl, w, r, put, k), w.pc = "idle",
         NEW n \in Nat
  PROVE  InOrder2(wi, fr, ri, sl,
                  [pc |-> "idle", n |-> n, todo |-> <<>>, ret |-> 0],
                  r, put, k)
<1> DEFINE v == [pc |-> "idle", n |-> n, todo |-> <<>>, ret |-> 0]
<1>1. <<>> \in Seq(Int)
  OBVIOUS
<1>2. v \in WriterType
  BY <1>1, Zenon DEF WriterType
<1>3. v.pc = "idle"
  BY Zenon
<1> HIDE DEF v
<1>4. Published2(v) = 0 /\ Published2(w) = 0
  BY <1>3, Zenon DEF Published2
<1>5. Writing(fr, sl, v, put) /\ Types2(fr, sl, v, r, put, k)
  BY <1>2, <1>3, Zenon DEF InOrder2, Writing, Types2
<1>6. Indices(wi, fr, ri, v, r, put, k)
  BY <1>4, Zenon DEF InOrder2, Indices
<1> QED
  BY <1>5, <1>6, Zenon DEF InOrder2, v

\* While it inserts, the writer is at a slot that the reader has passed,
LEMMA WriterRoom ==
  ASSUME NEW wi, NEW fr, NEW ri, NEW sl, NEW w, NEW r, NEW put, NEW k,
         InOrder2(wi, fr, ri, sl, w, r, put, k), w.pc # "idle"
  PROVE  /\ Len(put) \in Nat /\ k \in Nat /\ k <= Len(put)
         /\ Len(put) + 1 - k <= mask /\ Len(put) + 1 - Passed(r, k) <= mask
         /\ Passed(r, k) \in Nat /\ Passed(r, k) <= k
         /\ wi = Entry(Len(put) + 1) /\ wi \in 0..mask
         /\ sl[wi] \in SlotType
<1> DEFINE W == Len(put)
           P == Passed(r, k)
           m == Len(w.todo)
<1>1. /\ W \in Nat /\ P \in Nat /\ k \in Nat /\ P <= k /\ k <= W /\ fr \in Nat
      /\ wi = W % Cnt
  BY DEF InOrder2, Types2, Indices, Passed
<1>2. w.n \in Nat /\ m \in Nat \ {0} /\ w.n <= fr
  BY DEF InOrder2, Types2, WriterType, Writing
<1>3. fr + W - (w.n - m) - P <= mask
  BY Zenon DEF InOrder2, Indices, Published2
<1> HIDE DEF W, P, m
<1>4. W + 1 - P <= mask /\ W + 1 - k <= mask
  BY <1>1, <1>2, <1>3, Ring2Constants
<1>5. wi = Entry(W + 1) /\ wi \in 0..mask
  BY <1>1, EntryFacts, Zenon
<1>6. sl[wi] \in SlotType
  BY <1>5, Zenon DEF InOrder2, Types2
<1> QED
  BY <1>1, <1>4, <1>5, <1>6, Zenon DEF W, P

\* so that writing there changes the slot of no other element of the round.
LEMMA WriteFrame ==
  ASSUME NEW wi, NEW fr, NEW ri, NEW sl, NEW w, NEW r, NEW put, NEW k,
         InOrder2(wi, fr, ri, sl, w, r, put, k), w.pc # "idle",
         NEW x \in SlotType
  PROVE  LET new == [sl EXCEPT ![wi] = x]
         IN /\ new \in [0..mask -> SlotType]
            /\ new[Entry(Len(put) + 1)] = x
            /\ \A i \in (k + 1)..(k + Cnt) :
                 i # Len(put) + 1 => new[Entry(i)] = sl[Entry(i)]
<1> DEFINE W == Len(put)
           new == [sl EXCEPT ![wi] = x]
<1>1. /\ W \in Nat /\ k \in Nat /\ k <= W /\ W + 1 - k <= mask
      /\ wi = Entry(W + 1) /\ wi \in 0..mask
  BY WriterRoom
<1>2. sl \in [0..mask -> SlotType]
  BY Zenon DEF InOrder2, Types2
<1> HIDE DEF W
<1>3. new \in [0..mask -> SlotType] /\ new[Entry(W + 1)] = x
  BY <1>1, <1>2, Zenon
<1>4. ASSUME NEW i \in (k + 1)..(k + Cnt), i # W + 1
      PROVE  new[Entry(i)] = sl[Entry(i)]
  <2>1. /\ i \in Nat \ {0} /\ W + 1 \in Nat \ {0} /\ i - 1 \in Nat
        /\ i - (W + 1) <= mask /\ (W + 1) - i <= mask /\ (i - 1) + 1 = i
    BY <1>1, Ring2Constants
  <2>2. Entry(i) # Entry(W + 1)
    BY ONLY <1>4, <2>1, EntriesApart, Zenon
  <2>3. Entry(i) \in 0..mask
    BY ONLY <2>1, EntryFacts, Zenon
  <2> QED
    BY <1>1, <1>2, <2>2, <2>3, Zenon
<1> QED
  BY <1>3, <1>4, Zenon DEF W

\* Copying one half of the element.
LEMMA CopyOK ==
  ASSUME NEW wi, NEW fr, NEW ri, NEW sl, NEW w, NEW r, NEW put, NEW k,
         InOrder2(wi, fr, ri, sl, w, r, put, k),
         NEW v \in WriterType, v.todo = w.todo, v.n = w.n,
         NEW x \in SlotType, x.dd = sl[wi].dd,
         \/ w.pc = "lo" /\ v.pc = "hi" /\ x.lo = Head(w.todo)
         \/ w.pc = "hi" /\ v.pc = "dd" /\ x.hi = Head(w.todo) /\ x.lo = sl[wi].lo
  PROVE  InOrder2(wi, fr, ri, [sl EXCEPT ![wi] = x], v, r, put, k)
<1> DEFINE new == [sl EXCEPT ![wi] = x]
           W == Len(put)
<1>1. w.pc # "idle" /\ v.pc # "idle"
  BY Zenon
<1>2. /\ new \in [0..mask -> SlotType]
      /\ new[Entry(W + 1)] = x
      /\ \A i \in (k + 1)..(k + Cnt) : i # W + 1 => new[Entry(i)] = sl[Entry(i)]
  BY ONLY <1>1, x \in SlotType, InOrder2(wi, fr, ri, sl, w, r, put, k), WriteFrame
<1>3. /\ W \in Nat /\ k \in Nat /\ k <= W /\ W + 1 - k <= mask
      /\ wi = Entry(W + 1) /\ mask = Cnt - 1
  BY <1>1, WriterRoom, Ring2Constants, ZenonT(60)
<1> HIDE DEF new
<1>4. Writing(fr, new, v, put)
  BY <1>1, <1>2, <1>3, Zenon DEF InOrder2, Writing
<1> HIDE DEF W
<1>5. FullSlots(new, put, k)
  <2>1. ASSUME NEW i \in (k + 1)..W
        PROVE  new[Entry(i)] = sl[Entry(i)]
    <3>1. i \in (k + 1)..(k + Cnt) /\ i # W + 1
      BY <1>3, Ring2Constants
    <3> QED
      BY <1>2, <3>1, Zenon
  <2> QED
    BY <2>1, Zenon DEF InOrder2, FullSlots, W
<1>6. EmptySlots(new, r, put, k)
  <2>1. ASSUME NEW i \in (W + 1)..(k + Cnt)
        PROVE  new[Entry(i)].dd = sl[Entry(i)].dd
    <3>1. i \in (k + 1)..(k + Cnt)
      BY <1>3, Ring2Constants
    <3> QED
      BY <1>2, <1>3, <3>1, Zenon
  <2> QED
    BY <2>1, Zenon DEF InOrder2, EmptySlots, W
<1>7. Types2(fr, new, v, r, put, k)
  BY <1>2, SMTT(20) DEF InOrder2, Types2
<1>8. Indices(wi, fr, ri, v, r, put, k)
  BY <1>1, Zenon DEF InOrder2, Indices, Published2
<1> QED
  BY <1>4, <1>5, <1>6, <1>7, <1>8, Zenon DEF InOrder2, new

\* Another element behind those being read changes nothing for the reader.
LEMMA ReadingMore ==
  ASSUME NEW r \in ReaderType, NEW put \in Seq(Int), NEW k \in Nat,
         k <= Len(put), NEW e \in Int, Reading(r, put, k)
  PROVE  Reading(r, Append(put, e), k)
<1> DEFINE more == Append(put, e)
           out == r.out
           n == Len(out)
           W == Len(put)
<1>1. W \in Nat /\ Len(more) = W + 1 /\ \A i \in 1..W : more[i] = put[i]
  OBVIOUS
<1>2. n \in Nat /\ n <= k
  BY DEF Reading, ReaderType
<1>3. r.pc \in {"lo", "hi"} => k < W
  BY Zenon DEF Reading
<1> HIDE DEF more, W, out, n
<1>4. k <= W
  BY Zenon DEF W
<1>5. \A i \in 1..n : k - n + i \in 1..W
  BY <1>1, <1>2, <1>4
<1>6. \A i \in 1..n : more[k - n + i] = put[k - n + i]
  BY <1>1, <1>5, Zenon
<1>7. r.pc \in {"lo", "hi"} => k < W + 1 /\ k + 1 \in 1..W
  BY <1>1, <1>3
<1>8. r.pc \in {"lo", "hi"} => k < Len(more) /\ more[k + 1] = put[k + 1]
  BY <1>1, <1>7, Zenon
<1> QED
  BY <1>6, <1>8, Zenon DEF Reading, more, n, out

\* Publishing the element: its flag, then the writer's index.
LEMMA PublishOK ==
  ASSUME NEW wi, NEW fr, NEW ri, NEW sl, NEW w, NEW r, NEW put, NEW k,
         InOrder2(wi, fr, ri, sl, w, r, put, k), w.pc = "dd",
         NEW v \in WriterType, v.todo = Tail(w.todo), v.n = w.n,
         v.pc = (IF Len(w.todo) = 1 THEN "idle" ELSE "lo"),
         NEW x \in SlotType, x.dd = TRUE, x.lo = sl[wi].lo, x.hi = sl[wi].hi
  PROVE  InOrder2(Advance(wi), IF Len(w.todo) = 1 THEN fr - w.n ELSE fr, ri,
                  [sl EXCEPT ![wi] = x], v, r, Append(put, Head(w.todo)), k)
<1> DEFINE new == [sl EXCEPT ![wi] = x]
           W == Len(put)
           P == Passed(r, k)
           m == Len(w.todo)
           e == Head(w.todo)
           more == Append(put, e)
           free == IF m = 1 THEN fr - w.n ELSE fr
<1>1. w.pc # "idle"
  BY Zenon
<1>2. /\ new \in [0..mask -> SlotType]
      /\ new[Entry(W + 1)] = x
      /\ \A i \in (k + 1)..(k + Cnt) : i # W + 1 => new[Entry(i)] = sl[Entry(i)]
  BY ONLY <1>1, x \in SlotType, InOrder2(wi, fr, ri, sl, w, r, put, k), WriteFrame, SMTT(20)
<1>3. /\ W \in Nat /\ k \in Nat /\ k <= W /\ W + 1 - k <= mask
      /\ wi = Entry(W + 1) /\ P \in Nat /\ sl[wi] \in SlotType
  BY <1>1, WriterRoom
<1>4. /\ w.n \in Nat /\ m \in Nat \ {0} /\ w.n <= fr /\ fr \in Nat /\ m <= w.n
      /\ fr + W - (w.n - m) - P <= mask /\ ri = P % Cnt /\ wi = W % Cnt
      /\ w.todo \in Seq(Int) /\ put \in Seq(Int) /\ sl[wi].lo = e /\ sl[wi].hi = e
  BY <1>1, <1>3, SMTT(20) DEF InOrder2, Types2, WriterType, Writing, Indices, Published2
<1>5. /\ e \in Int /\ Len(v.todo) = m - 1 /\ more \in Seq(Int) /\ Len(more) = W + 1
      /\ \A i \in 1..W : more[i] = put[i]
      /\ more[W + 1] = e
  BY <1>4, SMTT(20)
<1>6. x = [dd |-> TRUE, lo |-> e, hi |-> e]
  BY <1>3, <1>4, SMTT(60) DEF SlotType
<1>7. v.pc = IF m = 1 THEN "idle" ELSE "lo"
  BY Zenon
<1> HIDE DEF new, more, m, e
<1>8. free \in Nat /\ Types2(free, new, v, r, more, k)
  <2>1. free \in Nat
    BY ONLY <1>4
  <2> QED
    BY <1>2, <1>5, <2>1, Zenon DEF InOrder2, Types2
<1>9. Indices(Advance(wi), free, ri, v, r, more, k)
  <2>1. Published2(v) = IF m = 1 THEN 0 ELSE w.n - (m - 1)
    BY ONLY <1>5, <1>7, v.n = w.n, Zenon DEF Published2
  <2>2. free + (W + 1) - Published2(v) - P <= mask
    <3>1. ASSUME NEW a \in Nat, NEW b \in Nat, NEW n \in Nat, NEW c \in Nat,
                 NEW p \in Nat, NEW M \in Int, a + b - (n - c) - p <= M
          PROVE  /\ c = 1 => (a - n) + (b + 1) - 0 - p <= M
                 /\ a + (b + 1) - (n - (c - 1)) - p <= M
      BY ONLY <3>1
    <3> HIDE DEF W, P
    <3>2. m \in Nat /\ mask \in Int
      BY ONLY <1>4, Ring2Constants
    <3>3. /\ m = 1 => (fr - w.n) + (W + 1) - 0 - P <= mask
          /\ fr + (W + 1) - (w.n - (m - 1)) - P <= mask
      BY ONLY <1>3, <1>4, <3>1, <3>2, Zenon
    <3> QED
      BY ONLY <2>1, <3>3, Zenon DEF free
  <2>3. Advance(wi) = (W + 1) % Cnt
    BY <1>3, <1>4, EntryFacts, Zenon
  <2> HIDE DEF free, W
  <2>4. k <= W + 1
    BY <1>3
  <2> QED
    BY <1>3, <1>4, <1>5, <2>2, <2>3, <2>4 DEF Indices
<1>10. Writing(free, new, v, more)
  <2> USE DEF m
  <2>1. CASE m = 1
    BY <2>1, Zenon DEF Writing
  <2>2. CASE m # 1
    <3>1. Len(v.todo) <= v.n /\ v.n <= free /\ Len(v.todo) >= 1
      <4> HIDE DEF m
      <4> QED
        BY ONLY <1>4, <1>5, <2>2, v.n = w.n, SMTT(60)
    <3>2. v.todo # <<>>
      BY ONLY <3>1
    <3> QED
      BY <2>2, <3>1, <3>2, Zenon DEF Writing
  <2> QED
    BY <2>1, <2>2, Zenon
<1> HIDE DEF W
<1>11. Reading(r, more, k)
  <2>1. Reading(r, put, k) /\ r \in ReaderType
    BY Zenon DEF InOrder2, Types2
  <2> QED
    BY ONLY <1>3, <1>4, <1>5, <2>1, ReadingMore, Zenon DEF more, W
<1>12. FullSlots(new, more, k)
  <2>1. ASSUME NEW i \in (k + 1)..W
        PROVE  new[Entry(i)] = [dd |-> TRUE, lo |-> more[i], hi |-> more[i]]
    <3>1. i \in (k + 1)..(k + Cnt) /\ i # W + 1 /\ i \in 1..W
      BY <1>3, Ring2Constants, SMTT(20)
    <3>2. sl[Entry(i)] = [dd |-> TRUE, lo |-> put[i], hi |-> put[i]]
      BY Zenon DEF InOrder2, FullSlots, W
    <3> QED
      BY <1>2, <1>5, <3>1, <3>2, Zenon
  <2>2. \A i \in (k + 1)..(W + 1) : i \in (k + 1)..W \/ i = W + 1
    BY <1>3, SMTT(20)
  <2> QED
    BY <1>2, <1>5, <1>6, <2>1, <2>2, Zenon DEF FullSlots
<1>13. EmptySlots(new, r, more, k)
  <2>1. ASSUME NEW i \in (W + 2)..(k + Cnt)
        PROVE  i \in (W + 1)..(k + Cnt) /\ new[Entry(i)] = sl[Entry(i)]
    <3>1. i \in (k + 1)..(k + Cnt) /\ i # W + 1 /\ i \in (W + 1)..(k + Cnt)
      BY <1>3, Ring2Constants, SMTT(20)
    <3> QED
      BY <1>2, <3>1, Zenon
  <2>2. (W + 1) + 1 = W + 2
    BY <1>3
  <2>3. EmptySlots(sl, r, put, k)
    BY Zenon DEF InOrder2
  <2> QED
    BY <1>5, <2>1, <2>2, <2>3, SMTT(20) DEF EmptySlots, W
<1> QED
  BY <1>8, <1>9, <1>10, <1>11, <1>12, <1>13, Zenon DEF InOrder2, new, more, m, e

\* Steps of the reader that only concern its own call.
LEMMA ReaderOnly ==
  ASSUME NEW wi, NEW fr, NEW ri, NEW sl, NEW w, NEW r, NEW put, NEW k,
         InOrder2(wi, fr, ri, sl, w, r, put, k),
         NEW v \in ReaderType, v.stores = r.stores, Reading(v, put, k)
  PROVE  InOrder2(wi, fr, ri, sl, w, v, put, k)
<1>1. Passed(v, k) = Passed(r, k)
  BY Zenon DEF Passed
<1>2. Types2(fr, sl, w, v, put, k) /\ Indices(wi, fr, ri, w, v, put, k)
  BY <1>1, Zenon DEF InOrder2, Types2, Indices
<1>3. EmptySlots(sl, v, put, k)
  BY Zenon DEF InOrder2, EmptySlots
<1> QED
  BY <1>2, <1>3, Zenon DEF InOrder2

\* What the reader knows outside its last two stores: it looks at the next
\* element's slot, and the flag says whether that element was published.
AtNext(ri, sl, r, put, k) ==
  /\ r.stores = {} /\ Passed(r, k) = k /\ k \in Nat /\ Len(put) \in Nat
  /\ ri = Entry(k + 1) /\ ri \in 0..mask /\ k <= Len(put) /\ Len(put) - k <= mask
  /\ k < Len(put) => sl[ri] = [dd |-> TRUE, lo |-> put[k + 1], hi |-> put[k + 1]]
  /\ sl[ri].dd = TRUE => k < Len(put)

\* It does.
LEMMA ReaderAt ==
  ASSUME NEW wi, NEW fr, NEW ri, NEW sl, NEW w, NEW r, NEW put, NEW k,
         InOrder2(wi, fr, ri, sl, w, r, put, k), r.pc # "store"
  PROVE  AtNext(ri, sl, r, put, k)
<1> DEFINE W == Len(put)
<1>1. r.stores = {} /\ k \in Nat /\ W \in Nat /\ k <= W
  BY DEF InOrder2, Reading, Types2, Indices
<1>2. Passed(r, k) = k
  BY <1>1, SMTT(20) DEF Passed
<1>3. ri = Entry(k + 1) /\ ri \in 0..mask
  BY <1>1, <1>2, EntryFacts, Zenon DEF InOrder2, Indices
<1>4. W - k <= mask
  <2>1. fr \in Nat /\ w.n \in Nat /\ Len(w.todo) \in Nat
    BY SMTT(20) DEF InOrder2, Types2, WriterType
  <2>2. Published2(w) \in Nat /\ Published2(w) <= fr
    BY <2>1 DEF InOrder2, Writing, Published2
  <2>3. fr + W - Published2(w) - k <= mask
    BY <1>2, Zenon DEF InOrder2, Indices
  <2> HIDE DEF W
  <2> QED
    BY <1>1, <2>1, <2>2, <2>3, Ring2Constants
<1>5. k < W => sl[ri] = [dd |-> TRUE, lo |-> put[k + 1], hi |-> put[k + 1]]
  <2>1. k < W => k + 1 \in (k + 1)..W
    BY <1>1
  <2> QED
    BY <1>3, <2>1, Zenon DEF InOrder2, FullSlots
<1>6. ASSUME ~(k < W)
      PROVE  sl[ri].dd = FALSE
  <2>1. k + 1 \in (W + 1)..(k + Cnt)
    BY <1>1, <1>6, Ring2Constants, SMTT(20)
  <2> QED
    BY <1>1, <1>3, <2>1, Zenon DEF InOrder2, EmptySlots
<1> QED
  BY <1>1, <1>2, <1>3, <1>4, <1>5, <1>6, Zenon DEF AtNext

\* jring2_dequeue_burst begins, looks at an entry, reads its first half.
LEMMA BeginReadOK ==
  ASSUME NEW wi, NEW fr, NEW ri, NEW sl, NEW w, NEW r, NEW put, NEW k,
         InOrder2(wi, fr, ri, sl, w, r, put, k),
         NEW v \in ReaderType, v.stores = r.stores,
         \/ r.pc = "idle" /\ v.pc = "check" /\ v.out = <<>>
         \/ /\ r.pc = "check" /\ v.pc = (IF sl[ri].dd THEN "lo" ELSE "idle")
            /\ v.out = r.out
         \/ r.pc = "lo" /\ v.pc = "hi" /\ v.lo = sl[ri].lo /\ v.out = r.out
  PROVE  InOrder2(wi, fr, ri, sl, w, v, put, k)
<1>1. /\ r.stores = {} /\ k \in Nat /\ Len(put) \in Nat
      /\ k < Len(put) => sl[ri] = [dd |-> TRUE, lo |-> put[k + 1], hi |-> put[k + 1]]
      /\ sl[ri].dd = TRUE => k < Len(put)
  <2>1. r.pc # "store"
    BY Zenon
  <2>2. AtNext(ri, sl, r, put, k)
    BY <2>1, ReaderAt, Zenon
  <2> QED
    BY ONLY <2>2, Zenon DEF AtNext
<1>2. Reading(r, put, k)
  BY SMTT(20) DEF InOrder2
<1>3. CASE r.pc = "idle"
  <2>1. v.pc = "check" /\ v.out = <<>> /\ v.stores = {}
    BY <1>1, <1>3, Zenon
  <2>2. Len(v.out) = 0
    BY <2>1
  <2>3. Reading(v, put, k)
    BY <1>1, <2>1, <2>2, SMTT(60) DEF Reading
  <2> QED
    BY <2>3, ReaderOnly, Zenon
<1>4. CASE r.pc = "check"
  <2>1. /\ v.pc = (IF sl[ri].dd THEN "lo" ELSE "idle") /\ v.out = r.out
        /\ v.stores = {}
    BY <1>1, <1>4, SMTT(60)
  <2>2. sl[ri].dd \in BOOLEAN
    <3>1. ri \in 0..mask
      BY <1>4, ReaderAt, Zenon DEF AtNext
    <3> QED
      BY <3>1, Zenon DEF InOrder2, Types2, SlotType
  <2>3. v.pc \in {"lo", "hi"} => k < Len(put)
    BY <1>1, <2>1, <2>2, Zenon
  <2>4. v.pc # "hi" /\ v.pc # "store"
    BY <2>1, Zenon
  <2>5. Reading(v, put, k)
    BY <1>2, <2>1, <2>3, <2>4, ZenonT(60) DEF Reading
  <2> QED
    BY <2>5, ReaderOnly, Zenon
<1>5. CASE r.pc = "lo"
  <2>1. v.pc = "hi" /\ v.lo = sl[ri].lo /\ v.out = r.out /\ v.stores = {}
    BY <1>1, <1>5, Zenon
  <2>2. k < Len(put)
    BY <1>2, <1>5, Zenon DEF Reading
  <2>3. v.lo = put[k + 1]
    BY <1>1, <2>1, <2>2
  <2>4. Reading(v, put, k)
    BY <1>2, <2>1, <2>2, <2>3, Zenon DEF Reading
  <2> QED
    BY <2>4, ReaderOnly, Zenon
<1> QED
  BY <1>3, <1>4, <1>5, Zenon

\* jring2_dequeue reads the second half: the element is taken.
LEMMA TakeOK ==
  ASSUME NEW wi, NEW fr, NEW ri, NEW sl, NEW w, NEW r, NEW put, NEW k,
         InOrder2(wi, fr, ri, sl, w, r, put, k), r.pc = "hi",
         NEW v \in ReaderType, v.pc = "store", v.stores = {"dd", "idx"},
         v.out = Append(r.out, <<r.lo, sl[ri].hi>>)
  PROVE  InOrder2(wi, fr, ri, sl, w, v, put, k + 1)
<1> DEFINE W == Len(put)
           n == Len(r.out)
<1>1. /\ r.stores = {} /\ Passed(r, k) = k /\ k \in Nat /\ Len(put) \in Nat
      /\ k < Len(put) => sl[ri] = [dd |-> TRUE, lo |-> put[k + 1], hi |-> put[k + 1]]
      /\ sl[ri].dd = TRUE => k < Len(put)
  <2>1. r.pc # "store"
    BY Zenon
  <2>2. AtNext(ri, sl, r, put, k)
    BY <2>1, ReaderAt, Zenon
  <2> QED
    BY ONLY <2>2, Zenon DEF AtNext
<1>2. k < W /\ r.lo = put[k + 1] /\ sl[ri].hi = put[k + 1]
  BY <1>1 DEF InOrder2, Reading
<1>3. Passed(v, k + 1) = k
  BY <1>1, SMTT(60) DEF Passed
<1>4. Types2(fr, sl, w, v, put, k + 1)
  BY <1>1 DEF InOrder2, Types2
<1>5. Indices(wi, fr, ri, w, v, put, k + 1)
  <2>1. /\ wi = W % Cnt /\ ri = k % Cnt
        /\ fr + W - Published2(w) - k <= mask
    BY <1>1, SMTT(60) DEF InOrder2, Indices
  <2>2. k + 1 <= W /\ k >= 0
    BY <1>1, <1>2
  <2> QED
    BY <1>3, <2>1, <2>2, Zenon DEF Indices
<1>6. Reading(v, put, k + 1)
  <2>1. /\ n \in Nat /\ n <= k /\ r.out \in Seq(Int \X Int)
        /\ \A i \in 1..n : r.out[i] = <<put[k - n + i], put[k - n + i]>>
    <3>1. Reading(r, put, k) /\ r \in ReaderType
      BY Zenon DEF InOrder2, Types2
    <3>2. r.out \in Seq(Int \X Int)
      BY <3>1, Zenon DEF ReaderType
    <3> QED
      BY ONLY <3>1, <3>2, SMTT(20) DEF Reading
  <2>2. /\ Len(v.out) = n + 1 /\ v.out[n + 1] = <<put[k + 1], put[k + 1]>>
        /\ \A i \in 1..n : v.out[i] = r.out[i]
    BY <1>2, <2>1
  <2> HIDE DEF n
  <2>3. /\ \A i \in 1..(n + 1) : i \in 1..n \/ i = n + 1
        /\ \A i \in 1..(n + 1) : (k + 1) - (n + 1) + i = k - n + i
        /\ k - n + (n + 1) = k + 1 /\ n + 1 <= k + 1 /\ k + 1 >= 1
    BY <1>1, <2>1
  <2>4. \A i \in 1..(n + 1) :
          v.out[i] = <<put[(k + 1) - (n + 1) + i], put[(k + 1) - (n + 1) + i]>>
    BY ONLY <2>1, <2>2, <2>3, Zenon
  <2>5. /\ v.pc \in {"lo", "hi"} => k + 1 < Len(put)
        /\ v.pc = "hi" => v.lo = put[(k + 1) + 1]
        /\ (v.pc = "store") <=> (v.stores # {})
        /\ v.pc = "store" => k + 1 >= 1
    BY ONLY <2>3, v.pc = "store", v.stores = {"dd", "idx"}, Zenon
  <2>6. Len(v.out) <= k + 1
    BY ONLY <2>2, <2>3, Zenon
  <2>7. \A i \in 1..Len(v.out) :
          v.out[i] = <<put[(k + 1) - Len(v.out) + i], put[(k + 1) - Len(v.out) + i]>>
    BY ONLY <2>2, <2>4, Zenon
  <2> QED
    BY ONLY <2>5, <2>6, <2>7, Zenon DEF Reading
<1>7. FullSlots(sl, put, k + 1)
  <2>1. \A i \in (k + 1 + 1)..W : i \in (k + 1)..W
    BY <1>1, SMTT(20)
  <2> QED
    BY <2>1, Zenon DEF InOrder2, FullSlots
<1>8. EmptySlots(sl, v, put, k + 1)
  <2>1. \A i \in (W + 1)..(k + 1 + Cnt) : i # k + 1 + Cnt => i \in (W + 1)..(k + Cnt)
    BY <1>1, Ring2Constants, SMTT(60)
  <2>2. "dd" \in v.stores /\ "dd" \notin r.stores
    BY <1>1, Zenon
  <2> QED
    BY <2>1, <2>2, Zenon DEF InOrder2, EmptySlots
<1> QED
  BY <1>4, <1>5, <1>6, <1>7, <1>8, ZenonT(60) DEF InOrder2

\* The reader's pc once the store x is made.
LEMMA StoredFacts ==
  ASSUME NEW r \in ReaderType, NEW v \in ReaderType, NEW put, NEW k,
         Reading(r, put, k), r.pc = "store", NEW x \in r.stores,
         v.stores = r.stores \ {x}, v.out = r.out, v.max = r.max,
         v.pc = (IF r.stores # {x} THEN "store"
                 ELSE IF Len(r.out) < r.max THEN "check" ELSE "idle")
  PROVE  Reading(v, put, k)
<1>1. (v.pc = "store") <=> (v.stores # {})
  <2>1. CASE r.stores = {x}
    BY <2>1, Zenon
  <2>2. CASE r.stores # {x}
    BY <2>2, Zenon
  <2> QED
    BY <2>1, <2>2, Zenon
<1>2. v.pc \notin {"lo", "hi"} /\ (v.pc = "store" => k >= 1)
  BY Zenon DEF Reading
<1> QED
  BY <1>1, <1>2, Zenon DEF Reading

\* The slot whose flag the reader clears
FlagAt(ri, r) == IF "idx" \in r.stores THEN ri ELSE (ri - 1) % Cnt

\* is that of the element it took.
LEMMA ClearAt ==
  ASSUME NEW wi, NEW fr, NEW ri, NEW sl, NEW w, NEW r, NEW put, NEW k,
         InOrder2(wi, fr, ri, sl, w, r, put, k), r.pc = "store"
  PROVE  FlagAt(ri, r) = Entry(k) /\ FlagAt(ri, r) \in 0..mask
<1>1. k \in Nat /\ k >= 1 /\ Indices(wi, fr, ri, w, r, put, k)
  BY Zenon DEF InOrder2, Types2, Reading
<1>2. k - 1 \in Nat /\ (k - 1) + 1 = k
  BY <1>1
<1>3. Entry(k) \in 0..mask /\ Entry(k) = (k - 1) % Cnt
  BY ONLY <1>2, EntryFacts, Zenon
<1>4. ((k % Cnt) - 1) % Cnt = Entry(k)
  BY <1>1, EntryFacts, Zenon
<1>5. CASE "idx" \in r.stores
  BY <1>1, <1>3, <1>5, SMTT(60) DEF Indices, Passed, FlagAt
<1>6. CASE "idx" \notin r.stores
  <2>1. ri = k % Cnt
    BY <1>1, <1>6, Zenon DEF Indices, Passed
  <2> QED
    BY <1>3, <1>4, <1>6, <2>1, Zenon DEF FlagAt
<1> QED
  BY <1>5, <1>6, SMTT(60)

\* The reader clears the flag of the element it took,
LEMMA ClearFlagOK ==
  ASSUME NEW wi, NEW fr, NEW ri, NEW sl, NEW w, NEW r, NEW put, NEW k,
         InOrder2(wi, fr, ri, sl, w, r, put, k), r.pc = "store", "dd" \in r.stores,
         NEW v \in ReaderType, v.stores = r.stores \ {"dd"}, v.out = r.out,
         v.max = r.max,
         v.pc = (IF r.stores # {"dd"} THEN "store"
                 ELSE IF Len(r.out) < r.max THEN "check" ELSE "idle"),
         NEW x \in SlotType, x.dd = FALSE
  PROVE  InOrder2(wi, fr, ri, [sl EXCEPT ![FlagAt(ri, r)] = x], w, v, put, k)
<1> DEFINE at == FlagAt(ri, r)
           W == Len(put)
           P == Passed(r, k)
           new == [sl EXCEPT ![at] = x]
<1>1. /\ r \in ReaderType /\ Reading(r, put, k) /\ k \in Nat /\ k >= 1 /\ W \in Nat
      /\ sl \in [0..mask -> SlotType] /\ k <= W /\ P \in Nat /\ k - 1 <= P /\ P <= k
  <2>1. /\ r \in ReaderType /\ Reading(r, put, k) /\ k \in Nat /\ W \in Nat
        /\ sl \in [0..mask -> SlotType] /\ Indices(wi, fr, ri, w, r, put, k)
    BY DEF InOrder2, Types2
  <2>2. k >= 1
    BY <2>1, Zenon DEF Reading
  <2>3. k <= W /\ P \in Nat /\ k - 1 <= P /\ P <= k
    BY <2>1 DEF Indices, Passed
  <2> QED
    BY <2>1, <2>2, <2>3, SMTT(60)
<1>2. Reading(v, put, k)
  BY ONLY <1>1, r.pc = "store", "dd" \in r.stores, v \in ReaderType,
          v.stores = r.stores \ {"dd"}, v.out = r.out, v.max = r.max,
          v.pc = (IF r.stores # {"dd"} THEN "store"
                  ELSE IF Len(r.out) < r.max THEN "check" ELSE "idle"),
          StoredFacts, SMTT(60)
<1>3. "idx" \in v.stores <=> "idx" \in r.stores
  BY Zenon
<1>4. Passed(v, k) = P
  BY <1>3, Zenon DEF Passed
<1>5. at = Entry(k) /\ at \in 0..mask
  BY ClearAt, Zenon
<1>6. /\ fr \in Nat /\ Published2(w) \in Int /\ fr + W - Published2(w) - P <= mask
      /\ Published2(w) <= fr
  <2>1. w.n \in Nat /\ Len(w.todo) \in Nat /\ fr \in Nat
    BY DEF InOrder2, Types2, WriterType
  <2> QED
    BY <2>1, SMTT(60) DEF InOrder2, Writing, Published2, Indices
<1>7. W - k <= mask
  <2> HIDE DEF W, P
  <2> QED
    BY ONLY <1>1, <1>6, Ring2Constants, SMTT(60)
<1> HIDE DEF new, W
<1>8. /\ new \in [0..mask -> SlotType] /\ new[Entry(k)] = x
      /\ \A i \in 0..mask : i # at => new[i] = sl[i]
  BY <1>1, <1>5, SMTT(60) DEF new
<1>9. ASSUME NEW i \in (k + 1)..(k + mask)
      PROVE  new[Entry(i)] = sl[Entry(i)]
  <2>1. /\ i \in Nat \ {0} /\ i - 1 \in Nat /\ (i - 1) + 1 = i /\ k \in Nat \ {0}
        /\ i # k /\ i - k <= mask /\ k - i <= mask
    BY <1>1, Ring2Constants
  <2>2. Entry(i) # Entry(k)
    BY ONLY <2>1, EntriesApart, Zenon
  <2>3. Entry(i) \in 0..mask
    BY ONLY <2>1, EntryFacts, Zenon
  <2> QED
    BY <1>5, <1>8, <2>2, <2>3, SMTT(60)
<1>10. FullSlots(new, put, k)
  <2>1. \A i \in (k + 1)..W : i \in (k + 1)..(k + mask)
    BY <1>1, <1>7, Ring2Constants, SMTT(60)
  <2>2. FullSlots(sl, put, k)
    BY Zenon DEF InOrder2
  <2> QED
    BY ONLY <1>9, <2>1, <2>2, SMTT(60) DEF FullSlots, W
<1>11. EmptySlots(new, v, put, k)
  <2>1. new[Entry(k + Cnt)].dd = FALSE
    BY <1>1, <1>8, EntryFacts, Zenon
  <2>2. \A i \in (W + 1)..(k + Cnt) : i = k + Cnt \/ i \in (k + 1)..(k + mask)
    <3>1. W \in Nat /\ k \in Nat /\ k <= W
      BY <1>1, Zenon
    <3> QED
      BY ONLY <3>1, Ring2Constants
  <2>3. k + Cnt \notin (k + 1)..(k + mask)
    BY <1>1, Ring2Constants, SMTT(20)
  <2>4. EmptySlots(sl, r, put, k)
    BY Zenon DEF InOrder2
  <2> QED
    BY ONLY <1>9, <2>1, <2>2, <2>3, <2>4, SMTT(60) DEF EmptySlots, W
<1>12. Writing(fr, new, w, put)
  <2>1. CASE w.pc = "idle"
    BY <2>1, Zenon DEF Writing
  <2>2. CASE w.pc # "idle"
    <3>1. W + 1 - k <= mask
      BY <2>2, WriterRoom, Zenon DEF W
    <3>2. W + 1 \in (k + 1)..(k + mask)
      BY <1>1, <3>1, Ring2Constants, SMTT(60)
    <3>3. new[Entry(W + 1)] = sl[Entry(W + 1)]
      BY <1>9, <3>2, SMTT(60)
    <3>4. Writing(fr, sl, w, put)
      BY SMTT(60) DEF InOrder2
    <3> QED
      BY ONLY <3>3, <3>4, SMTT(60) DEF Writing, W
  <2> QED
    BY <2>1, <2>2, SMTT(60)
<1>13. Types2(fr, new, w, v, put, k) /\ Indices(wi, fr, ri, w, v, put, k)
  BY <1>4, <1>8, Zenon DEF InOrder2, Types2, Indices
<1> QED
  BY <1>2, <1>10, <1>11, <1>12, <1>13, ZenonT(60) DEF InOrder2, new

\* and moves its index, in either order.
LEMMA MoveIndexOK ==
  ASSUME NEW wi, NEW fr, NEW ri, NEW sl, NEW w, NEW r, NEW put, NEW k,
         InOrder2(wi, fr, ri, sl, w, r, put, k), r.pc = "store", "idx" \in r.stores,
         NEW v \in ReaderType, v.stores = r.stores \ {"idx"}, v.out = r.out,
         v.max = r.max,
         v.pc = (IF r.stores # {"idx"} THEN "store"
                 ELSE IF Len(r.out) < r.max THEN "check" ELSE "idle")
  PROVE  InOrder2(wi, fr, Advance(ri), sl, w, v, put, k)
<1> DEFINE W == Len(put)
<1>1. /\ r \in ReaderType /\ Reading(r, put, k) /\ k \in Nat /\ k >= 1 /\ W \in Nat
  <2>1. r \in ReaderType /\ Reading(r, put, k) /\ k \in Nat /\ W \in Nat
    BY DEF InOrder2, Types2
  <2>2. k >= 1
    BY <2>1, Zenon DEF Reading
  <2> QED
    BY <2>1, <2>2, SMTT(60)
<1>2. Reading(v, put, k)
  BY ONLY <1>1, r.pc = "store", "idx" \in r.stores, v \in ReaderType,
          v.stores = r.stores \ {"idx"}, v.out = r.out, v.max = r.max,
          v.pc = (IF r.stores # {"idx"} THEN "store"
                  ELSE IF Len(r.out) < r.max THEN "check" ELSE "idle"),
          StoredFacts, SMTT(60)
<1>3. Passed(r, k) = k - 1 /\ Passed(v, k) = k
  BY SMTT(60) DEF Passed
<1>4. Advance(ri) = k % Cnt
  <2>1. k - 1 \in Nat /\ (k - 1) + 1 = k
    BY <1>1
  <2>2. Advance((k - 1) % Cnt) = k % Cnt
    BY ONLY <2>1, EntryFacts, Zenon
  <2> QED
    BY <1>3, <2>2, Zenon DEF InOrder2, Indices
<1>5. Indices(wi, fr, Advance(ri), w, v, put, k)
  <2>1. /\ fr + W - Published2(w) - (k - 1) <= mask /\ k <= W /\ wi = W % Cnt
    BY <1>3, SMTT(60) DEF InOrder2, Indices
  <2>2. fr \in Nat /\ Published2(w) \in Int
    BY DEF InOrder2, Types2, WriterType, Published2
  <2> HIDE DEF W
  <2>3. fr + W - Published2(w) - k <= mask /\ k >= 0
    BY ONLY <1>1, <2>1, <2>2, Ring2Constants, SMTT(60)
  <2> QED
    BY <1>3, <1>4, <2>1, <2>3, Zenon DEF Indices, W
<1>6. Types2(fr, sl, w, v, put, k)
  BY Zenon DEF InOrder2, Types2
<1>7. EmptySlots(sl, v, put, k)
  <2>1. "dd" \in v.stores <=> "dd" \in r.stores
    BY Zenon
  <2> QED
    BY <2>1, Zenon DEF InOrder2, EmptySlots
<1> QED
  BY <1>2, <1>5, <1>6, <1>7, ZenonT(60) DEF InOrder2

-----------------------------------------------------------------------------
(* jring2: every call keeps both rings in order.                           *)

\* A ring whose fields are in order.
LEMMA BuildRing ==
  ASSUME NEW wi, NEW fr, NEW ri, NEW sl, NEW w, NEW r, NEW put, NEW k,
         InOrder2(wi, fr, ri, sl, w, r, put, k),
         NEW s \in RingWith(wi, fr, ri, sl, w, r, put, k)
  PROVE  Good2(s)
<1>1. /\ s.write_idx = wi /\ s.free_write_cnt = fr /\ s.read_idx = ri
      /\ s.slots = sl /\ s.w = w /\ s.r = r /\ s.put = put /\ s.taken = k
  BY Zenon DEF RingWith
<1> QED
  BY <1>1, Zenon DEF Good2

\* A call on one ring leaves the other alone.
LEMMA OneRing ==
  ASSUME RingsOK, NEW q \in Rings2, NEW t, Good2(t),
         ring2' = [ring2 EXCEPT ![q] = t]
  PROVE  RingsOK'
<1>1. ring2' = [x \in Rings2 |-> ring2'[x]]
  BY Zenon DEF RingsOK
<1>2. \A x \in Rings2 : Good2(ring2'[x])
  <2>1. ring2'[q] = t /\ \A x \in Rings2 : x # q => ring2'[x] = ring2[x]
    BY Zenon DEF RingsOK
  <2> QED
    BY <2>1, Zenon DEF RingsOK
<1> QED
  BY <1>1, <1>2, Zenon DEF RingsOK

\* What is known of a ring.
LEMMA RingParts ==
  ASSUME RingsOK, NEW q \in Rings2
  PROVE  LET s == ring2[q]
         IN /\ InOrder2(s.write_idx, s.free_write_cnt, s.read_idx, s.slots, s.w,
                        s.r, s.put, s.taken)
            /\ s \in RingWith(s.write_idx, s.free_write_cnt, s.read_idx, s.slots,
                         s.w, s.r, s.put, s.taken)
            /\ ring2 = [x \in Rings2 |-> ring2[x]]
            /\ s.w \in WriterType /\ s.r \in ReaderType
            /\ s.slots \in [0..mask -> SlotType]
<1>1. Good2(ring2[q])
  BY Zenon DEF RingsOK
<1> QED
  BY <1>1, Zenon DEF RingsOK, Good2, InOrder2, Types2

\* jring2_count,
LEMMA CountCall ==
  ASSUME RingsOK, NEW q \in Rings2, jring2_count(q)
  PROVE  RingsOK'
<1> DEFINE s == ring2[q]
           t == [s EXCEPT !.free_write_cnt = FreeSlots(s)]
<1>1. s.w.pc = "idle"
  BY Zenon DEF jring2_count
<1>2. Good2(t)
  <2>1. InOrder2(s.write_idx, FreeSlots(s), s.read_idx, s.slots, s.w, s.r,
                 s.put, s.taken)
    BY <1>1, RingParts, RefreshOK, Zenon
  <2>2. t \in RingWith(s.write_idx, FreeSlots(s), s.read_idx, s.slots, s.w, s.r,
                      s.put, s.taken)
    BY RingParts, Zenon DEF RingWith
  <2> QED
    BY <2>1, <2>2, BuildRing, Zenon
<1>3. ring2' = [ring2 EXCEPT ![q] = t]
  BY Zenon DEF jring2_count
<1> QED
  BY <1>2, <1>3, OneRing, Zenon

\* jring2_enqueue_bulk and jring2_enqueue,
LEMMA EnqueueCall ==
  ASSUME RingsOK, NEW q \in Rings2, NEW es \in Seq(Int), es # <<>>,
         jring2_enqueue_bulk(q, es)
  PROVE  RingsOK'
<1> DEFINE s == ring2[q]
           free == IF s.free_write_cnt < Len(es) THEN FreeSlots(s)
                   ELSE s.free_write_cnt
           fits == free >= Len(es)
           v == [pc |-> IF fits THEN "lo" ELSE "idle", n |-> Len(es),
                 todo |-> IF fits THEN es ELSE <<>>, ret |-> 0]
           t == [s EXCEPT !.free_write_cnt = free, !.w = v]
<1>1. s.w.pc = "idle" /\ ring2' = [ring2 EXCEPT ![q] = t]
  BY Zenon DEF jring2_enqueue_bulk
<1>2. InOrder2(s.write_idx, free, s.read_idx, s.slots, s.w, s.r, s.put, s.taken)
  <2>1. InOrder2(s.write_idx, FreeSlots(s), s.read_idx, s.slots, s.w, s.r,
                 s.put, s.taken)
    BY <1>1, RingParts, RefreshOK, Zenon
  <2> QED
    BY <2>1, RingParts, Zenon
<1> HIDE DEF free
<1>3. InOrder2(s.write_idx, free, s.read_idx, s.slots, v, s.r, s.put, s.taken)
  <2>1. CASE fits
    <3>1. Len(es) <= free /\ v = [pc |-> "lo", n |-> Len(es), todo |-> es, ret |-> 0]
      <4>1. free \in Nat /\ Len(es) \in Nat
        BY <1>2 DEF InOrder2, Types2
      <4> QED
        BY <2>1, <4>1, SMTT(60)
    <3> QED
      BY <1>1, <1>2, <3>1, BeginOK, Zenon
  <2>2. CASE ~fits
    <3>1. Len(es) \in Nat
      OBVIOUS
    <3>2. v = [pc |-> "idle", n |-> Len(es), todo |-> <<>>, ret |-> 0]
      BY <2>2, Zenon
    <3> QED
      BY <1>1, <1>2, <3>1, <3>2, NoneOK, Zenon
  <2> QED
    BY <2>1, <2>2, Zenon
<1> HIDE DEF v
<1>4. t \in RingWith(s.write_idx, free, s.read_idx, s.slots, v, s.r, s.put, s.taken)
  BY RingParts, ZenonT(60) DEF RingWith
<1>5. Good2(t)
  BY <1>3, <1>4, BuildRing, Zenon
<1> QED
  BY <1>1, <1>5, OneRing, Zenon

\* __jring2_insert,
LEMMA InsertCall ==
  ASSUME RingsOK, NEW q \in Rings2, jring2_insert(q)
  PROVE  RingsOK'
<1> DEFINE s == ring2[q]
           i == s.write_idx
           e == Head(s.w.todo)
           m == Len(s.w.todo)
<1>1. /\ InOrder2(i, s.free_write_cnt, s.read_idx, s.slots, s.w, s.r, s.put, s.taken)
      /\ s \in RingWith(i, s.free_write_cnt, s.read_idx, s.slots, s.w, s.r, s.put,
                        s.taken)
      /\ s.w \in WriterType
  BY RingParts, Zenon
<1>2. s.w.pc # "idle"
  <2>1. s.w.pc = "lo" \/ s.w.pc = "hi" \/ s.w.pc = "dd"
    BY Zenon DEF jring2_insert
  <2> QED
    BY <2>1, Zenon
<1>3. s.slots[i] \in SlotType /\ s.w.todo \in Seq(Int) /\ s.w.todo # <<>> /\ e \in Int
  <2>1. s.slots[i] \in SlotType
    BY <1>1, <1>2, WriterRoom, ZenonT(60)
  <2>2. s.w.todo \in Seq(Int) /\ s.w.todo # <<>>
    BY <1>1, <1>2, Zenon DEF WriterType, InOrder2, Writing
  <2> QED
    BY <2>1, <2>2
<1>4. CASE s.w.pc = "lo"
  <2> DEFINE x == [s.slots[i] EXCEPT !.lo = e]
             sl == [s.slots EXCEPT ![i] = x]
             v == [s.w EXCEPT !.pc = "hi"]
             t == [s EXCEPT !.slots = sl, !.w = v]
  <2>1. ring2' = [ring2 EXCEPT ![q].slots[i].lo = e, ![q].w.pc = "hi"]
    BY <1>4, Zenon DEF jring2_insert
  <2>2. @ = [ring2 EXCEPT ![q] = t]
    BY Zenon
  <2>3. /\ x \in SlotType /\ x.dd = s.slots[i].dd /\ x.lo = e
        /\ x.hi = s.slots[i].hi
    BY <1>3, Zenon DEF SlotType
  <2>4. v \in WriterType /\ v.todo = s.w.todo /\ v.n = s.w.n /\ v.pc = "hi"
    BY <1>1, Zenon DEF WriterType
  <2> HIDE DEF x, v
  <2>5. InOrder2(i, s.free_write_cnt, s.read_idx, sl, v, s.r, s.put, s.taken)
    BY <1>1, <1>4, <2>3, <2>4, CopyOK, Zenon
  <2> HIDE DEF sl
  <2>6. t \in RingWith(i, s.free_write_cnt, s.read_idx, sl, v, s.r, s.put, s.taken)
    BY <1>1, Zenon DEF RingWith
  <2>7. Good2(t)
    BY <2>5, <2>6, BuildRing, Zenon
  <2> QED
    BY <2>1, <2>2, <2>7, OneRing, Zenon
<1>5. CASE s.w.pc = "hi"
  <2> DEFINE x == [s.slots[i] EXCEPT !.hi = e]
             sl == [s.slots EXCEPT ![i] = x]
             v == [s.w EXCEPT !.pc = "dd"]
             t == [s EXCEPT !.slots = sl, !.w = v]
  <2>1. ring2' = [ring2 EXCEPT ![q].slots[i].hi = e, ![q].w.pc = "dd"]
    BY <1>5, Zenon DEF jring2_insert
  <2>2. @ = [ring2 EXCEPT ![q] = t]
    BY Zenon
  <2>3. /\ x \in SlotType /\ x.dd = s.slots[i].dd /\ x.hi = e
        /\ x.lo = s.slots[i].lo
    BY <1>3, Zenon DEF SlotType
  <2>4. v \in WriterType /\ v.todo = s.w.todo /\ v.n = s.w.n /\ v.pc = "dd"
    BY <1>1, SMTT(60) DEF WriterType
  <2> HIDE DEF x, v
  <2>5. InOrder2(i, s.free_write_cnt, s.read_idx, sl, v, s.r, s.put, s.taken)
    BY <1>1, <1>5, <2>3, <2>4, CopyOK, Zenon
  <2> HIDE DEF sl
  <2>6. t \in RingWith(i, s.free_write_cnt, s.read_idx, sl, v, s.r, s.put, s.taken)
    BY <1>1, Zenon DEF RingWith
  <2>7. Good2(t)
    BY <2>5, <2>6, BuildRing, Zenon
  <2> QED
    BY <2>1, <2>2, <2>7, OneRing, ZenonT(60)
<1>6. CASE s.w.pc = "dd"
  <2> DEFINE x == [s.slots[i] EXCEPT !.dd = TRUE]
             sl == [s.slots EXCEPT ![i] = x]
             more == Append(s.put, e)
             pc == IF m = 1 THEN "idle" ELSE "lo"
             ret == IF m = 1 THEN s.w.n ELSE 0
             free == IF m = 1 THEN s.free_write_cnt - s.w.n ELSE s.free_write_cnt
             v == [s.w EXCEPT !.pc = pc, !.todo = Tail(s.w.todo), !.ret = ret]
             t == [s EXCEPT !.slots = sl, !.put = more, !.write_idx = Advance(i),
                            !.free_write_cnt = free, !.w = v]
  <2>1. ring2' = [ring2 EXCEPT ![q].slots[i].dd = TRUE, ![q].put = Append(@, e),
                               ![q].write_idx = Advance(@),
                               ![q].free_write_cnt = IF m = 1 THEN @ - s.w.n ELSE @,
                               ![q].w = v]
    BY <1>6, Zenon DEF jring2_insert
  <2>2. ring2' = [ring2 EXCEPT ![q] = t]
    BY <2>1, ZenonT(30)
  <2>3. x \in SlotType /\ x.dd = TRUE /\ x.lo = s.slots[i].lo /\ x.hi = s.slots[i].hi
    BY <1>3, Zenon DEF SlotType
  <2>4. v \in WriterType /\ v.todo = Tail(s.w.todo) /\ v.n = s.w.n /\ v.pc = pc
    <3>1. /\ pc \in {"idle", "lo", "hi", "dd"} /\ Tail(s.w.todo) \in Seq(Int)
          /\ s.w.n \in Nat
      BY <1>1, <1>3 DEF WriterType
    <3>2. ret \in Nat
      BY <3>1, Zenon
    <3> HIDE DEF pc, ret
    <3> QED
      BY <1>1, <3>1, <3>2, Zenon DEF WriterType
  <2> HIDE DEF x, v
  <2>5. InOrder2(Advance(i), free, s.read_idx, sl, v, s.r, more, s.taken)
    BY <1>1, <1>6, <2>3, <2>4, PublishOK, Zenon
  <2> HIDE DEF sl, more, free
  <2>6. t \in RingWith(Advance(i), free, s.read_idx, sl, v, s.r, more, s.taken)
    BY <1>1, Zenon DEF RingWith
  <2>7. Good2(t)
    BY <2>5, <2>6, BuildRing, Zenon
  <2> QED
    BY <2>2, <2>7, OneRing, ZenonT(60)
<1> QED
  BY <1>1, <1>2, <1>4, <1>5, <1>6, Zenon DEF WriterType

\* jring2_dequeue_burst,
LEMMA BurstCall ==
  ASSUME RingsOK, NEW q \in Rings2, NEW n \in Nat, jring2_dequeue_burst(q, n)
  PROVE  RingsOK'
<1> DEFINE s == ring2[q]
           v == [s.r EXCEPT !.pc = "check", !.max = n, !.out = <<>>]
           t == [s EXCEPT !.r = v]
<1>1. /\ InOrder2(s.write_idx, s.free_write_cnt, s.read_idx, s.slots, s.w, s.r,
                  s.put, s.taken)
      /\ s \in RingWith(s.write_idx, s.free_write_cnt, s.read_idx, s.slots, s.w, s.r,
                        s.put, s.taken)
      /\ s.r \in ReaderType
  BY RingParts, Zenon
<1>2. s.r.pc = "idle" /\ ring2' = [ring2 EXCEPT ![q] = t]
  BY Zenon DEF jring2_dequeue_burst
<1>3. /\ v \in ReaderType /\ v.stores = s.r.stores /\ v.pc = "check" /\ v.out = <<>>
  <2>1. <<>> \in Seq(Int \X Int)
    OBVIOUS
  <2> QED
    BY <1>1, <2>1, Zenon DEF ReaderType
<1> HIDE DEF v
<1>4. InOrder2(s.write_idx, s.free_write_cnt, s.read_idx, s.slots, s.w, v, s.put,
               s.taken)
  BY <1>1, <1>2, <1>3, BeginReadOK, Zenon
<1>5. t \in RingWith(s.write_idx, s.free_write_cnt, s.read_idx, s.slots, s.w, v,
                     s.put, s.taken)
  BY <1>1, Zenon DEF RingWith
<1>6. Good2(t)
  BY <1>4, <1>5, BuildRing, Zenon
<1> QED
  BY <1>2, <1>6, OneRing, Zenon

\* and jring2_dequeue.
LEMMA DequeueCall ==
  ASSUME RingsOK, NEW q \in Rings2, jring2_dequeue(q)
  PROVE  RingsOK'
<1> DEFINE s == ring2[q]
           i == s.read_idx
           out == s.r.out
           stored(x) == [s.r EXCEPT !.stores = @ \ {x},
                                    !.pc = IF s.r.stores # {x} THEN "store"
                                           ELSE IF Len(out) < s.r.max THEN "check"
                                           ELSE "idle"]
<1>1. /\ InOrder2(s.write_idx, s.free_write_cnt, i, s.slots, s.w, s.r, s.put, s.taken)
      /\ s \in RingWith(s.write_idx, s.free_write_cnt, i, s.slots, s.w, s.r, s.put,
                        s.taken)
      /\ s.r \in ReaderType
  BY RingParts, ZenonT(60)
<1>2. /\ s.r.stores \in SUBSET {"dd", "idx"} /\ s.taken \in Nat /\ s.r.lo \in Int
      /\ s.slots \in [0..mask -> SlotType] /\ out \in Seq(Int \X Int)
  <2>1. s.taken \in Nat /\ s.slots \in [0..mask -> SlotType]
    BY <1>1, Zenon DEF InOrder2, Types2
  <2>2. s.r.stores \in SUBSET {"dd", "idx"} /\ s.r.lo \in Int
        /\ s.r.out \in Seq(Int \X Int)
    BY <1>1, SMTT(20) DEF ReaderType
  <2> QED
    BY <2>1, <2>2, Zenon
<1>3. CASE s.r.pc = "check"
  <2> DEFINE pc == IF s.slots[i].dd THEN "lo" ELSE "idle"
             v == [s.r EXCEPT !.pc = pc]
             t == [s EXCEPT !.r = v]
  <2>1. ring2' = [ring2 EXCEPT ![q].r.pc = IF Full(s) THEN "lo" ELSE "idle"]
    BY <1>3, Zenon DEF jring2_dequeue
  <2>2. ring2' = [ring2 EXCEPT ![q] = t]
    BY <2>1, Zenon DEF Full
  <2>3. pc \in {"idle", "check", "lo", "hi", "store"}
    BY Zenon
  <2>4. v \in ReaderType /\ v.stores = s.r.stores /\ v.pc = pc /\ v.out = out
    <3> HIDE DEF pc
    <3> QED
      BY <1>1, <2>3, Zenon DEF ReaderType
  <2> HIDE DEF v
  <2>5. InOrder2(s.write_idx, s.free_write_cnt, i, s.slots, s.w, v, s.put, s.taken)
    BY <1>1, <1>3, <2>4, BeginReadOK, Zenon
  <2>6. t \in RingWith(s.write_idx, s.free_write_cnt, i, s.slots, s.w, v, s.put,
                       s.taken)
    BY <1>1, Zenon DEF RingWith
  <2>7. Good2(t)
    BY <2>5, <2>6, BuildRing, Zenon
  <2> QED
    BY <2>2, <2>7, OneRing, Zenon
<1>4. CASE s.r.pc = "lo"
  <2> DEFINE v == [s.r EXCEPT !.lo = s.slots[i].lo, !.pc = "hi"]
             t == [s EXCEPT !.r = v]
  <2>1. ring2' = [ring2 EXCEPT ![q].r.lo = s.slots[i].lo, ![q].r.pc = "hi"]
    BY <1>4, Zenon DEF jring2_dequeue
  <2>2. ring2' = [ring2 EXCEPT ![q] = t]
    BY <2>1, Zenon
  <2>3. s.slots[i].lo \in Int
    <3>1. s.r.pc # "store"
      BY <1>4, Zenon
    <3>2. i \in 0..mask
      BY <1>1, <3>1, ReaderAt, ZenonT(60) DEF AtNext
    <3> QED
      BY <1>2, <3>2, Zenon DEF SlotType
  <2>4. /\ v \in ReaderType /\ v.stores = s.r.stores /\ v.pc = "hi" /\ v.out = out
        /\ v.lo = s.slots[i].lo
    BY <1>1, <2>3, Zenon DEF ReaderType
  <2> HIDE DEF v
  <2>5. InOrder2(s.write_idx, s.free_write_cnt, i, s.slots, s.w, v, s.put, s.taken)
    BY <1>1, <1>4, <2>4, BeginReadOK, Zenon
  <2>6. t \in RingWith(s.write_idx, s.free_write_cnt, i, s.slots, s.w, v, s.put,
                       s.taken)
    BY <1>1, Zenon DEF RingWith
  <2>7. Good2(t)
    BY <2>5, <2>6, BuildRing, Zenon
  <2> QED
    BY <2>2, <2>7, OneRing, Zenon
<1>5. CASE s.r.pc = "hi"
  <2> DEFINE both == {"dd", "idx"}
             more == Append(out, <<s.r.lo, s.slots[i].hi>>)
             v == [s.r EXCEPT !.pc = "store", !.hi = s.slots[i].hi,
                              !.stores = both, !.out = more]
             k == s.taken + 1
             t == [s EXCEPT !.taken = k, !.r = v]
  <2>1. ring2' = [ring2 EXCEPT
                    ![q].taken = @ + 1,
                    ![q].r = [s.r EXCEPT !.pc = "store", !.hi = s.slots[i].hi,
                                         !.stores = {"dd", "idx"},
                                         !.out = Append(@, <<s.r.lo, s.slots[i].hi>>)]]
    BY <1>5, Zenon DEF jring2_dequeue
  <2>2. ring2' = [ring2 EXCEPT ![q] = t]
    BY <2>1, Zenon
  <2>3. s.slots[i].hi \in Int
    <3>1. s.r.pc # "store"
      BY <1>5, Zenon
    <3>2. i \in 0..mask
      BY <1>1, <3>1, ReaderAt, ZenonT(30) DEF AtNext
    <3> QED
      BY <1>2, <3>2, Zenon DEF SlotType
  <2>4. /\ v \in ReaderType /\ v.stores = both /\ v.pc = "store" /\ v.out = more
    <3>1. more \in Seq(Int \X Int) /\ both \in SUBSET {"dd", "idx"}
      BY <1>2, <2>3
    <3> HIDE DEF more, both
    <3> QED
      BY <1>1, <2>3, <3>1, Zenon DEF ReaderType
  <2> HIDE DEF v
  <2>5. InOrder2(s.write_idx, s.free_write_cnt, i, s.slots, s.w, v, s.put, k)
    BY <1>1, <1>5, <2>4, TakeOK, Zenon
  <2> HIDE DEF k
  <2>6. t \in RingWith(s.write_idx, s.free_write_cnt, i, s.slots, s.w, v, s.put, k)
    BY <1>1, Zenon DEF RingWith
  <2>7. Good2(t)
    BY <2>5, <2>6, BuildRing, Zenon
  <2> QED
    BY <2>2, <2>7, OneRing, Zenon
<1>6. ASSUME NEW x \in s.r.stores
      PROVE  /\ stored(x) \in ReaderType /\ stored(x).stores = s.r.stores \ {x}
             /\ stored(x).out = out /\ stored(x).max = s.r.max
             /\ stored(x).pc = (IF s.r.stores # {x} THEN "store"
                                ELSE IF Len(out) < s.r.max THEN "check" ELSE "idle")
  <2> DEFINE pc == IF s.r.stores # {x} THEN "store"
                   ELSE IF Len(out) < s.r.max THEN "check" ELSE "idle"
             rest == s.r.stores \ {x}
  <2>1. pc \in {"idle", "check", "lo", "hi", "store"} /\ rest \in SUBSET {"dd", "idx"}
    BY <1>2, Zenon
  <2> HIDE DEF pc, rest
  <2>2. [s.r EXCEPT !.stores = rest, !.pc = pc] \in ReaderType
    BY <1>1, <2>1, Zenon DEF ReaderType
  <2>3. /\ [s.r EXCEPT !.stores = rest, !.pc = pc].stores = rest
        /\ [s.r EXCEPT !.stores = rest, !.pc = pc].pc = pc
        /\ [s.r EXCEPT !.stores = rest, !.pc = pc].out = out
        /\ [s.r EXCEPT !.stores = rest, !.pc = pc].max = s.r.max
    BY <1>1, Zenon DEF ReaderType
  <2> QED
    BY <2>2, <2>3, Zenon DEF rest, pc
<1>7. CASE s.r.pc = "store" /\ "dd" \in s.r.stores
           /\ LET at == IF "idx" \in s.r.stores THEN i ELSE (i - 1) % Cnt
              IN ring2' = [ring2 EXCEPT ![q].slots[at].dd = FALSE,
                                        ![q].r = stored("dd")]
  <2> DEFINE at == FlagAt(i, s.r)
             x == [s.slots[at] EXCEPT !.dd = FALSE]
             sl == [s.slots EXCEPT ![at] = x]
             v == stored("dd")
             t == [s EXCEPT !.slots = sl, !.r = v]
  <2>1. ring2' = [ring2 EXCEPT ![q] = t]
    BY <1>7, Zenon DEF FlagAt
  <2>2. "dd" \in s.r.stores
    BY <1>7, Zenon
  <2>3. /\ v \in ReaderType /\ v.stores = s.r.stores \ {"dd"}
        /\ v.out = s.r.out /\ v.max = s.r.max
        /\ v.pc = (IF s.r.stores # {"dd"} THEN "store"
                   ELSE IF Len(s.r.out) < s.r.max THEN "check" ELSE "idle")
    BY <1>6, <2>2, ZenonT(60)
  <2>4. s.r.pc = "store"
    BY <1>7, Zenon
  <2> HIDE DEF v
  <2>5. at \in 0..mask
    BY <1>1, <2>4, ClearAt, Zenon
  <2>6. s.slots[at] \in SlotType
    BY <1>2, <2>5, Zenon
  <2>7. x \in SlotType /\ x.dd = FALSE
    BY <2>6, Zenon DEF SlotType
  <2> HIDE DEF x
  <2>8. InOrder2(s.write_idx, s.free_write_cnt, i, sl, s.w, v, s.put, s.taken)
    BY <1>1, <2>2, <2>3, <2>4, <2>7, ClearFlagOK, Zenon
  <2> HIDE DEF sl
  <2>9. t \in RingWith(s.write_idx, s.free_write_cnt, i, sl, s.w, v, s.put, s.taken)
    BY <1>1, Zenon DEF RingWith
  <2>10. Good2(t)
    BY <2>8, <2>9, BuildRing, Zenon
  <2> QED
    BY <2>1, <2>10, OneRing, Zenon
<1>8. CASE s.r.pc = "store" /\ "idx" \in s.r.stores
           /\ ring2' = [ring2 EXCEPT ![q].read_idx = Advance(@),
                                     ![q].r = stored("idx")]
  <2> DEFINE v == stored("idx")
             t == [s EXCEPT !.read_idx = Advance(i), !.r = v]
  <2>1. ring2' = [ring2 EXCEPT ![q] = t]
    BY <1>8, Zenon
  <2>2. /\ v \in ReaderType /\ v.stores = s.r.stores \ {"idx"}
        /\ v.out = s.r.out /\ v.max = s.r.max
        /\ v.pc = (IF s.r.stores # {"idx"} THEN "store"
                   ELSE IF Len(s.r.out) < s.r.max THEN "check" ELSE "idle")
    BY <1>6, <1>8, Zenon
  <2> HIDE DEF v
  <2>3. InOrder2(s.write_idx, s.free_write_cnt, Advance(i), s.slots, s.w, v, s.put,
                 s.taken)
    BY <1>1, <1>8, <2>2, MoveIndexOK, Zenon
  <2>4. t \in RingWith(s.write_idx, s.free_write_cnt, Advance(i), s.slots, s.w, v,
                       s.put, s.taken)
    BY <1>1, Zenon DEF RingWith
  <2>5. Good2(t)
    BY <2>3, <2>4, BuildRing, Zenon
  <2> QED
    BY <2>1, <2>5, OneRing, Zenon
<1> QED
  BY <1>3, <1>4, <1>5, <1>7, <1>8, Zenon DEF jring2_dequeue

-----------------------------------------------------------------------------
(* jring2: the programs.                                                   *)

\* Both rings start in order,
LEMMA Ring2Init ==
  ASSUME NEW mode \in {"free", "echo"}, EchoInit(mode)
  PROVE  Ring2Inv
<1> DEFINE s == jring2_init
           empty == [i \in 0..mask |-> [dd |-> FALSE, lo |-> 0, hi |-> 0]]
           w == [pc |-> "idle", todo |-> <<>>, n |-> 0, ret |-> 0]
           r == [pc |-> "idle", max |-> 0, lo |-> 0, hi |-> 0, stores |-> {},
                 out |-> <<>>]
<1>1. /\ <<>> \in Seq(Int) /\ <<>> \in Seq(Int \X Int) /\ Len(<<>>) = 0
      /\ mask \in Nat /\ Cnt \in Nat \ {0} /\ mask = Cnt - 1
  BY Ring2Constants
<1>2. w \in WriterType /\ w.pc = "idle"
  BY <1>1, Zenon DEF WriterType
<1>3. r \in ReaderType /\ r.pc = "idle" /\ r.stores = {} /\ r.out = <<>>
  BY <1>1 DEF ReaderType
<1>4. empty \in [0..mask -> SlotType] /\ \A i \in 0..mask : empty[i].dd = FALSE
  BY SMTT(60) DEF SlotType
<1>5. s \in RingWith(0, mask, 0, empty, w, r, <<>>, 0)
  BY Zenon DEF RingWith, jring2_init
<1> HIDE DEF w, r, empty, s
<1>6. Types2(mask, empty, w, r, <<>>, 0)
  BY <1>1, <1>2, <1>3, <1>4, SMTT(60) DEF Types2
<1>7. Passed(r, 0) = 0 /\ Published2(w) = 0
  BY <1>2, <1>3, Zenon DEF Passed, Published2
<1>8. 0 % Cnt = 0
  <2>1. 0 \in 0..(Cnt - 1)
    BY <1>1
  <2> QED
    BY <1>1, <2>1, ModSmall, Zenon
<1>9. Indices(0, mask, 0, w, r, <<>>, 0)
  BY <1>1, <1>7, <1>8 DEF Indices
<1>10. Writing(mask, empty, w, <<>>)
  BY <1>2, Zenon DEF Writing
<1>11. Reading(r, <<>>, 0)
  BY <1>1, <1>3 DEF Reading
<1>12. FullSlots(empty, <<>>, 0)
  BY <1>1 DEF FullSlots
<1>13. EmptySlots(empty, r, <<>>, 0)
  <2>1. ASSUME NEW i \in 1..Cnt PROVE Entry(i) \in 0..mask
    <3>1. i - 1 \in Nat /\ (i - 1) + 1 = i
      BY <1>1
    <3> QED
      BY ONLY <3>1, EntryFacts, Zenon
  <2>2. \A i \in (0 + 1)..(0 + Cnt) : i \in 1..Cnt
    BY <1>1
  <2> QED
    BY <1>1, <1>4, <2>1, <2>2, SMTT(60) DEF EmptySlots
<1>14. Good2(s)
  <2>1. InOrder2(0, mask, 0, empty, w, r, <<>>, 0)
    BY <1>6, <1>9, <1>10, <1>11, <1>12, <1>13, ZenonT(60) DEF InOrder2
  <2> QED
    BY <1>5, <2>1, BuildRing, Zenon
<1>15. RingsOK
  <2>1. ring2 = [q \in Rings2 |-> jring2_init]
    BY Zenon DEF EchoInit
  <2> QED
    BY <1>14, <2>1, Zenon DEF RingsOK, s
<1>16. echo \in EchoType
  BY DEF EchoInit, EchoType
<1> QED
  BY <1>15, <1>16, Zenon DEF Ring2Inv

\* and every step of the threads keeps them so.
LEMMA Ring2Step ==
  ASSUME Ring2Inv, [Next2]_vars2
  PROVE  Ring2Inv'
<1>1. RingsOK /\ echo \in EchoType /\ "p2c" \in Rings2 /\ "c2p" \in Rings2
  BY EchoAssumption, Zenon DEF Ring2Inv, EchoAssumption
<1>2. UNCHANGED ring2 => RingsOK'
  BY <1>1, Zenon DEF RingsOK
<1>3. CASE UNCHANGED vars2
  BY <1>1, <1>2, <1>3, Zenon DEF vars2, Ring2Inv
<1>4. CASE Interrupt
  <2>1. echo' \in EchoType /\ UNCHANGED ring2
    BY <1>1, <1>4, Zenon DEF Interrupt, EchoType
  <2> QED
    BY <1>2, <2>1, Zenon DEF Ring2Inv
<1>5. CASE ProducerThread
  <2>1. echo' \in EchoType
    <3>1. \/ echo' = [echo EXCEPT !.ppc = IF echo.inflight = kWindowSize THEN "poll"
                                          ELSE "issue"]
          \/ echo' = [echo EXCEPT !.ppc = "answer"]
          \/ echo' = [echo EXCEPT !.ppc = "poll"]
          \/ echo' = [echo EXCEPT !.exit = "mismatch"]
          \/ echo' = [echo EXCEPT !.ppc = "issue", !.seq_num = @ + 1, !.inflight = @ - 1]
          \/ echo' = [echo EXCEPT !.ppc = "sent"]
          \/ echo' = [echo EXCEPT !.ppc = "top", !.inflight = @ + 1]
      BY <1>5, Zenon DEF ProducerThread
    <3>2. echo.seq_num + 1 \in Int /\ echo.inflight - 1 \in Int /\ echo.inflight + 1 \in Int
      BY <1>1 DEF EchoType
    <3> QED
      BY <1>1, <3>1, <3>2, ZenonT(30) DEF EchoType
  <2>2. RingsOK'
    <3>1. CASE UNCHANGED ring2
      BY <1>2, <3>1, Zenon
    <3>2. CASE jring2_dequeue_burst("c2p", 1)
      <4>1. 1 \in Nat
        BY Zenon
      <4> QED
        BY <1>1, <3>2, <4>1, BurstCall, Zenon
    <3>3. CASE jring2_enqueue_bulk("p2c", <<echo.seq_num + echo.inflight>>)
      <4> DEFINE es == <<echo.seq_num + echo.inflight>>
      <4>1. es \in Seq(Int) /\ es # <<>>
        BY <1>1 DEF EchoType
      <4> HIDE DEF es
      <4>2. jring2_enqueue_bulk("p2c", es)
        BY <3>3, Zenon DEF es
      <4> QED
        BY <1>1, <4>1, <4>2, EnqueueCall, Zenon
    <3> QED
      BY <1>5, <3>1, <3>2, <3>3, Zenon DEF ProducerThread
  <2> QED
    BY <2>1, <2>2, Zenon DEF Ring2Inv
<1>6. CASE ConsumerThread
  <2>1. echo' \in EchoType
    <3>1. ring2["p2c"].r.out \in Seq(Int \X Int)
      <4>1. ring2["p2c"].r \in ReaderType
        BY <1>1, RingParts, Zenon
      <4> QED
        BY <4>1, Zenon DEF ReaderType
    <3>2. ring2["p2c"].r.out # <<>> => ring2["p2c"].r.out[1][1] \in Int
      BY <3>1
    <3> QED
      BY <1>1, <1>6, <3>2, ZenonT(60) DEF ConsumerThread, EchoType
  <2>2. RingsOK'
    <3>1. CASE UNCHANGED ring2
      BY <1>2, <3>1, Zenon
    <3>2. CASE jring2_dequeue_burst("p2c", 1)
      <4>1. 1 \in Nat
        BY Zenon
      <4> QED
        BY <1>1, <3>2, <4>1, BurstCall, Zenon
    <3>3. CASE jring2_enqueue_bulk("c2p", <<echo.msg>>)
      <4>1. <<echo.msg>> \in Seq(Int) /\ <<echo.msg>> # <<>>
        BY <1>1 DEF EchoType
      <4> QED
        BY <1>1, <3>3, <4>1, EnqueueCall, Zenon
    <3> QED
      BY <1>6, <3>1, <3>2, <3>3, Zenon DEF ConsumerThread
  <2> QED
    BY <2>1, <2>2, Zenon DEF Ring2Inv
<1>7. CASE FreeCall
  <2>1. UNCHANGED echo
    BY <1>7, Zenon DEF FreeCall
  <2>2. RingsOK'
    <3> DEFINE put == Len(ring2["p2c"].put)
    <3>1. put \in Nat
      <4>1. ring2["p2c"].put \in Seq(Int)
        BY <1>1, RingParts, Zenon DEF InOrder2, Types2
      <4> QED
        BY <4>1
    <3> HIDE DEF put
    <3>2. CASE jring2_enqueue("p2c", put + 1)
      <4>1. <<put + 1>> \in Seq(Int) /\ <<put + 1>> # <<>>
        BY <3>1
      <4> QED
        BY <1>1, <3>2, <4>1, EnqueueCall, Zenon DEF jring2_enqueue
    <3>3. ASSUME NEW n \in 2..3,
                 jring2_enqueue_bulk("p2c", [k \in 1..n |-> put + k])
          PROVE  RingsOK'
      <4> DEFINE es == [k \in 1..n |-> put + k]
      <4>1. es \in Seq(Int) /\ Len(es) = n
        BY <3>1
      <4>2. es # <<>>
        BY <4>1
      <4> HIDE DEF es
      <4>3. jring2_enqueue_bulk("p2c", es)
        BY <3>3, Zenon DEF es
      <4> QED
        BY <1>1, <4>1, <4>2, <4>3, EnqueueCall, Zenon
    <3>4. CASE jring2_count("p2c")
      BY <1>1, <3>4, CountCall, Zenon
    <3>5. ASSUME NEW n \in 1..2, jring2_dequeue_burst("p2c", n)
          PROVE  RingsOK'
      <4>1. n \in Nat
        OBVIOUS
      <4> QED
        BY <1>1, <3>5, <4>1, BurstCall, Zenon
    <3> QED
      BY <1>7, <3>2, <3>3, <3>4, <3>5, Zenon DEF FreeCall, put
  <2> QED
    BY <1>1, <2>1, <2>2, Zenon DEF Ring2Inv
<1>8. ASSUME NEW q \in Rings2, WriterStep(q)
      PROVE  Ring2Inv'
  <2>1. UNCHANGED echo /\ RingsOK'
    BY <1>1, <1>8, InsertCall, Zenon DEF WriterStep
  <2> QED
    BY <1>1, <2>1, Zenon DEF Ring2Inv
<1>9. ASSUME NEW q \in Rings2, ReaderStep(q)
      PROVE  Ring2Inv'
  <2>1. UNCHANGED echo /\ RingsOK'
    BY <1>1, <1>9, DequeueCall, Zenon DEF ReaderStep
  <2> QED
    BY <1>1, <2>1, Zenon DEF Ring2Inv
<1> QED
  BY <1>3, <1>4, <1>5, <1>6, <1>7, <1>8, <1>9, ZenonT(60) DEF Next2

\* jring2 loses, tears and overwrites no entry, for every number of slots, and
\* however the writer's and the reader's steps interleave: EntriesKept holds of
\* the programs that use it, the free one and the echo one.
THEOREM Ring2EntriesKept ==
  (\E mode \in {"free", "echo"} : EchoInit(mode)) /\ [][Next2]_vars2 => []EntriesKept
<1>1. (\E mode \in {"free", "echo"} : EchoInit(mode)) => Ring2Inv
  BY Ring2Init, Zenon
<1>2. Ring2Inv /\ [Next2]_vars2 => Ring2Inv'
  BY Ring2Step, Zenon
<1>3. Ring2Inv => EntriesKept
  <2>1. ASSUME RingsOK, NEW q \in Rings2
        PROVE  LET s == ring2[q]
               IN /\ FullSlots(s.slots, s.put, s.taken) /\ s.taken <= Len(s.put)
                  /\ Reading(s.r, s.put, s.taken)
    BY <2>1, RingParts, Zenon DEF InOrder2, Indices
  <2> QED
    BY <2>1, Zenon DEF Ring2Inv, EntriesKept, FullSlots, Reading
<1> QED
  BY <1>1, <1>2, <1>3, PTL

=============================================================================
