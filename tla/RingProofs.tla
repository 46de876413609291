----------------------------- MODULE RingProofs -----------------------------
(***************************************************************************)
(* Proofs about the rings of jring.h (module JRing): for any number of     *)
(* threads, any ring size and counters that wrap, consumers read what      *)
(* producers wrote, and the ring implements a bounded queue.               *)
(***************************************************************************)
EXTENDS JRing, TLAPS

-----------------------------------------------------------------------------
(* Remainders.                                                             *)

\* Quotient and remainder of an integer,
LEMMA DivMod ==
  ASSUME NEW m \in Nat \ {0}, NEW a \in Int
  PROVE  /\ a \div m \in Int /\ a % m \in 0..(m - 1)
         /\ a = m * (a \div m) + (a % m)
  OBVIOUS

\* which are the only ones.
LEMMA ModUnique ==
  ASSUME NEW m \in Nat \ {0}, NEW q \in Int, NEW r \in 0..(m - 1)
  PROVE  (m * q + r) % m = r
<1> DEFINE a == m * q + r
           p == a \div m
           s == a % m
<1>1. a \in Int /\ p \in Int /\ s \in 0..(m - 1) /\ a = m * p + s
  BY DivMod
<1> HIDE DEF p, s
<1>2. m * (q - p) = s - r
  BY <1>1
<1>3. q - p >= 1 => m * (q - p) >= m
  <2>1. ASSUME NEW k \in Int, k >= 1 PROVE m * k >= m
    BY <2>1
  <2> QED
    BY <1>1, <2>1
<1>4. q - p <= -1 => m * (q - p) <= -m
  <2>1. ASSUME NEW k \in Int, k <= -1 PROVE m * k <= -m
    BY <2>1
  <2> QED
    BY <1>1, <2>1
<1>5. q - p = 0
  BY <1>1, <1>2, <1>3, <1>4
<1>6. s = r
  BY <1>1, <1>2, <1>5
<1> QED
  BY <1>6, Zenon DEF s

\* Adding a multiple does not change the remainder.
LEMMA ModShift ==
  ASSUME NEW m \in Nat \ {0}, NEW a \in Int, NEW k \in Int
  PROVE  (a + m * k) % m = a % m
<1> DEFINE q == a \div m
           r == a % m
<1>1. q \in Int /\ r \in 0..(m - 1) /\ a = m * q + r
  BY DivMod, Zenon
<1> HIDE DEF q, r
<1>2. a + m * k = m * (q + k) + r
  BY <1>1
<1>3. (m * (q + k) + r) % m = r
  BY <1>1, ModUnique
<1> QED
  BY <1>2, <1>3, Zenon DEF r

\* A remainder may be taken of the parts of a sum first,
LEMMA ModSum ==
  ASSUME NEW m \in Nat \ {0}, NEW a \in Int, NEW c \in Int
  PROVE  ((a % m) + c) % m = (a + c) % m
<1> DEFINE q == a \div m
           r == a % m
<1>1. q \in Int /\ r \in 0..(m - 1) /\ a = m * q + r
  BY DivMod, Zenon
<1> HIDE DEF q, r
<1>2. r + c = (a + c) + m * (-q)
  BY <1>1
<1>3. ((a + c) + m * (-q)) % m = (a + c) % m
  <2>1. a + c \in Int /\ -q \in Int
    BY <1>1
  <2> QED
    BY ONLY <2>1, m \in Nat \ {0}, ModShift, Zenon
<1> QED
  BY <1>2, <1>3, Zenon DEF r

\* or of a difference.
LEMMA ModDiff ==
  ASSUME NEW m \in Nat \ {0}, NEW a \in Int, NEW b \in Int, NEW c \in Int
  PROVE  (c + (a % m) - (b % m)) % m = (c + a - b) % m
<1> DEFINE q == a \div m
           r == a % m
           p == b \div m
           s == b % m
<1>1. q \in Int /\ r \in 0..(m - 1) /\ a = m * q + r
  BY DivMod, Zenon
<1>2. p \in Int /\ s \in 0..(m - 1) /\ b = m * p + s
  BY DivMod, Zenon
<1> HIDE DEF q, r, p, s
<1>3. c + r - s = (c + a - b) + m * (p - q)
  BY <1>1, <1>2
<1>4. ((c + a - b) + m * (p - q)) % m = (c + a - b) % m
  <2>1. c + a - b \in Int /\ p - q \in Int
    BY <1>1, <1>2
  <2> QED
    BY ONLY <2>1, m \in Nat \ {0}, ModShift, Zenon
<1> QED
  BY <1>3, <1>4, Zenon DEF r, s

\* Small numbers are their own remainder, and two numbers less than the modulus
\* apart have different ones.
LEMMA ModSmall ==
  ASSUME NEW m \in Nat \ {0}, NEW r \in 0..(m - 1)
  PROVE  r % m = r
<1>1. m * 0 + r = r
  OBVIOUS
<1> QED
  BY <1>1, ModUnique

\* Numbers less than m apart with the same remainder are equal.
LEMMA ModApart ==
  ASSUME NEW m \in Nat \ {0}, NEW a \in Int, NEW b \in Int,
         a % m = b % m, b <= a, a - b < m
  PROVE  a = b
<1> DEFINE p == a \div m
           q == b \div m
           r == a % m
<1>1. p \in Int /\ r \in Int /\ a = m * p + r /\ q \in Int /\ b = m * q + r
  BY DivMod
<1> HIDE DEF p, q, r
<1>2. a - b = m * (p - q)
  BY <1>1
<1>3. \A k \in Int : (k >= 1 => m * k >= m) /\ (k <= -1 => m * k <= -m)
  OBVIOUS
<1>4. p - q \in Int
  BY <1>1
<1>5. p - q = 0
  BY <1>2, <1>3, <1>4
<1> QED
  BY <1>1, <1>5

\* A remainder modulo a multiple may be taken first.
LEMMA ModMod ==
  ASSUME NEW m \in Nat \ {0}, NEW n \in Nat \ {0}, n % m = 0,
         NEW a \in Int, NEW c \in Int
  PROVE  ((a % n) + c) % m = (a + c) % m
<1> DEFINE q == a \div n
           r == a % n
           k == n \div m
<1>1. q \in Int /\ r \in Int /\ a = n * q + r
  BY DivMod
<1>2. k \in Int /\ n = m * k
  <2>1. n \div m \in Int /\ n = m * (n \div m) + (n % m)
    BY DivMod
  <2> QED
    BY <2>1
<1> HIDE DEF q, r, k
<1>3. n * q = m * (k * q)
  BY <1>1, <1>2
<1>4. r + c = (a + c) + m * (-(k * q))
  <2>1. k * q \in Int
    BY <1>1, <1>2
  <2> QED
    BY <1>1, <1>3, <2>1
<1>5. ((a + c) + m * (-(k * q))) % m = (a + c) % m
  <2>1. a + c \in Int /\ -(k * q) \in Int
    BY <1>1, <1>2
  <2> QED
    BY ONLY <2>1, m \in Nat \ {0}, ModShift, Zenon
<1> QED
  BY <1>4, <1>5, Zenon DEF r
-----------------------------------------------------------------------------
(* jring: the inductive invariant. The counters stand for positions in the *)
(* queue of all elements ever claimed. Thread t in "copy" or "update" owns *)
(* the positions at + 1 .. at + n; the owners of one side never overlap,   *)
(* and together they own everything from the tail to the head.             *)

\* The tail of the consumers as a position, as Published is the producers'.
Released == taken - Wrap(ht["cons"].head - ht["cons"].tail)

Sides == {"prod", "cons"}
HeadAt(s) == IF s = "prod" THEN Len(claimed) ELSE taken
TailAt(s) == IF s = "prod" THEN Published ELSE Released
Limit(s)  == IF s = "prod" THEN Released + capacity ELSE Published

SlotOf(i) == (Start + i - 1) % Size

Busy(t) == thr[t].pc \in {"copy", "update"}
Owns(t, i) == Busy(t) /\ thr[t].at < i /\ i <= thr[t].at + thr[t].n

Values == Elements \cup {Stale}
ThrType == [pc : {"idle", "check", "move", "copy", "update"}, calls : Nat,
            max : Nat, fixed : BOOLEAN, old : Nat, n : Nat, at : Nat,
            got : Seq(Values)]

RingType ==
  /\ setup \in Setups
  /\ ht \in [Sides -> [head : Nat, tail : Nat]]
  /\ slots \in [0..(Size - 1) -> Values]
  /\ thr \in [Threads -> ThrType]
  /\ claimed \in Seq(Elements) /\ taken \in Nat

Counters ==
  /\ \A s \in Sides : /\ ht[s].head = Wrap(Start + HeadAt(s))
                      /\ ht[s].tail = Wrap(Start + TailAt(s))
  /\ 0 <= Released /\ Released <= taken /\ taken <= Published
  /\ Published <= Len(claimed) /\ Len(claimed) <= Released + capacity

\* A thread that has loaded the head: its batch still fits when it is not late.
Loaded(t) ==
  /\ thr[t].old = Wrap(Start + thr[t].at) /\ thr[t].at <= HeadAt(Side(t))
  /\ Single(t) => thr[t].at = HeadAt(Side(t))
  /\ thr[t].got = <<>>
  /\ thr[t].pc = "move" =>
       thr[t].n >= 1 /\ thr[t].at + thr[t].n <= Limit(Side(t))

\* A thread that has moved the head.
Owner(t) ==
  /\ thr[t].old = Wrap(Start + thr[t].at) /\ thr[t].n >= 1
  /\ TailAt(Side(t)) <= thr[t].at /\ thr[t].at + thr[t].n <= HeadAt(Side(t))
  /\ thr[t].pc = "copy" => Len(thr[t].got) < thr[t].n
  /\ thr[t].pc = "update" => Len(thr[t].got) = thr[t].n
  /\ Side(t) = "prod" =>
       \A k \in 1..thr[t].n :
         claimed[thr[t].at + k] = Element(t, thr[t].calls, k)

ThreadOK(t) ==
  /\ thr[t].pc # "idle" => t \in setup.users
  /\ thr[t].pc \in {"check", "move"} => Loaded(t)
  /\ Busy(t) => Owner(t)

Disjoint ==
  \A t, u \in Threads :
    Busy(t) /\ Busy(u) /\ t # u /\ Side(t) = Side(u) =>
      \/ thr[t].at + thr[t].n <= thr[u].at
      \/ thr[u].at + thr[u].n <= thr[t].at

Covered ==
  \A s \in Sides : \A i \in (TailAt(s) + 1)..HeadAt(s) :
    \E t \in Threads : Side(t) = s /\ Owns(t, i)

\* Published elements, and those a producer has copied, are in their slots.
Contents ==
  /\ \A i \in (Released + 1)..Published : slots[SlotOf(i)] = claimed[i]
  /\ \A t \in Threads : Busy(t) /\ Side(t) = "prod" =>
       \A k \in 1..Len(thr[t].got) :
         slots[SlotOf(thr[t].at + k)] = claimed[thr[t].at + k]

RingInv ==
  /\ RingType /\ Counters /\ (\A t \in Threads : ThreadOK(t))
  /\ Disjoint /\ Covered /\ Contents /\ ReadsRight

-----------------------------------------------------------------------------
(* jring: the counters and the threads.                                    *)

\* What the constants and the capacity of the ring are.
LEMMA RingConstants ==
  /\ Size \in Nat \ {0} /\ CtrMod \in Nat \ {0} /\ CtrMod % Size = 0
  /\ Size < CtrMod /\ Start \in Nat /\ capacity = Size - 1 /\ capacity \in Nat
  BY JRingAssumption DEF JRingAssumption, capacity

\* Arithmetic on counters that wrap.
LEMMA WrapFacts ==
  ASSUME NEW a \in Int, NEW b \in Int, NEW c \in Int
  PROVE  /\ Wrap(a) \in Nat
         /\ Wrap(Wrap(a) + c) = Wrap(a + c)
         /\ b <= a /\ a - b < CtrMod =>
              /\ Wrap(Wrap(a) - Wrap(b)) = a - b
              /\ Wrap(a) = Wrap(b) => a = b
         /\ c + a - b >= 0 => /\ Wrap(c + Wrap(a) - Wrap(b)) \in Nat
                              /\ Wrap(c + Wrap(a) - Wrap(b)) <= c + a - b
         /\ (Wrap(a) + c) % Size = (a + c) % Size
<1>1. CtrMod \in Nat \ {0} /\ Size \in Nat \ {0} /\ CtrMod % Size = 0
  BY RingConstants, Zenon
<1>2. /\ Wrap(a) \in Nat /\ Wrap(b) \in Nat /\ Wrap(c + a - b) \in Nat
      /\ Wrap(a - b) \in Nat
  <2>1. \A x \in Int : x % CtrMod \in Nat
    BY <1>1, DivMod
  <2> QED
    BY <2>1 DEF Wrap
<1>3. Wrap(Wrap(a) + c) = Wrap(a + c)
  BY <1>1, ModSum, Zenon DEF Wrap
<1>4. ASSUME NEW z \in Int
      PROVE  Wrap(z + Wrap(a) - Wrap(b)) = Wrap(z + a - b)
  <2>1. (z + (a % CtrMod) - (b % CtrMod)) % CtrMod = (z + a - b) % CtrMod
    BY ONLY <1>1, a \in Int, b \in Int, z \in Int, ModDiff, ZenonT(30)
  <2> QED
    BY ONLY <2>1, Zenon DEF Wrap
<1>5. ASSUME b <= a, a - b < CtrMod
      PROVE  Wrap(Wrap(a) - Wrap(b)) = a - b
  <2>1. Wrap(0 + Wrap(a) - Wrap(b)) = Wrap(0 + a - b)
    BY ONLY <1>4, 0 \in Int
  <2>2. a - b \in 0..(CtrMod - 1)
    BY <1>1, <1>5
  <2>3. Wrap(a - b) = a - b
    BY <1>1, <2>2, ModSmall, Zenon DEF Wrap
  <2>4. 0 + Wrap(a) - Wrap(b) = Wrap(a) - Wrap(b) /\ 0 + a - b = a - b
    BY <1>2
  <2> QED
    BY <2>1, <2>3, <2>4, Zenon
<1>6. ASSUME b <= a, a - b < CtrMod, Wrap(a) = Wrap(b)
      PROVE  a = b
  BY <1>1, <1>6, ModApart, Zenon DEF Wrap
<1>7. ASSUME c + a - b >= 0 PROVE Wrap(c + a - b) <= c + a - b
  <2> DEFINE x == c + a - b
             q == x \div CtrMod
  <2>1. x \in Nat
    BY <1>7
  <2>2. q \in Int /\ Wrap(x) \in Nat /\ Wrap(x) < CtrMod
        /\ x = CtrMod * q + Wrap(x)
    <3> HIDE DEF x
    <3> QED
      BY <1>1, <2>1, DivMod DEF Wrap
  <2> HIDE DEF x, q
  <2>3. q >= 0
    <3>1. \A k \in Int : k <= -1 => CtrMod * k <= -CtrMod
      BY <1>1
    <3> QED
      BY <1>1, <2>1, <2>2, <3>1
  <2>4. CtrMod * q >= 0
    BY <1>1, <2>2, <2>3
  <2>5. Wrap(x) <= x
    <3>1. CtrMod * q \in Int
      BY <1>1, <2>2
    <3> QED
      BY <2>1, <2>2, <2>4, <3>1
  <2> QED
    BY <2>5, Zenon DEF x
<1>8. (Wrap(a) + c) % Size = (a + c) % Size
  BY <1>1, ModMod, Zenon DEF Wrap
<1> QED
  BY <1>2, <1>3, <1>4, <1>5, <1>6, <1>7, <1>8, Zenon

\* Positions less than a ring apart have different slots.
LEMMA SlotsApart ==
  ASSUME NEW i \in Int, NEW j \in Int, i < j, j - i <= capacity
  PROVE  SlotOf(i) # SlotOf(j) /\ SlotOf(i) \in 0..(Size - 1)
<1>1. Size \in Nat \ {0} /\ Start \in Nat /\ capacity = Size - 1
  BY RingConstants, Zenon
<1>2. /\ Start + i - 1 \in Int /\ Start + j - 1 \in Int
      /\ Start + i - 1 <= Start + j - 1 /\ Start + i - 1 # Start + j - 1
      /\ (Start + j - 1) - (Start + i - 1) < Size
  BY <1>1
<1>3. (Start + i - 1) % Size # (Start + j - 1) % Size
  BY ONLY <1>1, <1>2, ModApart, Zenon
<1> QED
  BY <1>1, <1>2, <1>3, DivMod, Zenon DEF SlotOf

\* A thread belongs to one side, whose head it moves.
LEMMA SideFacts ==
  ASSUME NEW t \in Threads
  PROVE  /\ Side(t) \in Sides /\ Place(t) = HeadAt(Side(t))
         /\ Side(t) = "prod" <=> t \in Producers
         /\ Side(t) = "cons" <=> t \in Consumers
  BY JRingAssumption, Zenon DEF JRingAssumption, Threads, Side, Sides, Place, HeadAt

\* A side that makes the _sp_ or _sc_ calls has one thread.
LEMMA OneThread ==
  ASSUME RingType, NEW t \in Threads, NEW u \in Threads, Side(t) = Side(u),
         t \in setup.users, u \in setup.users, Single(t)
  PROVE  t = u
<1>1. /\ setup \in Setups
      /\ "prod" \in setup.single =>
           \E x \in Producers : setup.users \cap Producers = {x}
      /\ "cons" \in setup.single =>
           \E x \in Consumers : setup.users \cap Consumers = {x}
  BY JRingAssumption, Zenon DEF JRingAssumption, RingType
<1>2. CASE Side(t) = "prod"
  <2>1. t \in Producers /\ u \in Producers /\ "prod" \in setup.single
    BY <1>2, SideFacts, Zenon DEF Single
  <2> QED
    BY ONLY <1>1, <2>1, t \in setup.users, u \in setup.users
<1>3. CASE Side(t) = "cons"
  <2>1. t \in Consumers /\ u \in Consumers /\ "cons" \in setup.single
    BY <1>3, SideFacts, Zenon DEF Single
  <2> QED
    BY ONLY <1>1, <2>1, t \in setup.users, u \in setup.users
<1> QED
  BY <1>2, <1>3, SideFacts, Zenon DEF Sides

-----------------------------------------------------------------------------
(* jring: every step keeps the invariant.                                  *)

\* The invariant holds initially.
LEMMA InitInv == Init => RingInv
<1> SUFFICES ASSUME Init PROVE RingInv
  BY Zenon
<1>1. /\ \A t \in Threads : thr[t].pc = "idle"
      /\ claimed = <<>> /\ taken = 0 /\ setup \in Setups
      /\ \A s \in Sides : ht[s].head = Start /\ ht[s].tail = Start
  BY Zenon DEF Init, Sides
<1>2. Start \in 0..(CtrMod - 1) /\ CtrMod \in Nat \ {0} /\ capacity \in Nat
  BY RingConstants, JRingAssumption, Zenon DEF JRingAssumption
<1>3. Wrap(Start) = Start /\ Wrap(0) = 0
  BY <1>2, ModSmall DEF Wrap
<1>4. Published = 0 /\ Released = 0
  BY <1>1, <1>2, <1>3 DEF Published, Released, Sides
<1>5. RingType
  <2>1. slots \in [0..(Size - 1) -> Values]
    BY Zenon DEF Init, Values
  <2>2. ht \in [Sides -> [head : Nat, tail : Nat]]
    BY <1>2 DEF Init, Sides
  <2>3. thr \in [Threads -> ThrType]
    BY DEF Init, ThrType
  <2> QED
    BY <1>1, <2>1, <2>2, <2>3 DEF RingType
<1>6. Counters
  BY <1>1, <1>2, <1>3, <1>4 DEF Counters, HeadAt, TailAt
<1>7. (\A t \in Threads : ThreadOK(t)) /\ Disjoint /\ Covered
  BY <1>1, <1>4 DEF ThreadOK, Busy, Disjoint, Covered, HeadAt, TailAt
<1>8. Contents /\ ReadsRight
  BY <1>1, <1>4 DEF Contents, Busy, ReadsRight, Threads
<1> QED
  BY <1>5, <1>6, <1>7, <1>8, Zenon DEF RingInv

\* What the invariant says in integers.
LEMMA Positions ==
  ASSUME RingInv
  PROVE  /\ \A s \in Sides : /\ HeadAt(s) \in Nat /\ TailAt(s) \in Nat
                             /\ TailAt(s) <= HeadAt(s)
                             /\ HeadAt(s) - TailAt(s) <= capacity
                             /\ Limit(s) \in Nat /\ HeadAt(s) <= Limit(s)
                             /\ Limit(s) - TailAt(s) <= capacity
         /\ Released \in Nat /\ Published \in Nat /\ Len(claimed) \in Nat
         /\ taken \in Nat
<1>1. taken \in Nat /\ Len(claimed) \in Nat /\ ht["prod"].head \in Nat
      /\ ht["prod"].tail \in Nat /\ ht["cons"].head \in Nat
      /\ ht["cons"].tail \in Nat
  BY DEF RingInv, RingType, Sides
<1>2. Published \in Int /\ Released \in Int /\ capacity \in Nat
  <2>1. \A x \in Int : Wrap(x) \in Nat
    BY WrapFacts, Zenon
  <2>2. /\ ht["prod"].head - ht["prod"].tail \in Int
        /\ ht["cons"].head - ht["cons"].tail \in Int
    BY <1>1
  <2>3. /\ Wrap(ht["prod"].head - ht["prod"].tail) \in Nat
        /\ Wrap(ht["cons"].head - ht["cons"].tail) \in Nat
    BY ONLY <2>1, <2>2, Zenon
  <2> QED
    BY <1>1, <2>3, RingConstants DEF Published, Released
<1> QED
  BY <1>1, <1>2 DEF RingInv, Counters, HeadAt, TailAt, Limit, Sides

\* A step of a thread that owns nothing before and after it.
LEMMA QuietStep ==
  ASSUME RingInv, NEW t \in Threads, ~Busy(t), thr'[t].pc \notin {"copy", "update"},
         UNCHANGED <<setup, ht, slots, claimed, taken>>,
         thr' \in [Threads -> ThrType],
         \A u \in Threads : u # t => thr'[u] = thr[u], ThreadOK(t)'
  PROVE  RingInv'
<1>1. /\ Published' = Published /\ Released' = Released
      /\ \A s \in Sides : /\ HeadAt(s)' = HeadAt(s) /\ TailAt(s)' = TailAt(s)
                          /\ Limit(s)' = Limit(s)
  BY Zenon DEF Published, Released, HeadAt, TailAt, Limit, Sides
<1>2. \A u \in Threads : Busy(u)' => Busy(u) /\ u # t /\ thr'[u] = thr[u]
  BY Zenon DEF Busy
<1>3. \A u \in Threads : Busy(u) => Busy(u)' /\ u # t /\ thr'[u] = thr[u]
  BY Zenon DEF Busy
<1>4. RingType'
  BY Zenon DEF RingInv, RingType
<1>5. Counters'
  BY <1>1, Zenon DEF RingInv, Counters, HeadAt, Sides
<1>6. ASSUME NEW u \in Threads PROVE ThreadOK(u)'
  <2>1. CASE u = t
    BY <2>1, Zenon
  <2>2. CASE u # t
    BY <1>1, <2>2, SideFacts
    DEF RingInv, ThreadOK, Loaded, Owner, Busy, Single
  <2> QED
    BY <2>1, <2>2, Zenon
<1>7. Disjoint'
  BY <1>2, Zenon DEF RingInv, Disjoint
<1>8. Covered'
  BY <1>1, <1>3, Zenon DEF RingInv, Covered, Owns
<1>9. Contents' /\ ReadsRight'
  BY <1>1, <1>2, SideFacts DEF RingInv, Contents, ReadsRight, Busy, Threads
<1> QED
  BY <1>4, <1>5, <1>6, <1>7, <1>8, <1>9, Zenon DEF RingInv

\* A call begins.
LEMMA LoadStep ==
  ASSUME RingInv, NEW t \in Threads, NEW n \in Nat, NEW fixed \in BOOLEAN,
         Load(t, n, fixed)
  PROVE  RingInv'
<1> DEFINE g == [thr[t] EXCEPT !.pc = "check", !.calls = @ + 1, !.max = n,
                               !.fixed = fixed, !.old = ht[Side(t)].head,
                               !.at = Place(t), !.got = <<>>]
<1>1. /\ thr[t] \in ThrType /\ Side(t) \in Sides
      /\ HeadAt(Side(t)) \in Nat /\ Place(t) = HeadAt(Side(t))
      /\ ht[Side(t)].head \in Nat
      /\ ht[Side(t)].head = Wrap(Start + HeadAt(Side(t)))
  BY SideFacts, Positions, SMTT(60) DEF RingInv, RingType, Counters
<1>2. /\ thr' = [thr EXCEPT ![t] = g] /\ thr[t].pc = "idle"
      /\ t \in setup.users /\ UNCHANGED <<setup, ht, slots, claimed, taken>>
  BY Zenon DEF Load, MayCall
<1>3. /\ g \in ThrType /\ g.pc = "check" /\ g.old = ht[Side(t)].head
      /\ g.at = HeadAt(Side(t)) /\ g.got = <<>>
  <2>1. ASSUME NEW f \in ThrType, NEW old \in Nat, NEW at \in Nat,
               NEW calls \in Nat
        PROVE  [f EXCEPT !.pc = "check", !.calls = calls, !.max = n,
                         !.fixed = fixed, !.old = old, !.at = at,
                         !.got = <<>>] \in ThrType
    <3>1. <<>> \in Seq(Values)
      OBVIOUS
    <3> QED
      BY <3>1, Zenon DEF ThrType
  <2>2. thr[t].calls + 1 \in Nat
    BY <1>1 DEF ThrType
  <2>3. g \in ThrType
    BY <1>1, <2>1, <2>2, Zenon
  <2>4. /\ g.pc = "check" /\ g.old = ht[Side(t)].head /\ g.at = Place(t)
        /\ g.got = <<>>
    BY <1>1, Zenon DEF ThrType
  <2> QED
    BY <1>1, <2>3, <2>4, Zenon
<1> HIDE DEF g
<1>4. /\ thr'[t] = g /\ thr' \in [Threads -> ThrType]
      /\ \A u \in Threads : u # t => thr'[u] = thr[u]
  BY <1>2, <1>3, Zenon DEF RingInv, RingType
<1>5. ThreadOK(t)'
  <2>1. HeadAt(Side(t))' = HeadAt(Side(t))
    BY <1>2, Zenon DEF HeadAt
  <2>2. Loaded(t)'
    BY <1>1, <1>3, <1>4, <2>1 DEF Loaded
  <2> QED
    BY <1>2, <1>3, <1>4, <2>2, Zenon DEF ThreadOK, Busy
<1> QED
  BY <1>2, <1>3, <1>4, <1>5, QuietStep, Zenon DEF Busy

\* The batch that a thread decides on fits.
LEMMA BatchFits ==
  ASSUME RingInv, NEW t \in Threads, thr[t].pc = "check"
  PROVE  /\ BatchSize(t) \in Nat
         /\ thr[t].at + BatchSize(t) <= Limit(Side(t))
<1>1. /\ Side(t) \in Sides /\ thr[t] \in ThrType /\ Loaded(t)
      /\ Side(t) = "prod" <=> t \in Producers
  BY SideFacts, Zenon DEF RingInv, RingType, ThreadOK
<1>2. /\ thr[t].old = Wrap(Start + thr[t].at) /\ thr[t].at \in Nat
      /\ thr[t].max \in Nat /\ thr[t].at <= HeadAt(Side(t))
  BY <1>1, Zenon DEF ThrType, Loaded
<1>3. /\ HeadAt(Side(t)) <= Limit(Side(t)) /\ Limit(Side(t)) \in Nat
      /\ HeadAt(Side(t)) \in Nat /\ Released \in Nat /\ Published \in Nat
      /\ capacity \in Nat /\ Start \in Nat
  BY <1>1, Positions, RingConstants, Zenon
<1>4. /\ ht["cons"].tail = Wrap(Start + Released)
      /\ ht["prod"].tail = Wrap(Start + Published)
  BY Zenon DEF RingInv, Counters, TailAt, Sides
<1>5. Room(t) \in Nat /\ thr[t].at + Room(t) <= Limit(Side(t))
  <2>1. CASE Side(t) = "prod"
    <3> DEFINE a == Start + Released
               b == Start + thr[t].at
    <3>1. Room(t) = Wrap(capacity + Wrap(a) - Wrap(b))
      BY <1>1, <1>2, <1>4, <2>1, Zenon DEF Room
    <3>2. a \in Int /\ b \in Int /\ capacity \in Int /\ capacity + a - b >= 0
          /\ Limit(Side(t)) = thr[t].at + (capacity + a - b)
      BY <1>2, <1>3, <2>1 DEF Limit
    <3> HIDE DEF a, b
    <3>3. Room(t) \in Nat /\ Room(t) <= capacity + a - b
      BY ONLY <3>1, <3>2, WrapFacts
    <3> QED
      BY <1>2, <3>2, <3>3
  <2>2. CASE Side(t) # "prod"
    <3> DEFINE a == Start + Published
               b == Start + thr[t].at
    <3>1. Room(t) = Wrap(Wrap(a) - Wrap(b))
      BY <1>1, <1>2, <1>4, <2>2, Zenon DEF Room
    <3>2. a \in Int /\ b \in Int /\ 0 + a - b >= 0
          /\ Limit(Side(t)) = thr[t].at + (a - b)
      BY <1>2, <1>3, <2>2 DEF Limit
    <3> HIDE DEF a, b
    <3>3. /\ Wrap(0 + Wrap(a) - Wrap(b)) \in Nat
          /\ Wrap(0 + Wrap(a) - Wrap(b)) <= 0 + a - b
      BY ONLY <3>2, 0 \in Int, WrapFacts, Zenon
    <3>4. Wrap(a) \in Nat /\ Wrap(b) \in Nat
      BY ONLY <3>2, 0 \in Int, WrapFacts, Zenon
    <3>5. 0 + Wrap(a) - Wrap(b) = Wrap(a) - Wrap(b) /\ 0 + a - b = a - b
      BY <3>2, <3>4
    <3> QED
      BY <1>2, <3>1, <3>2, <3>3, <3>5
  <2> QED
    BY <2>1, <2>2, Zenon
<1> QED
  BY <1>2, <1>3, <1>5 DEF BatchSize

\* The computation of the batch, from the opposite tail as it is now.
LEMMA CheckStep ==
  ASSUME RingInv, NEW t \in Threads, Check(t)
  PROVE  RingInv'
<1> DEFINE n == BatchSize(t)
           pc == IF n = 0 THEN "idle" ELSE "move"
           g == [thr[t] EXCEPT !.n = n, !.pc = pc]
<1>1. /\ thr[t] \in ThrType /\ thr[t].pc = "check" /\ ThreadOK(t)
      /\ thr' = [thr EXCEPT ![t] = g]
      /\ UNCHANGED <<setup, ht, slots, claimed, taken>>
  BY Zenon DEF RingInv, RingType, Check
<1>2. n \in Nat /\ thr[t].at + n <= Limit(Side(t))
  BY <1>1, BatchFits, Zenon
<1> HIDE DEF n
<1>3. /\ g \in ThrType /\ g.pc = pc /\ g.old = thr[t].old /\ g.at = thr[t].at
      /\ g.got = thr[t].got /\ g.n = n
  BY <1>1, <1>2, Zenon DEF ThrType
<1> HIDE DEF g
<1>4. /\ thr'[t] = g /\ thr' \in [Threads -> ThrType]
      /\ \A u \in Threads : u # t => thr'[u] = thr[u]
  BY <1>1, <1>3, Zenon DEF RingInv, RingType
<1>5. ThreadOK(t)'
  <2>1. /\ HeadAt(Side(t))' = HeadAt(Side(t)) /\ Limit(Side(t))' = Limit(Side(t))
        /\ Single(t)' = Single(t)
    BY <1>1, Zenon DEF HeadAt, Limit, Published, Released, Single
  <2>2. Loaded(t)'
    BY <1>1, <1>2, <1>3, <1>4, <2>1 DEF Loaded, ThreadOK
  <2> QED
    BY <1>1, <1>3, <1>4, <2>2, Zenon DEF ThreadOK, Busy
<1> QED
  BY <1>1, <1>3, <1>4, <1>5, QuietStep, Zenon DEF Busy

\* The compare-and-swap fails and the head is loaded again.
LEMMA RetryStep ==
  ASSUME RingInv, NEW t \in Threads, MoveHead(t), ~Moved(t)
  PROVE  RingInv'
<1> DEFINE g == [thr[t] EXCEPT !.old = Reload(t), !.at = Place(t),
                               !.pc = "check"]
<1>1. /\ thr[t] \in ThrType /\ Side(t) \in Sides /\ HeadAt(Side(t)) \in Nat
      /\ Place(t) = HeadAt(Side(t)) /\ ht[Side(t)].head \in Nat
      /\ ht[Side(t)].head = Wrap(Start + HeadAt(Side(t)))
  BY SideFacts, Positions, Zenon DEF RingInv, RingType, Counters
<1>2. /\ thr' = [thr EXCEPT ![t] = g] /\ thr[t].pc = "move" /\ ThreadOK(t)
      /\ UNCHANGED <<setup, ht, slots, claimed, taken>>
  BY Zenon DEF MoveHead, RingInv
<1>3. /\ g \in ThrType /\ g.pc = "check" /\ g.old = ht[Side(t)].head
      /\ g.at = HeadAt(Side(t)) /\ g.got = thr[t].got
  <2>1. ASSUME NEW f \in ThrType, NEW old \in Nat, NEW at \in Nat
        PROVE  [f EXCEPT !.old = old, !.at = at, !.pc = "check"] \in ThrType
    BY Zenon DEF ThrType
  <2>2. g \in ThrType
    BY <1>1, <2>1, Zenon DEF Reload
  <2>3. /\ g.pc = "check" /\ g.old = Reload(t) /\ g.at = Place(t)
        /\ g.got = thr[t].got
    BY <1>1, Zenon DEF ThrType
  <2> QED
    BY <1>1, <2>2, <2>3, Zenon DEF Reload
<1> HIDE DEF g
<1>4. /\ thr'[t] = g /\ thr' \in [Threads -> ThrType]
      /\ \A u \in Threads : u # t => thr'[u] = thr[u]
  BY <1>2, <1>3, Zenon DEF RingInv, RingType
<1>5. ThreadOK(t)'
  <2>1. HeadAt(Side(t))' = HeadAt(Side(t))
    BY <1>2, Zenon DEF HeadAt
  <2>2. Loaded(t)'
    BY <1>1, <1>2, <1>3, <1>4, <2>1 DEF Loaded, ThreadOK
  <2> QED
    BY <1>2, <1>3, <1>4, <2>2, Zenon DEF ThreadOK, Busy
<1> QED
  BY <1>2, <1>3, <1>4, <1>5, QuietStep, Zenon DEF Busy

\* The counters after the head of one side has moved over n positions.
LEMMA HeadMoves ==
  ASSUME RingInv, NEW s \in Sides, NEW n \in Nat, HeadAt(s) + n <= Limit(s),
         ht' = [ht EXCEPT ![s].head = Wrap(Start + HeadAt(s) + n)],
         HeadAt(s)' = HeadAt(s) + n,
         \A x \in Sides : x # s => HeadAt(x)' = HeadAt(x)
  PROVE  /\ \A x \in Sides : TailAt(x)' = TailAt(x)
         /\ Counters'
         /\ ht' \in [Sides -> [head : Nat, tail : Nat]]
<1>1. /\ \A x \in Sides : /\ HeadAt(x) \in Nat /\ TailAt(x) \in Nat
                          /\ TailAt(x) <= HeadAt(x)
                          /\ HeadAt(x) - TailAt(x) <= capacity
                          /\ Limit(x) - TailAt(x) <= capacity
                          /\ Limit(x) \in Nat
      /\ capacity < CtrMod /\ CtrMod \in Nat /\ Start \in Nat /\ capacity \in Nat
  BY Positions, RingConstants, SMTT(60)
<1>2. ASSUME NEW a \in Nat, NEW b \in Nat, b <= a, a - b < CtrMod
      PROVE  a - Wrap(Wrap(Start + a) - Wrap(Start + b)) = b
  <2>1. /\ Start + a \in Int /\ Start + b \in Int /\ Start + b <= Start + a
        /\ (Start + a) - (Start + b) < CtrMod
        /\ (Start + a) - (Start + b) = a - b
    BY <1>1, <1>2
  <2>2. Wrap(Wrap(Start + a) - Wrap(Start + b)) = (Start + a) - (Start + b)
    BY ONLY <2>1, 0 \in Int, WrapFacts
  <2> QED
    BY <2>1, <2>2
<1> DEFINE a == HeadAt(s) + n
<1>3. /\ a \in Nat /\ TailAt(s) <= a /\ a - TailAt(s) < CtrMod
      /\ HeadAt(s)' = a /\ Start + HeadAt(s) + n = Start + a
  BY <1>1
<1>4. /\ ht'[s].head = Wrap(Start + a) /\ ht'[s].tail = ht[s].tail
      /\ \A x \in Sides : x # s => ht'[x] = ht[x]
  BY <1>3, Zenon DEF RingInv, RingType
<1> HIDE DEF a
<1>5. \A x \in Sides : /\ ht'[x].head = Wrap(Start + HeadAt(x)')
                       /\ ht'[x].tail = Wrap(Start + TailAt(x))
  BY <1>3, <1>4, Zenon DEF RingInv, Counters
<1>6. \A x \in Sides : HeadAt(x)' \in Nat /\ TailAt(x) <= HeadAt(x)'
                       /\ HeadAt(x)' - TailAt(x) < CtrMod
  BY <1>1, <1>3
<1>7. \A x \in Sides : TailAt(x)' = HeadAt(x)' - Wrap(ht'[x].head - ht'[x].tail)
  BY Zenon DEF TailAt, HeadAt, Published, Released, Sides
<1>8. \A x \in Sides : TailAt(x)' = TailAt(x)
  <2> TAKE x \in Sides
  <2> DEFINE h == HeadAt(x)'
             b == TailAt(x)
  <2>1. h \in Nat /\ b \in Nat /\ b <= h /\ h - b < CtrMod
        /\ TailAt(x)' = h - Wrap(Wrap(Start + h) - Wrap(Start + b))
    BY <1>1, <1>5, <1>6, <1>7, Zenon
  <2> HIDE DEF h, b
  <2>2. TailAt(x)' = b
    BY ONLY <1>2, <2>1, Zenon
  <2> QED
    BY <2>2, Zenon DEF b
<1>9. Counters'
  <2>1. \A x \in Sides : /\ ht'[x].head = Wrap(Start + HeadAt(x)')
                         /\ ht'[x].tail = Wrap(Start + TailAt(x)')
    BY <1>5, <1>8, Zenon
  <2>2. Published' = Published /\ Released' = Released
    BY <1>8, Zenon DEF TailAt, Sides
  <2>3. /\ 0 <= Released /\ Released <= taken' /\ taken' <= Published
        /\ Published <= Len(claimed)' /\ Len(claimed)' <= Released + capacity
    <3>1. /\ 0 <= Released /\ Released <= taken /\ taken <= Published
          /\ Published <= Len(claimed) /\ Len(claimed) <= Released + capacity
          /\ Released \in Nat /\ taken \in Nat /\ Published \in Nat
          /\ Len(claimed) \in Nat
      BY Positions, Zenon DEF RingInv, Counters
    <3>2. CASE s = "prod"
      <4>1. /\ Len(claimed)' = Len(claimed) + n /\ taken' = taken
            /\ Len(claimed) + n <= Released + capacity
        BY <3>2, Zenon DEF HeadAt, Limit, Sides
      <4> QED
        BY <1>1, <3>1, <4>1, SMTT(20)
    <3>3. CASE s = "cons"
      <4>1. /\ Len(claimed)' = Len(claimed) /\ taken' = taken + n
            /\ taken + n <= Published
        BY <3>3, Zenon DEF HeadAt, Limit, Sides
      <4> QED
        BY <1>1, <3>1, <4>1
    <3> QED
      BY <3>2, <3>3, Zenon DEF Sides
  <2> QED
    BY <2>1, <2>2, <2>3, Zenon DEF Counters
<1>10. ht' \in [Sides -> [head : Nat, tail : Nat]]
  <2>1. Wrap(Start + a) \in Nat
    <3>1. Start + a \in Int
      BY <1>1, <1>3
    <3> QED
      BY ONLY <3>1, 0 \in Int, WrapFacts
  <2> QED
    BY <1>3, <2>1, SMTT(60) DEF RingInv, RingType
<1> QED
  BY <1>8, <1>9, <1>10, Zenon

\* The thread's place is still the head when the compare-and-swap succeeds.
LEMMA NotLate ==
  ASSUME RingInv, NotLapped, NEW t \in Threads, thr[t].pc = "move", Moved(t)
  PROVE  /\ thr[t].at = HeadAt(Side(t)) /\ thr[t].n \in Nat /\ thr[t].n >= 1
         /\ thr[t].old = Wrap(Start + HeadAt(Side(t))) /\ thr[t].got = <<>>
         /\ HeadAt(Side(t)) + thr[t].n <= Limit(Side(t))
         /\ t \in setup.users
<1>1. /\ Loaded(t) /\ t \in setup.users /\ thr[t] \in ThrType
      /\ Side(t) \in Sides /\ HeadAt(Side(t)) = Place(t)
      /\ HeadAt(Side(t)) \in Nat /\ Start \in Nat
  BY SideFacts, Positions, RingConstants, SMTT(60) DEF RingInv, RingType, ThreadOK
<1>2. /\ thr[t].at \in Nat /\ thr[t].at <= HeadAt(Side(t)) /\ thr[t].n \in Nat
      /\ thr[t].old = Wrap(Start + thr[t].at) /\ thr[t].got = <<>>
      /\ thr[t].n >= 1 /\ thr[t].at + thr[t].n <= Limit(Side(t))
  BY <1>1, Zenon DEF Loaded, ThrType
<1>3. thr[t].at = HeadAt(Side(t))
  <2>1. CASE Single(t)
    BY <1>1, <2>1, Zenon DEF Loaded
  <2>2. CASE ~Single(t)
    <3> DEFINE a == Start + HeadAt(Side(t))
               b == Start + thr[t].at
    <3>1. ht[Side(t)].head = Wrap(a)
      BY <1>1, Zenon DEF RingInv, Counters
    <3>2. Wrap(a) = Wrap(b)
      BY <1>2, <2>2, <3>1, Zenon DEF Moved
    <3>3. a \in Int /\ b \in Int /\ b <= a /\ a - b < CtrMod
      <4>1. HeadAt(Side(t)) - thr[t].at < CtrMod
        BY <1>1, Zenon DEF NotLapped
      <4> QED
        BY <1>1, <1>2, <4>1, SMTT(60)
    <3> HIDE DEF a, b
    <3>4. a = b
      BY ONLY <3>2, <3>3, 0 \in Int, WrapFacts
    <3> QED
      BY <1>1, <1>2, <3>4 DEF a, b
  <2> QED
    BY <2>1, <2>2, Zenon
<1> QED
  BY <1>1, <1>2, <1>3, Zenon

\* The head moves: the thread owns the positions it moved over.
LEMMA MoveStep ==
  ASSUME RingInv, NotLapped, NEW t \in Threads, MoveHead(t), Moved(t)
  PROVE  /\ RingInv' /\ \A x \in Sides : TailAt(x)' = TailAt(x)
         /\ HeadAt(Side(t))' = HeadAt(Side(t)) + thr[t].n
         /\ \A i \in 1..Len(claimed) : claimed'[i] = claimed[i]
<1> DEFINE s == Side(t)
           n == thr[t].n
           C == HeadAt(s)
           g == [thr[t] EXCEPT !.pc = "copy", !.at = Place(t)]
           E == [k \in 1..n |-> Element(t, thr[t].calls, k)]
<1>1. /\ thr[t].at = C /\ n \in Nat /\ n >= 1 /\ thr[t].old = Wrap(Start + C)
      /\ thr[t].got = <<>> /\ C + n <= Limit(s) /\ t \in setup.users
      /\ s \in Sides /\ Place(t) = C /\ C \in Nat /\ Start \in Nat
  BY NotLate, SideFacts, Positions, RingConstants, SMTT(60) DEF MoveHead
<1>2. /\ thr[t] \in ThrType /\ thr[t].calls \in Nat /\ claimed \in Seq(Elements)
      /\ taken \in Nat
  BY Zenon DEF RingInv, RingType, ThrType
<1>3. /\ ht' = [ht EXCEPT ![s].head = Wrap(thr[t].old + n)]
      /\ thr' = [thr EXCEPT ![t] = g] /\ UNCHANGED <<setup, slots>>
      /\ IF s = "prod" THEN claimed' = claimed \o E /\ taken' = taken
         ELSE claimed' = claimed /\ taken' = taken + n
  BY Zenon DEF MoveHead
<1>4. /\ claimed' \in Seq(Elements) /\ taken' \in Nat
      /\ \A i \in 1..Len(claimed) : claimed'[i] = claimed[i]
      /\ s = "prod" => \A k \in 1..n : claimed'[C + k] = Element(t, thr[t].calls, k)
      /\ HeadAt(s)' = C + n /\ \A x \in Sides : x # s => HeadAt(x)' = HeadAt(x)
  <2>1. CASE s = "prod"
    <3>1. t \in Producers
      BY <2>1, SideFacts, Zenon
    <3>2. E \in Seq(Elements) /\ Len(E) = n /\ \A k \in 1..n :
            E[k] = Element(t, thr[t].calls, k)
      <4>1. \A k \in 1..n : Element(t, thr[t].calls, k) \in Elements
        BY <1>1, <1>2, <3>1 DEF Elements, Element
      <4>2. E \in [1..n -> Elements]
        BY <4>1, Zenon
      <4>3. E \in Seq(Elements) /\ Len(E) = n
        <5> HIDE DEF E, n
        <5> QED
          BY ONLY <1>1, <4>2
      <4> QED
        BY <4>3, Zenon
    <3> HIDE DEF E
    <3>3. claimed' = claimed \o E /\ taken' = taken /\ C = Len(claimed)
      BY <1>3, <2>1, Zenon DEF HeadAt
    <3>4. /\ claimed' \in Seq(Elements) /\ Len(claimed') = Len(claimed) + n
          /\ \A i \in 1..Len(claimed) : claimed'[i] = claimed[i]
          /\ \A k \in 1..n : claimed'[Len(claimed) + k] = E[k]
      <4>1. ASSUME NEW c \in Seq(Elements), NEW d \in Seq(Elements)
            PROVE  /\ c \o d \in Seq(Elements) /\ Len(c \o d) = Len(c) + Len(d)
                   /\ \A i \in 1..Len(c) : (c \o d)[i] = c[i]
                   /\ \A k \in 1..Len(d) : (c \o d)[Len(c) + k] = d[k]
        OBVIOUS
      <4>2. /\ claimed \o E \in Seq(Elements)
            /\ Len(claimed \o E) = Len(claimed) + Len(E)
            /\ \A i \in 1..Len(claimed) : (claimed \o E)[i] = claimed[i]
            /\ \A k \in 1..Len(E) : (claimed \o E)[Len(claimed) + k] = E[k]
        BY ONLY <1>2, <3>2, <4>1, Zenon
      <4> QED
        BY ONLY <3>2, <3>3, <4>2, Zenon
    <3> QED
      BY <1>2, <2>1, <3>2, <3>3, <3>4, SMTT(60) DEF HeadAt, Sides
  <2>2. CASE s # "prod"
    BY <1>1, <1>2, <1>3, <2>2 DEF HeadAt, Sides
  <2> QED
    BY <2>1, <2>2, Zenon
<1>5. ht' = [ht EXCEPT ![s].head = Wrap(Start + C + n)]
  <2>1. Wrap(Wrap(Start + C) + n) = Wrap(Start + C + n)
    <3>1. Start + C \in Int /\ n \in Int
      BY <1>1
    <3> QED
      BY ONLY <3>1, 0 \in Int, WrapFacts, Zenon
  <2> QED
    BY <1>1, <1>3, <2>1, Zenon
<1>6. /\ \A x \in Sides : TailAt(x)' = TailAt(x)
      /\ Counters' /\ ht' \in [Sides -> [head : Nat, tail : Nat]]
  <2> HIDE DEF s, n
  <2> QED
    BY <1>1, <1>4, <1>5, HeadMoves, Zenon
<1>7. /\ g \in ThrType /\ g.pc = "copy" /\ g.at = C /\ g.n = n /\ g.got = <<>>
      /\ g.old = thr[t].old /\ g.calls = thr[t].calls
  <2>1. ASSUME NEW f \in ThrType, NEW at \in Nat
        PROVE  [f EXCEPT !.pc = "copy", !.at = at] \in ThrType
    BY Zenon DEF ThrType
  <2>2. g \in ThrType
    BY <1>1, <1>2, <2>1, Zenon
  <2>3. /\ g.pc = "copy" /\ g.at = Place(t) /\ g.n = n /\ g.got = thr[t].got
        /\ g.old = thr[t].old /\ g.calls = thr[t].calls
    BY <1>2, Zenon DEF ThrType
  <2> QED
    BY <1>1, <2>2, <2>3, Zenon
<1> HIDE DEF g
<1>8. /\ thr'[t] = g /\ thr' \in [Threads -> ThrType]
      /\ \A u \in Threads : u # t => thr'[u] = thr[u]
  BY <1>3, <1>7, Zenon DEF RingInv, RingType
<1>9. RingType'
  BY <1>3, <1>4, <1>6, <1>8, Zenon DEF RingInv, RingType
<1>10. /\ \A x \in Sides : /\ HeadAt(x) \in Nat /\ TailAt(x) \in Nat
                           /\ HeadAt(x)' \in Nat /\ HeadAt(x) <= HeadAt(x)'
                           /\ TailAt(x) <= HeadAt(x)
       /\ Released' = Released /\ Published' = Published
       /\ Released \in Nat /\ Published \in Nat /\ Published <= Len(claimed)
       /\ taken <= Published /\ Len(claimed) \in Nat
       /\ \A x \in Sides : Limit(x)' = Limit(x)
  <2>1. \A x \in Sides : HeadAt(x) \in Nat /\ TailAt(x) \in Nat
                         /\ TailAt(x) <= HeadAt(x)
    BY Positions, Zenon
  <2>2. \A x \in Sides : HeadAt(x)' \in Nat /\ HeadAt(x) <= HeadAt(x)'
    BY <1>1, <1>4, <2>1, SMTT(20)
  <2>3. Released' = Released /\ Published' = Published
    BY <1>6, Zenon DEF TailAt, Sides
  <2>4. /\ Released \in Nat /\ Published \in Nat /\ Published <= Len(claimed)
        /\ taken <= Published /\ Len(claimed) \in Nat
    BY Positions, Zenon DEF RingInv, Counters
  <2>5. \A x \in Sides : Limit(x)' = Limit(x)
    BY <2>3, Zenon DEF Limit
  <2> QED
    BY <2>1, <2>2, <2>3, <2>4, <2>5, Zenon
<1>11. C = HeadAt(s) /\ s = Side(t)
  BY Zenon
<1> HIDE DEF s, n, C, E
<1>12. Busy(t)' /\ ~Busy(t) /\ \A u \in Threads :
         u # t => (Busy(u)' <=> Busy(u)) /\ thr'[u] = thr[u]
  <2>1. thr[t].pc = "move"
    BY Zenon DEF MoveHead
  <2> QED
    BY <1>7, <1>8, <2>1, Zenon DEF Busy
<1> QED
  <2>1. ASSUME NEW u \in Threads PROVE ThreadOK(u)'
    <3>1. CASE u = t
      <4>1. Owner(t)'
        <5>1. /\ TailAt(s)' <= C /\ C + n <= HeadAt(s)'
          BY <1>1, <1>4, <1>6, <1>10, <1>11
        <5>2. s = "prod" => \A k \in 1..n :
                claimed'[C + k] = Element(t, thr[t].calls, k)
          BY <1>4, Zenon
        <5>3. 0 < n /\ Len(<<>>) = 0
          BY <1>1
        <5> QED
          BY <1>1, <1>7, <1>8, <1>11, <5>1, <5>2, <5>3, Zenon DEF Owner
      <4> QED
        BY <1>1, <1>3, <1>7, <1>8, <3>1, <4>1, Zenon DEF ThreadOK
    <3>2. CASE u # t
      <4>1. /\ thr'[u] = thr[u] /\ (Busy(u)' <=> Busy(u)) /\ Side(u) \in Sides
            /\ ThreadOK(u) /\ thr[u] \in ThrType /\ setup' = setup
        BY <1>3, <1>12, <3>2, SideFacts, Zenon DEF RingInv, RingType
      <4>2. ASSUME Loaded(u), thr[u].pc \in {"check", "move"} PROVE Loaded(u)'
        <5>1. Single(u) => HeadAt(Side(u))' = HeadAt(Side(u))
          <6>1. u \in setup.users
            BY <4>1, <4>2, Zenon DEF ThreadOK
          <6>2. Side(u) = s => ~Single(u)
            BY <1>1, <1>11, <3>2, <6>1, OneThread, Zenon DEF RingInv
          <6> QED
            BY <1>4, <4>1, <6>2, Zenon
        <5>2. HeadAt(Side(u)) <= HeadAt(Side(u))' /\ thr[u].at \in Nat
              /\ HeadAt(Side(u)) \in Nat /\ HeadAt(Side(u))' \in Nat
              /\ Limit(Side(u))' = Limit(Side(u))
          BY <1>10, <4>1, Zenon DEF ThrType
        <5> QED
          BY <4>1, <4>2, <5>1, <5>2 DEF Loaded, Single
      <4>3. ASSUME Owner(u) PROVE Owner(u)'
        <5>1. /\ TailAt(Side(u))' = TailAt(Side(u))
              /\ HeadAt(Side(u)) <= HeadAt(Side(u))' /\ thr[u].at \in Nat
              /\ thr[u].n \in Nat
              /\ HeadAt(Side(u)) \in Nat /\ HeadAt(Side(u))' \in Nat
          BY <1>6, <1>10, <4>1, SMTT(60) DEF ThrType
        <5>2. ASSUME Side(u) = "prod", NEW k \in 1..thr[u].n
              PROVE  claimed'[thr[u].at + k] = Element(u, thr[u].calls, k)
          <6>1. thr[u].at + k \in 1..Len(claimed)
            BY <4>3, <5>1, <5>2, SMTT(20) DEF Owner, HeadAt
          <6> QED
            BY <1>4, <4>3, <5>2, <6>1, Zenon DEF Owner
        <5> QED
          BY <4>1, <4>3, <5>1, <5>2, SMTT(60) DEF Owner
      <4> QED
        BY <4>1, <4>2, <4>3, Zenon DEF ThreadOK
    <3> QED
      BY <3>1, <3>2, Zenon
  <2>2. Disjoint'
    <3>1. \A u \in Threads : Busy(u) /\ Side(u) = s =>
            thr[u].at + thr[u].n <= C
      BY <1>11, Zenon DEF RingInv, ThreadOK, Owner
    <3> QED
      BY <1>7, <1>8, <1>11, <1>12, <3>1 DEF RingInv, Disjoint
  <2>3. Covered'
    <3> SUFFICES ASSUME NEW x \in Sides,
                        NEW i \in (TailAt(x)' + 1)..HeadAt(x)'
                 PROVE  \E u \in Threads : Side(u) = x /\ Owns(u, i)'
      BY Zenon DEF Covered
    <3>1. CASE i \in (TailAt(x) + 1)..HeadAt(x)
      <4>1. PICK u \in Threads : Side(u) = x /\ Owns(u, i)
        BY <3>1, Zenon DEF RingInv, Covered
      <4> QED
        BY <1>12, <4>1, Zenon DEF Owns
    <3>2. CASE i \notin (TailAt(x) + 1)..HeadAt(x)
      <4>1. x = s /\ C < i /\ i <= C + n
        <5>1. /\ i \in Int /\ TailAt(x) + 1 <= i /\ i <= HeadAt(x)'
              /\ HeadAt(x) \in Nat /\ HeadAt(x)' \in Nat /\ TailAt(x) \in Nat
          BY <1>6, <1>10
        <5>2. ~(i <= HeadAt(x))
          BY <3>2, <5>1
        <5>3. x = s
          BY <1>4, <5>1, <5>2, Zenon
        <5> QED
          BY <1>1, <1>4, <1>11, <5>1, <5>2, <5>3
      <4> QED
        BY <1>7, <1>8, <1>11, <1>12, <4>1, Zenon DEF Owns
    <3> QED
      BY <3>1, <3>2, Zenon
  <2>4. Contents'
    <3>1. ASSUME NEW i \in (Released + 1)..Published
          PROVE  slots[SlotOf(i)] = claimed'[i]
      <4>1. i \in 1..Len(claimed)
        BY <1>10
      <4> QED
        BY <1>4, <4>1, Zenon DEF RingInv, Contents
    <3>2. ASSUME NEW u \in Threads, Busy(u)', Side(u) = "prod",
                 NEW k \in 1..Len(thr'[u].got)
          PROVE  slots[SlotOf(thr'[u].at + k)] = claimed'[thr'[u].at + k]
      <4>1. CASE u = t
        BY <1>7, <1>8, <3>2, <4>1
      <4>2. CASE u # t
        <5>1. thr'[u] = thr[u] /\ Busy(u) /\ Owner(u) /\ thr[u] \in ThrType
          BY <1>12, <3>2, <4>2, SMTT(60) DEF RingInv, ThreadOK, RingType
        <5>2. thr[u].at + k \in 1..Len(claimed)
          <6>1. Len(thr[u].got) <= thr[u].n
            BY <5>1 DEF Owner, ThrType, Busy
          <6>2. thr[u].at + thr[u].n <= Len(claimed)
            BY <3>2, <5>1, Zenon DEF Owner, HeadAt
          <6> QED
            BY <1>10, <3>2, <5>1, <6>1, <6>2, SMTT(60) DEF ThrType
        <5> QED
          BY <1>4, <3>2, <5>1, <5>2, SMTT(20) DEF RingInv, Contents
      <4> QED
        BY <4>1, <4>2, Zenon
    <3> QED
      BY <1>3, <1>10, <3>1, <3>2, Zenon DEF Contents, SlotOf
  <2>5. ReadsRight'
    <3> SUFFICES ASSUME NEW u \in Consumers, Busy(u)',
                        NEW k \in 1..Len(thr'[u].got)
                 PROVE  thr'[u].got[k] = claimed'[thr'[u].at + k]
      BY Zenon DEF ReadsRight, Busy
    <3>1. CASE u = t
      BY <1>7, <1>8, <3>1
    <3>2. CASE u # t
      <4>1. /\ thr'[u] = thr[u] /\ Busy(u) /\ Owner(u) /\ thr[u] \in ThrType
            /\ u \in Threads /\ Side(u) # "prod"
        BY <1>12, <3>2, SideFacts, JRingAssumption, Zenon
        DEF RingInv, ThreadOK, RingType, Threads, JRingAssumption
      <4>2. thr[u].at + k \in 1..Len(claimed)
        <5>1. Len(thr[u].got) <= thr[u].n
          BY <4>1 DEF Owner, ThrType, Busy
        <5>2. thr[u].at + thr[u].n <= taken
          BY <4>1, Zenon DEF Owner, HeadAt
        <5>3. k \in Nat /\ 1 <= k /\ k <= Len(thr[u].got) /\ thr[u].at \in Nat
              /\ thr[u].n \in Nat /\ Len(thr[u].got) \in Nat
          BY <4>1 DEF ThrType
        <5>4. /\ taken \in Nat /\ Published \in Nat /\ Len(claimed) \in Nat
              /\ taken <= Published /\ Published <= Len(claimed)
          BY <1>2, <1>10, Zenon
        <5> QED
          BY ONLY <5>1, <5>2, <5>3, <5>4, SMTT(60)
      <4> QED
        BY <1>4, <4>1, <4>2, SMTT(60) DEF RingInv, ReadsRight, Busy
    <3> QED
      BY <3>1, <3>2, Zenon
  <2> QED
    BY <1>4, <1>6, <1>9, <2>1, <2>2, <2>3, <2>4, <2>5, Zenon DEF RingInv, s, n, C

\* One element more is copied: who owns what does not change.
LEMMA CopyFrame ==
  ASSUME RingInv, NEW t \in Threads, thr[t].pc = "copy", NEW v \in Values,
         Copied(t, v), UNCHANGED <<setup, ht, claimed, taken>>,
         slots' \in [0..(Size - 1) -> Values]
  PROVE  /\ RingType' /\ Counters' /\ (\A u \in Threads : ThreadOK(u)')
         /\ Disjoint' /\ Covered'
         /\ Busy(t) /\ thr'[t].got = Append(thr[t].got, v) /\ thr'[t].at = thr[t].at
         /\ \A u \in Threads : /\ Busy(u)' <=> Busy(u)
                               /\ u # t => thr'[u] = thr[u]
         /\ Released' = Released /\ Published' = Published
<1> DEFINE pc == IF Len(thr[t].got) + 1 = thr[t].n THEN "update" ELSE "copy"
           got == Append(thr[t].got, v)
           g == [thr[t] EXCEPT !.got = got, !.pc = pc]
<1>1. /\ thr' = [thr EXCEPT ![t] = g] /\ thr[t] \in ThrType
      /\ ThreadOK(t) /\ Busy(t) /\ Owner(t)
  BY Zenon DEF Copied, RingInv, RingType, ThreadOK, Busy
<1>2. /\ got \in Seq(Values) /\ Len(got) = Len(thr[t].got) + 1
      /\ Len(thr[t].got) < thr[t].n /\ thr[t].n \in Nat /\ Len(thr[t].got) \in Nat
  BY <1>1 DEF ThrType, Owner
<1>3. /\ pc \in {"copy", "update"}
      /\ pc = "copy" => Len(got) < thr[t].n
      /\ pc = "update" => Len(got) = thr[t].n
  BY <1>2
<1> HIDE DEF pc, got
<1>4. /\ g \in ThrType /\ g.pc = pc /\ g.got = got
      /\ g.at = thr[t].at /\ g.n = thr[t].n /\ g.old = thr[t].old
      /\ g.calls = thr[t].calls
  <2>1. ASSUME NEW f \in ThrType, NEW q \in Seq(Values), NEW p \in {"copy", "update"}
        PROVE  [f EXCEPT !.got = q, !.pc = p] \in ThrType
    BY Zenon DEF ThrType
  <2>2. g \in ThrType
    BY <1>1, <1>2, <1>3, <2>1, Zenon
  <2> QED
    BY <1>1, <2>2, Zenon DEF ThrType
<1> HIDE DEF g
<1>5. /\ thr'[t] = g /\ thr' \in [Threads -> ThrType]
      /\ \A u \in Threads : u # t => thr'[u] = thr[u]
  BY <1>1, <1>4, Zenon DEF RingInv, RingType
<1>6. /\ Published' = Published /\ Released' = Released
      /\ \A s \in Sides : /\ HeadAt(s)' = HeadAt(s) /\ TailAt(s)' = TailAt(s)
                          /\ Limit(s)' = Limit(s)
  BY Zenon DEF Published, Released, HeadAt, TailAt, Limit, Sides
<1>7. \A u \in Threads : /\ Busy(u)' <=> Busy(u)
                         /\ thr'[u].at = thr[u].at /\ thr'[u].n = thr[u].n
  BY <1>1, <1>3, <1>4, <1>5, Zenon DEF Busy
<1>8. RingType'
  BY <1>5, SMTT(60) DEF RingInv, RingType
<1>9. Counters'
  BY <1>6, SMTT(60) DEF RingInv, Counters
<1>10. ASSUME NEW u \in Threads PROVE ThreadOK(u)'
  <2>1. CASE u = t
    <3>1. Owner(t)'
      BY <1>1, <1>3, <1>4, <1>5, <1>6, SideFacts, SMTT(60) DEF Owner
    <3> QED
      BY <1>1, <1>3, <1>4, <1>5, <2>1, <3>1, Zenon DEF ThreadOK, Busy
  <2>2. CASE u # t
    BY <1>5, <1>6, <2>2, SideFacts
    DEF RingInv, ThreadOK, Loaded, Owner, Busy, Single
  <2> QED
    BY <2>1, <2>2, Zenon
<1>11. Disjoint'
  BY <1>7, SMTT(60) DEF RingInv, Disjoint
<1>12. Covered'
  BY <1>6, <1>7, Zenon DEF RingInv, Covered, Owns
<1> QED
  BY <1>1, <1>4, <1>5, <1>6, <1>7, <1>8, <1>9, <1>10, <1>11, <1>12, Zenon DEF got

\* The slot a thread copies to or from, and where in the queue it is.
LEMMA CopySlot ==
  ASSUME RingInv, NEW t \in Threads, thr[t].pc = "copy"
  PROVE  LET k == Len(thr[t].got) + 1
             i == thr[t].at + k
         IN  /\ Slot(t, k) = SlotOf(i) /\ k \in 1..thr[t].n
             /\ i \in Nat /\ TailAt(Side(t)) < i /\ i <= HeadAt(Side(t))
             /\ i \in 1..Len(claimed) /\ SlotOf(i) \in 0..(Size - 1)
<1> DEFINE k == Len(thr[t].got) + 1
           i == thr[t].at + k
<1>1. /\ Owner(t) /\ thr[t] \in ThrType /\ Side(t) \in Sides
  BY SideFacts, Zenon DEF RingInv, RingType, ThreadOK, Busy
<1>2. /\ thr[t].at \in Nat /\ thr[t].n \in Nat /\ k \in Nat /\ 1 <= k
      /\ k <= thr[t].n /\ thr[t].old = Wrap(Start + thr[t].at)
      /\ TailAt(Side(t)) <= thr[t].at
      /\ thr[t].at + thr[t].n <= HeadAt(Side(t))
  BY <1>1 DEF ThrType, Owner
<1>3. /\ Start \in Nat /\ Size \in Nat \ {0} /\ TailAt(Side(t)) \in Nat
      /\ HeadAt(Side(t)) \in Nat /\ HeadAt(Side(t)) <= Len(claimed)
      /\ Len(claimed) \in Nat
  BY <1>1, Positions, RingConstants DEF RingInv, Counters, HeadAt
<1> HIDE DEF k
<1>4. /\ i \in Nat /\ TailAt(Side(t)) < i /\ i <= HeadAt(Side(t))
      /\ i \in 1..Len(claimed)
  <2>1. i \in Nat /\ thr[t].at < i /\ i <= thr[t].at + thr[t].n
    BY ONLY <1>2
  <2> HIDE DEF i
  <2> QED
    BY ONLY <1>2, <1>3, <2>1, SMTT(20)
<1>5. Slot(t, k) = SlotOf(i)
  <2> DEFINE a == Start + thr[t].at
             c == k - 1
  <2>1. a \in Int /\ c \in Int /\ Start + i - 1 = a + c
    <3>1. thr[t].at \in Nat /\ k \in Nat /\ Start \in Nat
      BY <1>2, <1>3, Zenon
    <3> QED
      BY ONLY <3>1
  <2>2. thr[t].old = Wrap(a) /\ k \in Nat /\ c = k - 1
    BY <1>2, Zenon
  <2> HIDE DEF a, c
  <2>3. Wrap(a) \in Nat
    BY ONLY <2>1, WrapFacts, Zenon
  <2>4. thr[t].old + k - 1 = Wrap(a) + c
    BY ONLY <2>2, <2>3, Zenon
  <2>5. (Wrap(a) + c) % Size = (a + c) % Size
    BY ONLY <2>1, 0 \in Int, WrapFacts, Zenon
  <2> QED
    BY <2>1, <2>4, <2>5, Zenon DEF Slot, SlotOf
<1>6. SlotOf(i) \in 0..(Size - 1)
  <2>1. Start + i - 1 \in Int
    BY <1>3, <1>4
  <2> QED
    BY <1>3, <2>1, DivMod, Zenon DEF SlotOf
<1> QED
  BY <1>2, <1>4, <1>5, <1>6 DEF k

\* A producer copies an element into a slot that nobody else uses.
LEMMA EnqueueStep ==
  ASSUME RingInv, NEW t \in Threads, Copy(t), enqueue_elems(t)
  PROVE  RingInv'
<1> DEFINE k == Len(thr[t].got) + 1
           e == Element(t, thr[t].calls, k)
           p == thr[t].at + k
<1>1. /\ thr[t].pc = "copy" /\ t \in Producers /\ Side(t) = "prod"
      /\ slots' = [slots EXCEPT ![Slot(t, k)] = e] /\ Copied(t, e)
      /\ UNCHANGED <<setup, ht, claimed, taken>>
  BY SideFacts, Zenon DEF Copy, enqueue_elems
<1>2. /\ Slot(t, k) = SlotOf(p) /\ k \in 1..thr[t].n /\ p \in Nat
      /\ Published < p /\ p <= Len(claimed) /\ SlotOf(p) \in 0..(Size - 1)
  BY <1>1, CopySlot, Zenon DEF TailAt, HeadAt
<1>3. /\ e \in Values /\ thr[t] \in ThrType /\ Owner(t)
      /\ slots \in [0..(Size - 1) -> Values]
  <2>1. thr[t] \in ThrType /\ Owner(t) /\ slots \in [0..(Size - 1) -> Values]
    BY <1>1, Zenon DEF RingInv, RingType, ThreadOK, Busy
  <2>2. thr[t].calls \in Nat /\ k \in Nat
    BY <2>1 DEF ThrType
  <2> QED
    BY <1>1, <2>1, <2>2, Zenon DEF Values, Elements, Element
<1>4. claimed[p] = e
  BY <1>1, <1>2, <1>3, Zenon DEF Owner
<1> HIDE DEF k, e, p
<1>5. /\ slots' \in [0..(Size - 1) -> Values] /\ slots'[SlotOf(p)] = e
      /\ \A j \in 0..(Size - 1) : j # SlotOf(p) => slots'[j] = slots[j]
  BY <1>1, <1>2, <1>3, SMTT(60)
<1>6. /\ RingType' /\ Counters' /\ (\A u \in Threads : ThreadOK(u)')
      /\ Disjoint' /\ Covered'
      /\ Busy(t) /\ thr'[t].got = Append(thr[t].got, e) /\ thr'[t].at = thr[t].at
      /\ \A u \in Threads : /\ Busy(u)' <=> Busy(u)
                            /\ u # t => thr'[u] = thr[u]
      /\ Released' = Released /\ Published' = Published
  BY <1>1, <1>3, <1>5, CopyFrame, SMTT(60)
<1>7. /\ Released \in Nat /\ Published \in Nat /\ Len(claimed) \in Nat
      /\ Released <= Published /\ Published <= Len(claimed)
      /\ Len(claimed) <= Released + capacity /\ capacity \in Nat
  <2>1. taken \in Nat /\ Released <= taken /\ taken <= Published
    BY Positions, Zenon DEF RingInv, Counters
  <2> QED
    BY <2>1, Positions, RingConstants DEF RingInv, Counters
<1>8. ASSUME NEW i \in Nat, Released < i, i <= Len(claimed), i # p
      PROVE  slots'[SlotOf(i)] = slots[SlotOf(i)]
  <2>1. CASE i < p
    <3>1. i \in Int /\ p \in Int /\ p - i <= capacity
      BY <1>2, <1>7, <1>8
    <3>2. SlotOf(i) # SlotOf(p) /\ SlotOf(i) \in 0..(Size - 1)
      BY <2>1, <3>1, SlotsApart, Zenon
    <3> QED
      BY <1>5, <3>2, Zenon
  <2>2. CASE p < i
    <3>1. i \in Int /\ p \in Int /\ i - p <= capacity
      BY <1>2, <1>7, <1>8
    <3>2. SlotOf(p) # SlotOf(i)
      BY <2>2, <3>1, SlotsApart, Zenon
    <3>3. SlotOf(i) \in 0..(Size - 1)
      <4>1. Start + i - 1 \in Int /\ Size \in Nat \ {0}
        BY RingConstants
      <4> QED
        BY <4>1, DivMod, Zenon DEF SlotOf
    <3> QED
      BY <1>5, <3>2, <3>3, Zenon
  <2> QED
    BY <1>2, <1>8, <2>1, <2>2
<1>9. Contents'
  <2>1. ASSUME NEW i \in (Released + 1)..Published
        PROVE  slots'[SlotOf(i)] = claimed[i]
    <3>1. i \in Nat /\ Released < i /\ i <= Len(claimed) /\ i # p
      BY <1>2, <1>7
    <3> QED
      BY <1>8, <3>1, Zenon DEF RingInv, Contents
  <2>2. ASSUME NEW u \in Threads, Busy(u), Side(u) = "prod",
               NEW j \in 1..Len(thr'[u].got)
        PROVE  slots'[SlotOf(thr'[u].at + j)] = claimed[thr'[u].at + j]
    <3>1. Owner(u) /\ thr[u] \in ThrType
      BY <2>2, Zenon DEF RingInv, RingType, ThreadOK
    <3>2. /\ thr'[u].at = thr[u].at /\ thr[u].at \in Nat /\ thr[u].n \in Nat
          /\ j \in Nat /\ 1 <= j /\ Published <= thr[u].at
          /\ thr[u].at + thr[u].n <= Len(claimed) /\ Len(thr[u].got) <= thr[u].n
      <4>1. thr'[u].at = thr[u].at
        BY <1>6, Zenon
      <4>2. j \in Nat /\ 1 <= j
        BY SMTT(60)
      <4>3. Len(thr[u].got) <= thr[u].n
        BY <2>2, <3>1 DEF Owner, ThrType, Busy
      <4> QED
        BY <2>2, <3>1, <4>1, <4>2, <4>3, SMTT(60) DEF Owner, ThrType, TailAt, HeadAt
    <3>3. ASSUME j \in 1..Len(thr[u].got), thr[u].at + j # p
          PROVE  slots'[SlotOf(thr[u].at + j)] = claimed[thr[u].at + j]
      <4>1. /\ thr[u].at + j \in Nat /\ Released < thr[u].at + j
            /\ thr[u].at + j <= Len(claimed)
        <5>1. Len(thr[u].got) \in Nat /\ j <= Len(thr[u].got)
          BY <3>1, <3>3 DEF ThrType
        <5> QED
          <6>1. j <= thr[u].n
            BY ONLY <3>2, <5>1
          <6> QED
            BY ONLY <1>7, <3>2, <6>1, SMTT(60)
      <4>2. slots[SlotOf(thr[u].at + j)] = claimed[thr[u].at + j]
        BY <2>2, <3>3, Zenon DEF RingInv, Contents
      <4> QED
        BY <1>8, <3>3, <4>1, <4>2, Zenon
    <3>4. CASE u = t
      <4>1. Len(thr[t].got) \in Nat /\ j \in 1..(Len(thr[t].got) + 1)
        BY <1>3, <1>6, <2>2, <3>4, SMTT(60) DEF ThrType
      <4>2. CASE j = k
        BY <1>4, <1>5, <3>2, <3>4, <4>2, Zenon DEF p
      <4>3. CASE j # k
        <5>1. j \in 1..Len(thr[u].got)
          BY <3>4, <4>1, <4>3 DEF k
        <5>2. thr[u].at + j # p
          BY <1>2, <3>2, <3>4, <4>3, SMTT(60) DEF p
        <5> QED
          BY <3>2, <3>3, <5>1, <5>2, Zenon
      <4> QED
        BY <4>2, <4>3, Zenon
    <3>5. CASE u # t
      <4>1. thr'[u] = thr[u] /\ j \in 1..Len(thr[u].got)
        BY <1>6, <2>2, <3>5, Zenon
      <4>2. thr[u].at + j # p
        <5>1. \/ thr[t].at + thr[t].n <= thr[u].at
              \/ thr[u].at + thr[u].n <= thr[t].at
          BY <1>1, <1>6, <2>2, <3>5, Zenon DEF RingInv, Disjoint
        <5>2. /\ thr[t].at \in Nat /\ thr[t].n \in Nat /\ k \in Nat /\ 1 <= k
              /\ k <= thr[t].n
          BY <1>2, <1>3, SMTT(60) DEF ThrType
        <5>3. Len(thr[u].got) \in Nat /\ j <= Len(thr[u].got)
          BY <3>1, <4>1 DEF ThrType
        <5> QED
          <6>1. p = thr[t].at + k
            BY Zenon DEF p
          <6> QED
            <7>1. j <= thr[u].n
              BY ONLY <3>2, <5>3
            <7>2. p \in Nat /\ thr[t].at < p /\ p <= thr[t].at + thr[t].n
              BY ONLY <5>2, <6>1
            <7>3. /\ thr[u].at + j \in Nat /\ thr[u].at < thr[u].at + j
                  /\ thr[u].at + j <= thr[u].at + thr[u].n
              BY ONLY <3>2, <7>1, SMTT(20)
            <7>4. ASSUME NEW a \in Nat, NEW b \in Nat, NEW x \in Nat, NEW y \in Nat,
                         NEW c \in Nat, NEW d \in Nat, a < x, x <= c,
                         b < y, y <= d, c <= b \/ d <= a
                  PROVE  y # x
              BY ONLY <7>4
            <7>5. /\ thr[t].at + thr[t].n \in Nat /\ thr[u].at + thr[u].n \in Nat
                  /\ thr[t].at \in Nat /\ thr[u].at \in Nat
              <8>1. thr[t].at \in Nat /\ thr[t].n \in Nat
                BY ONLY <5>2, Zenon
              <8>2. thr[u].at \in Nat /\ thr[u].n \in Nat
                BY ONLY <3>2, Zenon
              <8> QED
                BY ONLY <8>1, <8>2, SMTT(60)
            <7> QED
              BY ONLY <5>1, <7>2, <7>3, <7>4, <7>5, Zenon
      <4> QED
        BY <3>2, <3>3, <4>1, <4>2, SMTT(60)
    <3> QED
      BY <3>4, <3>5, Zenon
  <2> QED
    BY <1>1, <1>6, <2>1, <2>2, Zenon DEF Contents, SlotOf
<1>10. ReadsRight'
  <2>1. \A u \in Consumers : u \in Threads /\ u # t
    BY <1>1, JRingAssumption, Zenon DEF JRingAssumption, Threads
  <2>2. SUFFICES ASSUME NEW u \in Consumers, thr'[u].pc \in {"copy", "update"},
                        NEW j \in 1..Len(thr'[u].got)
                 PROVE  thr'[u].got[j] = claimed'[thr'[u].at + j]
    BY Zenon DEF ReadsRight
  <2>3. thr'[u] = thr[u] /\ claimed' = claimed
    BY <1>1, <1>6, <2>1, Zenon
  <2>4. thr[u].pc \in {"copy", "update"} /\ j \in 1..Len(thr[u].got)
    BY ONLY <2>2, <2>3, Zenon
  <2>5. ReadsRight
    BY Zenon DEF RingInv
  <2>6. thr[u].got[j] = claimed[thr[u].at + j]
    BY ONLY <2>2, <2>4, <2>5, Zenon DEF ReadsRight
  <2> QED
    BY ONLY <2>3, <2>6, Zenon
<1> QED
  BY <1>6, <1>9, <1>10, Zenon DEF RingInv

\* A consumer copies an element that is published and not yet overwritten.
LEMMA DequeueStep ==
  ASSUME RingInv, NEW t \in Threads, Copy(t), dequeue_elems(t)
  PROVE  RingInv'
<1> DEFINE k == Len(thr[t].got) + 1
           p == thr[t].at + k
           e == slots[Slot(t, k)]
<1>1. /\ thr[t].pc = "copy" /\ t \in Consumers /\ Side(t) = "cons"
      /\ t \notin Producers
      /\ slots' = slots /\ Copied(t, e) /\ UNCHANGED <<setup, ht, claimed, taken>>
  BY SideFacts, JRingAssumption, SMTT(60) DEF JRingAssumption, Copy, dequeue_elems
<1>2. /\ Slot(t, k) = SlotOf(p) /\ k \in 1..thr[t].n /\ p \in Nat
      /\ Released < p /\ p <= taken /\ SlotOf(p) \in 0..(Size - 1)
  BY <1>1, CopySlot, Zenon DEF TailAt, HeadAt
<1>3. /\ e \in Values /\ thr[t] \in ThrType
      /\ slots \in [0..(Size - 1) -> Values]
  BY <1>2, SMTT(60) DEF RingInv, RingType
<1>4. e = claimed[p]
  <2>1. /\ Released \in Nat /\ Published \in Nat /\ taken \in Nat
        /\ taken <= Published
    BY Positions, Zenon DEF RingInv, Counters
  <2>2. p \in (Released + 1)..Published
    <3> HIDE DEF p
    <3> QED
      BY <1>2, <2>1, SMTT(60)
  <2> QED
    BY <1>2, <2>2, Zenon DEF RingInv, Contents
<1> HIDE DEF k, e, p
<1>5. /\ RingType' /\ Counters' /\ (\A u \in Threads : ThreadOK(u)')
      /\ Disjoint' /\ Covered'
      /\ Busy(t) /\ thr'[t].got = Append(thr[t].got, e) /\ thr'[t].at = thr[t].at
      /\ \A u \in Threads : /\ Busy(u)' <=> Busy(u)
                            /\ u # t => thr'[u] = thr[u]
      /\ Released' = Released /\ Published' = Published
  BY <1>1, <1>3, CopyFrame, SMTT(60)
<1>6. Contents'
  <2>1. \A u \in Threads : Side(u) = "prod" => u # t
    BY <1>1, Zenon
  <2> QED
    BY <1>1, <1>5, <2>1, Zenon DEF RingInv, Contents, SlotOf
<1>7. ReadsRight'
  <2> SUFFICES ASSUME NEW u \in Consumers, Busy(u)',
                      NEW j \in 1..Len(thr'[u].got)
               PROVE  thr'[u].got[j] = claimed[thr'[u].at + j]
    BY <1>1, Zenon DEF ReadsRight, Busy
  <2>1. CASE u = t
    <3>1. thr[t].got \in Seq(Values) /\ thr'[t].got = Append(thr[t].got, e)
      BY <1>3, <1>5, Zenon DEF ThrType
    <3>2. CASE j = k
      <4>1. thr'[t].got[k] = e
        BY <1>3, <3>1 DEF k
      <4> QED
        BY <1>4, <1>5, <2>1, <3>2, <4>1, SMTT(60) DEF p
    <3>3. CASE j # k
      <4>1. j \in 1..Len(thr[t].got) /\ thr'[t].got[j] = thr[t].got[j]
        BY <1>3, <2>1, <3>1, <3>3 DEF k
      <4>2. thr[t].pc \in {"copy", "update"} /\ ReadsRight
        BY <1>1, Zenon DEF RingInv
      <4>3. thr[t].got[j] = claimed[thr[t].at + j]
        BY <1>1, <4>1, <4>2, Zenon DEF ReadsRight
      <4> QED
        BY <1>5, <2>1, <4>1, <4>3, Zenon
    <3> QED
      BY <3>2, <3>3, Zenon
  <2>2. CASE u # t
    <3>1. u \in Threads /\ thr'[u] = thr[u]
      BY <1>5, <2>2, Zenon DEF Threads
    <3> QED
      BY <3>1, Zenon DEF RingInv, ReadsRight, Busy
  <2> QED
    BY <2>1, <2>2, Zenon
<1> QED
  BY <1>5, <1>6, <1>7, Zenon DEF RingInv

\* The counters after the tail of one side has moved to b.
LEMMA TailMoves ==
  ASSUME RingInv, NEW s \in Sides, NEW b \in Nat, TailAt(s) <= b, b <= HeadAt(s),
         ht' = [ht EXCEPT ![s].tail = Wrap(Start + b)],
         UNCHANGED <<claimed, taken>>
  PROVE  /\ TailAt(s)' = b
         /\ \A x \in Sides : /\ x # s => TailAt(x)' = TailAt(x)
                             /\ HeadAt(x)' = HeadAt(x)
         /\ Counters'
         /\ ht' \in [Sides -> [head : Nat, tail : Nat]]
<1>1. /\ \A x \in Sides : /\ HeadAt(x) \in Nat /\ TailAt(x) \in Nat
                          /\ TailAt(x) <= HeadAt(x)
                          /\ HeadAt(x) - TailAt(x) <= capacity
      /\ capacity < CtrMod /\ CtrMod \in Nat /\ Start \in Nat /\ capacity \in Nat
  BY Positions, RingConstants, SMTT(60)
<1>2. ASSUME NEW h \in Nat, NEW c \in Nat, c <= h, h - c < CtrMod
      PROVE  h - Wrap(Wrap(Start + h) - Wrap(Start + c)) = c
  <2>1. /\ Start + h \in Int /\ Start + c \in Int /\ Start + c <= Start + h
        /\ (Start + h) - (Start + c) < CtrMod
        /\ (Start + h) - (Start + c) = h - c
    BY <1>1, <1>2
  <2>2. Wrap(Wrap(Start + h) - Wrap(Start + c)) = (Start + h) - (Start + c)
    BY ONLY <2>1, 0 \in Int, WrapFacts
  <2> QED
    BY <2>1, <2>2
<1> DEFINE T(x) == IF x = s THEN b ELSE TailAt(x)
<1>3. \A x \in Sides : /\ T(x) \in Nat /\ TailAt(x) <= T(x) /\ T(x) <= HeadAt(x)
                       /\ HeadAt(x) - T(x) < CtrMod
  BY <1>1
<1>4. \A x \in Sides : /\ ht'[x].head = Wrap(Start + HeadAt(x))
                       /\ ht'[x].tail = Wrap(Start + T(x))
                       /\ HeadAt(x)' = HeadAt(x)
  <2>1. \A x \in Sides : /\ ht[x].head = Wrap(Start + HeadAt(x))
                         /\ ht[x].tail = Wrap(Start + TailAt(x))
    BY Zenon DEF RingInv, Counters
  <2>2. \A x \in Sides : HeadAt(x)' = HeadAt(x)
    BY Zenon DEF HeadAt
  <2> QED
    BY <2>1, <2>2, Zenon DEF RingInv, RingType
<1>5. \A x \in Sides : TailAt(x)' = HeadAt(x)' - Wrap(ht'[x].head - ht'[x].tail)
  BY Zenon DEF TailAt, HeadAt, Published, Released, Sides
<1>6. \A x \in Sides : TailAt(x)' = T(x)
  <2> TAKE x \in Sides
  <2> DEFINE h == HeadAt(x)
             c == T(x)
  <2>1. h \in Nat /\ c \in Nat /\ c <= h /\ h - c < CtrMod
        /\ TailAt(x)' = h - Wrap(Wrap(Start + h) - Wrap(Start + c))
    BY <1>1, <1>3, <1>4, <1>5, Zenon
  <2> HIDE DEF h, c
  <2>2. TailAt(x)' = c
    BY ONLY <1>2, <2>1, Zenon
  <2> QED
    BY <2>2, Zenon DEF c
<1>7. Counters'
  <2>1. \A x \in Sides : /\ ht'[x].head = Wrap(Start + HeadAt(x)')
                         /\ ht'[x].tail = Wrap(Start + TailAt(x)')
    BY <1>4, <1>6, Zenon
  <2>2. /\ Published' \in Nat /\ Released' \in Nat
        /\ Published <= Published' /\ Published' <= Len(claimed)
        /\ Released <= Released' /\ Released' <= taken
    BY <1>3, <1>6, Zenon DEF TailAt, HeadAt, Sides
  <2>3. /\ 0 <= Released' /\ Released' <= taken' /\ taken' <= Published'
        /\ Published' <= Len(claimed)' /\ Len(claimed)' <= Released' + capacity
    <3>1. /\ taken <= Published /\ Len(claimed) <= Released + capacity
          /\ Released \in Nat /\ taken \in Nat /\ Published \in Nat
          /\ Len(claimed) \in Nat /\ Len(claimed)' = Len(claimed)
          /\ taken' = taken
      BY Positions, Zenon DEF RingInv, Counters
    <3> QED
      BY <1>1, <2>2, <3>1, SMTT(20)
  <2> QED
    BY <2>1, <2>3, Zenon DEF Counters
<1>8. ht' \in [Sides -> [head : Nat, tail : Nat]]
  <2>1. Start + b \in Int
    BY <1>1
  <2>2. Wrap(Start + b) \in Nat
    BY ONLY <2>1, 0 \in Int, WrapFacts
  <2> QED
    BY <2>2, Zenon DEF RingInv, RingType
<1> QED
  BY <1>4, <1>6, <1>7, <1>8, Zenon

\* A thread that may store the tail owns what follows the tail.
LEMMA OursIsNext ==
  ASSUME RingInv, NEW t \in Threads, thr[t].pc = "update", TailIsOurs(t)
  PROVE  thr[t].at = TailAt(Side(t))
<1> DEFINE s == Side(t)
<1>1. /\ Owner(t) /\ thr[t] \in ThrType /\ s \in Sides /\ Busy(t)
      /\ t \in setup.users
  BY SideFacts, Zenon DEF RingInv, RingType, ThreadOK, Busy
<1>2. /\ thr[t].at \in Nat /\ thr[t].n \in Nat /\ thr[t].n >= 1
      /\ thr[t].old = Wrap(Start + thr[t].at)
      /\ TailAt(s) <= thr[t].at /\ thr[t].at + thr[t].n <= HeadAt(s)
  BY <1>1, Zenon DEF ThrType, Owner
<1>3. /\ TailAt(s) \in Nat /\ HeadAt(s) \in Nat
      /\ HeadAt(s) - TailAt(s) <= capacity /\ capacity < CtrMod
      /\ Start \in Nat /\ capacity \in Nat /\ CtrMod \in Nat
  BY <1>1, Positions, RingConstants
<1>4. CASE Single(t)
  <2>1. SUFFICES ASSUME TailAt(s) < thr[t].at PROVE FALSE
    BY <1>2, <1>3
  <2> DEFINE i == TailAt(s) + 1
  <2>2. i \in (TailAt(s) + 1)..HeadAt(s) /\ i <= thr[t].at
    BY <1>2, <1>3, <2>1, SMTT(60)
  <2> HIDE DEF i
  <2>3. PICK u \in Threads : Side(u) = s /\ Owns(u, i)
    BY <1>1, <2>2, Zenon DEF RingInv, Covered
  <2>4. u \in setup.users
    BY <2>3, Zenon DEF RingInv, ThreadOK, Owns, Busy
  <2>5. u = t
    BY <1>1, <1>4, <2>3, <2>4, OneThread, Zenon DEF RingInv
  <2>6. thr[t].at < i
    BY <2>3, <2>5, Zenon DEF Owns
  <2> QED
    BY <1>2, <2>2, <2>6
<1>5. CASE ~Single(t)
  <2> DEFINE a == Start + thr[t].at
             b == Start + TailAt(s)
  <2>1. Wrap(a) = Wrap(b)
    <3>1. ht[s].tail = Wrap(b)
      BY <1>1, Zenon DEF RingInv, Counters
    <3> QED
      BY <1>2, <1>5, <3>1, Zenon DEF TailIsOurs
  <2>2. a \in Int /\ b \in Int /\ b <= a /\ a - b < CtrMod
    <3> HIDE DEF s
    <3> QED
      BY ONLY <1>2, <1>3
  <2> HIDE DEF a, b
  <2>3. a = b
    BY ONLY <2>1, <2>2, 0 \in Int, WrapFacts, SMTT(60)
  <2> QED
    BY <1>2, <1>3, <2>3 DEF a, b
<1> QED
  BY <1>4, <1>5, Zenon

\* The tail moves over the batch of a thread, which then owns nothing.
LEMMA TailStep ==
  ASSUME RingInv, NEW t \in Threads, UpdateTail(t)
  PROVE  /\ RingInv' /\ thr[t].at = TailAt(Side(t))
         /\ TailAt(Side(t))' = TailAt(Side(t)) + thr[t].n
         /\ \A x \in Sides : /\ HeadAt(x)' = HeadAt(x)
                             /\ x # Side(t) => TailAt(x)' = TailAt(x)
<1> DEFINE s == Side(t)
           b == thr[t].at + thr[t].n
           g == [thr[t] EXCEPT !.pc = "idle"]
<1>1. /\ thr[t].pc = "update" /\ Busy(t) /\ Owner(t) /\ thr[t] \in ThrType
      /\ s \in Sides /\ TailIsOurs(t) /\ thr' = [thr EXCEPT ![t] = g]
      /\ ht' = [ht EXCEPT ![s].tail = Wrap(thr[t].old + thr[t].n)]
      /\ UNCHANGED <<setup, slots, claimed, taken>>
  BY SideFacts, Zenon DEF UpdateTail, RingInv, RingType, ThreadOK, Busy
<1>2. thr[t].at = TailAt(s)
  BY <1>1, OursIsNext, Zenon
<1>3. /\ thr[t].at \in Nat /\ thr[t].n \in Nat /\ thr[t].n >= 1
      /\ thr[t].old = Wrap(Start + thr[t].at) /\ b \in Nat
      /\ b <= HeadAt(s) /\ Len(thr[t].got) = thr[t].n
  BY <1>1 DEF ThrType, Owner
<1>4. TailAt(s) \in Nat /\ HeadAt(s) \in Nat /\ Start \in Nat /\ TailAt(s) <= b
  <2>1. TailAt(s) \in Nat /\ HeadAt(s) \in Nat /\ Start \in Nat
    BY <1>1, Positions, RingConstants, Zenon
  <2> QED
    BY ONLY <1>2, <1>3, <2>1
<1>5. ht' = [ht EXCEPT ![s].tail = Wrap(Start + b)]
  <2> DEFINE a == Start + thr[t].at
             c == thr[t].n
  <2>1. a \in Int /\ c \in Int /\ Start + b = a + c
    BY <1>3, <1>4, SMTT(60)
  <2>2. thr[t].old = Wrap(a)
    BY <1>3, Zenon
  <2> HIDE DEF a
  <2>3. Wrap(Wrap(a) + c) = Wrap(a + c)
    BY ONLY <2>1, 0 \in Int, WrapFacts, Zenon
  <2> QED
    BY <1>1, <2>1, <2>2, <2>3, Zenon
<1>6. /\ g \in ThrType /\ g.pc = "idle"
  BY <1>1, Zenon DEF ThrType
<1> HIDE DEF g
<1>7. /\ thr'[t] = g /\ thr' \in [Threads -> ThrType]
      /\ \A u \in Threads : u # t => thr'[u] = thr[u]
  BY <1>1, <1>6, Zenon DEF RingInv, RingType
<1>8. b = TailAt(s) + thr[t].n /\ s = Side(t) /\ b = thr[t].at + thr[t].n
  BY <1>2, Zenon
<1> HIDE DEF s, b
<1>9. /\ TailAt(s)' = b
      /\ \A x \in Sides : /\ x # s => TailAt(x)' = TailAt(x)
                          /\ HeadAt(x)' = HeadAt(x)
      /\ Counters'
      /\ ht' \in [Sides -> [head : Nat, tail : Nat]]
  BY <1>1, <1>3, <1>4, <1>5, TailMoves, Zenon
<1>10. RingType'
  BY <1>1, <1>7, <1>9, Zenon DEF RingInv, RingType
<1>11. ~Busy(t)' /\ \A u \in Threads :
         u # t => (Busy(u)' <=> Busy(u)) /\ thr'[u] = thr[u]
  BY <1>6, <1>7, Zenon DEF Busy
<1>12. /\ \A x \in Sides : /\ TailAt(x) \in Nat /\ TailAt(x)' \in Nat
                           /\ HeadAt(x) \in Nat /\ TailAt(x) <= TailAt(x)'
       /\ Published \in Nat /\ Released \in Nat
       /\ Published' \in Nat /\ Released' \in Nat
       /\ Published <= Published' /\ Released <= Released'
  <2>1. \A x \in Sides : /\ TailAt(x) \in Nat /\ TailAt(x)' \in Nat
                         /\ HeadAt(x) \in Nat /\ TailAt(x) <= TailAt(x)'
    <3> TAKE x \in Sides
    <3>1. TailAt(x) \in Nat /\ HeadAt(x) \in Nat
      BY Positions, Zenon
    <3>2. CASE x = s
      BY <1>3, <1>4, <1>9, <3>1, <3>2, Zenon
    <3>3. CASE x # s
      BY <1>9, <3>1, <3>3, SMTT(60)
    <3> QED
      BY <3>2, <3>3, Zenon
  <2> QED
    BY <2>1, Zenon DEF TailAt, Sides
<1>13. ASSUME NEW u \in Threads, u # t, Busy(u), Side(u) = s
       PROVE  b <= thr[u].at
  <2>1. /\ Owner(u) /\ thr[u] \in ThrType
        /\ \/ thr[t].at + thr[t].n <= thr[u].at
           \/ thr[u].at + thr[u].n <= thr[t].at
    BY <1>1, <1>8, <1>13, Zenon DEF RingInv, RingType, ThreadOK, Disjoint
  <2>2. /\ thr[u].n >= 1 /\ TailAt(s) <= thr[u].at /\ thr[u].at \in Nat
        /\ thr[u].n \in Nat
    BY <1>13, <2>1, Zenon DEF Owner, ThrType
  <2> QED
    BY <1>2, <1>3, <1>4, <1>8, <2>1, <2>2, SMTT(60)
<1>14. ASSUME NEW u \in Threads PROVE ThreadOK(u)'
  <2>1. CASE u = t
    BY <1>6, <1>7, <2>1, SMTT(60) DEF ThreadOK, Busy
  <2>2. CASE u # t
    <3>1. /\ thr'[u] = thr[u] /\ (Busy(u)' <=> Busy(u)) /\ Side(u) \in Sides
          /\ ThreadOK(u) /\ thr[u] \in ThrType /\ setup' = setup
          /\ HeadAt(Side(u))' = HeadAt(Side(u))
      BY <1>1, <1>9, <1>11, <2>2, SideFacts, SMTT(60) DEF RingInv, RingType
    <3>2. ASSUME Loaded(u) PROVE Loaded(u)'
      <4>1. /\ Limit(Side(u)) <= Limit(Side(u))' /\ Limit(Side(u)) \in Nat
            /\ Limit(Side(u))' \in Nat /\ thr[u].at \in Nat /\ thr[u].n \in Nat
        <5>1. capacity \in Nat /\ capacity' = capacity
          BY RingConstants, SMTT(60) DEF capacity
        <5>2. thr[u].at \in Nat /\ thr[u].n \in Nat
          BY <3>1, Zenon DEF ThrType
        <5>3. /\ Released + capacity <= Released' + capacity
              /\ Released + capacity \in Nat /\ Released' + capacity \in Nat
          <6>1. /\ Released \in Nat /\ Released' \in Nat /\ Released <= Released'
            BY <1>12, Zenon
          <6>2. ASSUME NEW r \in Nat, NEW q \in Nat, r <= q, NEW c \in Nat
                PROVE  r + c <= q + c /\ r + c \in Nat /\ q + c \in Nat
            BY ONLY <6>2
          <6> QED
            BY ONLY <5>1, <6>1, <6>2, Zenon
        <5> QED
          BY <1>12, <5>1, <5>2, <5>3, Zenon DEF Limit
      <4> QED
        BY <3>1, <3>2, <4>1 DEF Loaded, Single
    <3>3. ASSUME Busy(u), Owner(u) PROVE Owner(u)'
      <4>1. TailAt(Side(u))' <= thr[u].at
        <5>1. CASE Side(u) = s
          BY <1>9, <1>13, <2>2, <3>3, <5>1, SMTT(60)
        <5>2. CASE Side(u) # s
          BY <1>9, <3>1, <3>3, <5>2, SMTT(60) DEF Owner
        <5> QED
          BY <5>1, <5>2, Zenon
      <4> QED
        BY <1>1, <3>1, <3>3, <4>1, Zenon DEF Owner
    <3> QED
      BY <3>1, <3>2, <3>3, Zenon DEF ThreadOK
  <2> QED
    BY <2>1, <2>2, SMTT(60)
<1>15. Disjoint'
  BY <1>11, SMTT(60) DEF RingInv, Disjoint
<1>16. Covered'
  <2> SUFFICES ASSUME NEW x \in Sides, NEW i \in (TailAt(x)' + 1)..HeadAt(x)'
               PROVE  \E u \in Threads : Side(u) = x /\ Owns(u, i)'
    BY Zenon DEF Covered
  <2>1. i \in (TailAt(x) + 1)..HeadAt(x)
    BY <1>9, <1>12
  <2>2. PICK u \in Threads : Side(u) = x /\ Owns(u, i)
    BY <2>1, Zenon DEF RingInv, Covered
  <2>3. u # t
    <3>1. x = s => b < i
      BY <1>3, <1>9, <1>12
    <3> QED
      BY <1>3, <1>8, <2>2, <3>1 DEF Owns
  <2> QED
    BY <1>11, <2>2, <2>3, Zenon DEF Owns
<1>17. Contents'
  <2>1. ASSUME NEW i \in (Released' + 1)..Published'
        PROVE  slots[SlotOf(i)] = claimed[i]
    <3>1. i \in Nat /\ Released < i /\ i <= Published'
      <4>1. Released' \in Nat /\ Released \in Nat /\ Released <= Released'
            /\ Published' \in Nat
        BY ONLY <1>12, Zenon
      <4>2. ASSUME NEW r \in Nat, NEW q \in Nat, NEW p \in Nat, r <= q,
                   NEW j \in (q + 1)..p
            PROVE  j \in Nat /\ r < j /\ j <= p
        BY ONLY <4>2
      <4> QED
        BY ONLY <4>1, <4>2, i \in (Released' + 1)..Published', Zenon
    <3>2. CASE i <= Published
      <4>1. i \in (Released + 1)..Published
        BY <1>12, <3>1, <3>2
      <4> QED
        BY <4>1, Zenon DEF RingInv, Contents
    <3>3. CASE ~(i <= Published)
      <4>1. s = "prod"
        <5>1. Published' # Published
          BY <1>12, <3>1, <3>3, Zenon
        <5> QED
          BY <1>9, <5>1, Zenon DEF TailAt, Sides
      <4> DEFINE k == i - thr[t].at
      <4>2. k \in 1..Len(thr[t].got) /\ thr[t].at + k = i
        <5>1. Published = thr[t].at /\ Published' = b
          BY <1>2, <1>8, <1>9, <4>1, Zenon DEF TailAt
        <5> QED
          BY <1>3, <1>8, <3>1, <3>3, <5>1, SMTT(60)
      <4> HIDE DEF k
      <4>3. slots[SlotOf(thr[t].at + k)] = claimed[thr[t].at + k]
        BY <1>1, <1>8, <4>1, <4>2, Zenon DEF RingInv, Contents
      <4> QED
        BY <4>2, <4>3, Zenon
    <3> QED
      BY <3>2, <3>3, Zenon
  <2> QED
    BY <1>1, <1>11, <2>1 DEF RingInv, Contents, SlotOf
<1>18. ReadsRight'
  <2>1. \A u \in Consumers : u \in Threads
    BY Zenon DEF Threads
  <2> QED
    BY <1>1, <1>11, <2>1 DEF RingInv, ReadsRight, Busy
<1> QED
  BY <1>2, <1>8, <1>9, <1>10, <1>14, <1>15, <1>16, <1>17, <1>18, Zenon DEF RingInv

\* Every step of every thread keeps the invariant.
LEMMA RingStep ==
  ASSUME RingInv, NotLapped, [Next]_vars
  PROVE  RingInv'
<1>1. CASE UNCHANGED vars
  BY <1>1, ZenonT(30) DEF vars, RingInv, RingType, Counters, ThreadOK, Loaded, Owner, Disjoint,
     Covered, Contents, ReadsRight, HeadAt, TailAt, Limit, Published, Released,
     SlotOf, Busy, Owns, Single
<1>2. ASSUME NEW t \in Threads, Call(t) PROVE RingInv'
  <2>1. PICK n \in setup.batches, fixed \in BOOLEAN : Load(t, n, fixed)
    BY <1>2, Zenon DEF Call, jring_enqueue_bulk, jring_enqueue_burst,
       jring_dequeue_bulk, jring_dequeue_burst
  <2>2. n \in Nat
    BY JRingAssumption, Zenon DEF JRingAssumption, RingInv, RingType
  <2> QED
    BY <2>1, <2>2, LoadStep, Zenon
<1>3. ASSUME NEW t \in Threads, Check(t) PROVE RingInv'
  BY <1>3, CheckStep, Zenon
<1>4. ASSUME NEW t \in Threads, MoveHead(t) PROVE RingInv'
  BY <1>4, MoveStep, RetryStep, Zenon
<1>5. ASSUME NEW t \in Threads, Copy(t) PROVE RingInv'
  BY <1>5, EnqueueStep, DequeueStep, Zenon DEF Copy
<1>6. ASSUME NEW t \in Threads, UpdateTail(t) PROVE RingInv'
  BY <1>6, TailStep, Zenon
<1> QED
  BY <1>1, <1>2, <1>3, <1>4, <1>5, <1>6, Zenon DEF Next, Continue

\* A ring whose compare-and-swaps are never lapped keeps its invariant.
LEMMA RingInvariance == Spec /\ []NotLapped => []RingInv
<1>1. RingInv /\ NotLapped /\ [Next]_vars => RingInv'
  BY RingStep, Zenon
<1> QED
  BY InitInv, <1>1, PTL DEF Spec

\* Consumers copy out of the ring exactly what producers put at that place of the
\* queue, for any number of threads, any size of the ring, any use of the single
\* and multi-threaded calls, and however often the 32-bit counters have wrapped, as
\* long as no compare-and-swap is lapped by a whole round of the counters.
THEOREM RingReadsRight == Spec /\ []NotLapped => []ReadsRight
<1>1. RingInv => ReadsRight
  BY Zenon DEF RingInv
<1> QED
  BY RingInvariance, <1>1, PTL

-----------------------------------------------------------------------------
(* jring implements BoundedFifo.                                           *)

\* Sequences with the same elements are equal.
LEMMA SeqsEqual ==
  ASSUME NEW S, NEW s \in Seq(S), NEW t \in Seq(S), Len(s) = Len(t),
         \A i \in 1..Len(s) : s[i] = t[i]
  PROVE  s = t
  OBVIOUS

\* A stretch of a sequence.
LEMMA Middle ==
  ASSUME NEW S, NEW c \in Seq(S), NEW a \in Nat, NEW b \in Nat, a <= b,
         b <= Len(c)
  PROVE  /\ SubSeq(c, a + 1, b) \in Seq(S) /\ Len(SubSeq(c, a + 1, b)) = b - a
         /\ \A i \in 1..(b - a) : SubSeq(c, a + 1, b)[i] = c[a + i]
  OBVIOUS

\* It does not depend on what follows it.
LEMMA MiddleSame ==
  ASSUME NEW S, NEW c \in Seq(S), NEW d \in Seq(S), NEW a \in Nat, NEW b \in Nat,
         a <= b, b <= Len(c), b <= Len(d), \A i \in 1..b : d[i] = c[i]
  PROVE  SubSeq(d, a + 1, b) = SubSeq(c, a + 1, b)
<1> DEFINE x == SubSeq(d, a + 1, b)
           y == SubSeq(c, a + 1, b)
<1>1. /\ x \in Seq(S) /\ Len(x) = b - a /\ y \in Seq(S) /\ Len(y) = b - a
      /\ \A i \in 1..(b - a) : x[i] = d[a + i] /\ y[i] = c[a + i]
  BY Middle
<1> HIDE DEF x, y
<1>2. \A i \in 1..Len(x) : x[i] = y[i]
  <2> TAKE i \in 1..Len(x)
  <2>1. a + i \in 1..b /\ i \in 1..(b - a)
    BY <1>1, SMTT(60)
  <2> QED
    BY <1>1, <2>1, Zenon
<1>3. x = y
  BY <1>1, <1>2, SeqsEqual, Zenon
<1> QED
  BY <1>3, Zenon DEF x, y

\* Its end after the first elements have been taken, and its beginning.
LEMMA MiddleParts ==
  ASSUME NEW S, NEW c \in Seq(S), NEW a \in Nat, NEW m \in Nat, NEW b \in Nat,
         a <= m, m <= b, b <= Len(c)
  PROVE  LET q == SubSeq(c, a + 1, b)
         IN  /\ SubSeq(q, (m - a) + 1, b - a) = SubSeq(c, m + 1, b)
             /\ SubSeq(q, 1, m - a) = SubSeq(c, a + 1, m)
<1> DEFINE q == SubSeq(c, a + 1, b)
           x == SubSeq(c, m + 1, b)
           y == SubSeq(c, a + 1, m)
           n == m - a
           u == SubSeq(q, n + 1, b - a)
           v == SubSeq(q, 0 + 1, n)
<1>1. /\ n \in Nat /\ b - a \in Nat /\ n <= b - a /\ 0 + 1 = 1 /\ 0 \in Nat
      /\ 0 <= n /\ n - 0 = n /\ a <= b /\ m <= Len(c)
      /\ (b - a) - n = b - m
  OBVIOUS
<1>2. /\ q \in Seq(S) /\ Len(q) = b - a
      /\ \A i \in 1..(b - a) : q[i] = c[a + i]
  BY <1>1, Middle, SMTT(60)
<1>3. /\ x \in Seq(S) /\ Len(x) = b - m
      /\ \A i \in 1..(b - m) : x[i] = c[m + i]
  BY <1>1, Middle
<1>4. /\ y \in Seq(S) /\ Len(y) = n
      /\ \A i \in 1..n : y[i] = c[a + i]
  BY <1>1, Middle
<1> HIDE DEF q, x, y
<1>5. /\ u \in Seq(S) /\ Len(u) = b - m
      /\ \A i \in 1..(b - m) : u[i] = q[n + i]
  <2> HIDE DEF n
  <2> QED
    BY <1>1, <1>2, Middle
<1>6. /\ v \in Seq(S) /\ Len(v) = n
      /\ \A i \in 1..n : v[i] = q[i]
  <2> HIDE DEF n
  <2>1. n <= Len(q)
    BY <1>1, <1>2, Zenon
  <2> QED
    BY <1>1, <1>2, <2>1
<1>7. u = x
  <2> HIDE DEF u
  <2>1. \A i \in 1..Len(u) : u[i] = x[i]
    <3> TAKE i \in 1..Len(u)
    <3>1. n + i \in 1..(b - a) /\ a + (n + i) = m + i /\ i \in 1..(b - m)
      BY <1>1, <1>5
    <3> QED
      BY <1>2, <1>3, <1>5, <3>1, Zenon
  <2> QED
    BY <1>3, <1>5, <2>1, SeqsEqual, Zenon
<1>8. v = y
  <2> HIDE DEF v
  <2>1. \A i \in 1..Len(v) : v[i] = y[i]
    BY <1>1, <1>2, <1>4, <1>6
  <2> QED
    BY <1>4, <1>6, <2>1, SeqsEqual, Zenon
<1> QED
  BY <1>1, <1>7, <1>8, Zenon DEF q, x, y

\* The queue that is in the ring.
InRing == SubSeq(claimed, taken + 1, Published)

\* What the invariant says about it.
LEMMA InRingFacts ==
  ASSUME RingInv
  PROVE  /\ claimed \in Seq(Elements) /\ taken \in Nat /\ Published \in Nat
         /\ taken <= Published /\ Published <= Len(claimed)
         /\ InRing \in Seq(Elements) /\ Len(InRing) = Published - taken
<1>1. /\ claimed \in Seq(Elements) /\ taken \in Nat /\ Published \in Nat
      /\ taken <= Published /\ Published <= Len(claimed)
  BY Positions, Zenon DEF RingInv, RingType, Counters
<1> QED
  BY <1>1, Middle, Zenon DEF InRing

\* A step that changes neither the queue's ends nor what is between them.
LEMMA SameQueue ==
  ASSUME RingInv, RingInv', taken' = taken, Published' = Published,
         \A i \in 1..Len(claimed) : claimed'[i] = claimed[i]
  PROVE  InRing' = InRing
<1>1. /\ claimed \in Seq(Elements) /\ taken \in Nat /\ Published \in Nat
      /\ taken <= Published /\ Published <= Len(claimed)
  BY InRingFacts, Zenon
<1>2. claimed' \in Seq(Elements) /\ Published' <= Len(claimed')
  BY Zenon DEF RingInv, RingType, Counters
<1>3. \A i \in 1..Published : claimed'[i] = claimed[i]
  BY <1>1
<1>4. SubSeq(claimed', taken + 1, Published) = SubSeq(claimed, taken + 1, Published)
  BY <1>1, <1>2, <1>3, MiddleSame, Zenon
<1> QED
  BY <1>4, Zenon DEF InRing

\* A consumer that moves the head takes its batch from the queue.
LEMMA MoveTakes ==
  ASSUME RingInv, RingInv', NotLapped, NEW t \in Threads, MoveHead(t), Moved(t)
  PROVE  InRing' = InRing \/ Queue!Take
<1>1. /\ \A x \in Sides : TailAt(x)' = TailAt(x)
      /\ HeadAt(Side(t))' = HeadAt(Side(t)) + thr[t].n
      /\ \A i \in 1..Len(claimed) : claimed'[i] = claimed[i]
  BY MoveStep, Zenon
<1>2. Published' = Published
  BY <1>1, SMTT(60) DEF TailAt, Sides
<1>3. CASE Side(t) = "prod"
  <2>1. taken' = taken
    BY <1>3, Zenon DEF MoveHead
  <2> QED
    BY <1>1, <1>2, <2>1, SameQueue, Zenon
<1>4. CASE Side(t) # "prod"
  <2>1. claimed' = claimed /\ taken' = taken + thr[t].n
    BY <1>4, Zenon DEF MoveHead
  <2>2. /\ thr[t].n \in Nat /\ thr[t].n >= 1 /\ taken + thr[t].n <= Published
    BY <1>4, NotLate, Zenon DEF MoveHead, HeadAt, Limit
  <2>3. /\ claimed \in Seq(Elements) /\ taken \in Nat /\ Published \in Nat
        /\ taken <= Published /\ Published <= Len(claimed)
        /\ Len(InRing) = Published - taken
    BY InRingFacts, Zenon
  <2> DEFINE m == taken + thr[t].n
  <2>4. /\ m \in Nat /\ taken <= m /\ m <= Published /\ m - taken = thr[t].n
        /\ thr[t].n \in 1..Len(InRing)
    BY ONLY <2>2, <2>3
  <2>5. InRing' = SubSeq(claimed, m + 1, Published)
    BY <1>2, <2>1, Zenon DEF InRing
  <2> HIDE DEF m
  <2>6. SubSeq(InRing, (m - taken) + 1, Published - taken)
          = SubSeq(claimed, m + 1, Published)
    BY <2>3, <2>4, MiddleParts DEF InRing
  <2>7. InRing' = SubSeq(InRing, thr[t].n + 1, Len(InRing))
    BY <2>3, <2>4, <2>5, <2>6, Zenon
  <2> QED
    BY <2>4, <2>7, Zenon DEF Queue!Take, InRing
<1> QED
  BY <1>3, <1>4, Zenon

\* A producer that stores the tail adds its batch to the queue.
LEMMA TailPuts ==
  ASSUME RingInv, RingInv', NEW t \in Threads, UpdateTail(t)
  PROVE  InRing' = InRing \/ Queue!Put
<1>1. /\ TailAt(Side(t))' = TailAt(Side(t)) + thr[t].n
      /\ \A x \in Sides : x # Side(t) => TailAt(x)' = TailAt(x)
      /\ claimed' = claimed /\ taken' = taken
  BY TailStep, Zenon DEF UpdateTail
<1>2. CASE Side(t) = "prod"
  <2>1. Published' = Published + thr[t].n
    BY <1>1, <1>2, Zenon DEF TailAt
  <2>2. thr[t].n \in Nat /\ thr[t].n >= 1
    BY Zenon DEF RingInv, RingType, ThrType, ThreadOK, Owner, Busy, UpdateTail
  <2>3. /\ claimed \in Seq(Elements) /\ taken \in Nat /\ Published \in Nat
        /\ taken <= Published /\ Published <= Len(claimed)
        /\ InRing \in Seq(Elements) /\ Len(InRing) = Published - taken
    BY InRingFacts, Zenon
  <2> DEFINE b == Published + thr[t].n
  <2>4. b \in Nat /\ b <= Len(claimed) /\ taken <= b
    <3>1. Published' <= Len(claimed)
      BY <1>1, Zenon DEF RingInv, Counters
    <3>2. b \in Nat /\ taken <= b
      BY ONLY <2>2, <2>3
    <3> QED
      BY <2>1, <3>1, <3>2, Zenon
  <2>5. InRing' = SubSeq(claimed, taken + 1, b)
    BY <1>1, <2>1, Zenon DEF InRing
  <2>6. b = Published + thr[t].n
    BY Zenon
  <2> HIDE DEF b
  <2>7. InRing' \in Seq(Elements) /\ Len(InRing') = b - taken
    BY <2>3, <2>4, <2>5, Middle, Zenon
  <2>8. Len(InRing') \in (Len(InRing) + 1)..capacity
    <3>1. /\ Len(claimed) <= Released + capacity /\ Released <= taken
          /\ Released \in Nat /\ capacity \in Nat /\ Len(claimed) \in Nat
      BY Positions, RingConstants, Zenon DEF RingInv, Counters
    <3>2. b - taken <= capacity
      BY ONLY <2>3, <2>4, <3>1
    <3>3. b - taken >= (Published - taken) + 1
      BY ONLY <2>2, <2>3, <2>6, SMTT(20)
    <3> QED
      BY <2>3, <2>4, <2>7, <3>1, <3>2, <3>3, SMTT(60)
  <2>9. SubSeq(InRing', 1, Len(InRing)) = InRing
    <3>1. Published <= b
      BY <2>2, <2>3, <2>6
    <3>2. SubSeq(SubSeq(claimed, taken + 1, b), 1, Published - taken)
            = SubSeq(claimed, taken + 1, Published)
      BY <2>3, <2>4, <3>1, MiddleParts
    <3> QED
      BY <2>3, <2>5, <3>2, Zenon DEF InRing
  <2> QED
    BY <2>7, <2>8, <2>9, Zenon DEF Queue!Put, InRing
<1>3. CASE Side(t) # "prod"
  <2>1. Published' = Published
    BY <1>1, <1>3, Zenon DEF TailAt, Sides
  <2> QED
    BY <1>1, <2>1, SameQueue, Zenon
<1> QED
  BY <1>2, <1>3, Zenon

\* Every step of the ring is a step of the queue, or leaves the queue alone.
LEMMA RingRefines ==
  ASSUME RingInv, RingInv', NotLapped, [Next]_vars
  PROVE  [Queue!Put \/ Queue!Take]_InRing
<1>1. ASSUME UNCHANGED <<ht, claimed, taken>> PROVE InRing' = InRing
  BY <1>1, Zenon DEF InRing, Published
<1>2. CASE UNCHANGED vars
  BY <1>1, <1>2, SMTT(60) DEF vars
<1>3. ASSUME NEW t \in Threads, Call(t) PROVE InRing' = InRing
  BY <1>1, <1>3, Zenon DEF Call, Load, jring_enqueue_bulk, jring_enqueue_burst,
     jring_dequeue_bulk, jring_dequeue_burst
<1>4. ASSUME NEW t \in Threads, Check(t) \/ Copy(t) PROVE InRing' = InRing
  BY <1>1, <1>4, Zenon DEF Check, Copy
<1>5. ASSUME NEW t \in Threads, MoveHead(t) PROVE InRing' = InRing \/ Queue!Take
  <2>1. CASE Moved(t)
    BY <1>5, <2>1, MoveTakes, Zenon
  <2>2. CASE ~Moved(t)
    BY <1>1, <1>5, <2>2, Zenon DEF MoveHead
  <2> QED
    BY <2>1, <2>2, Zenon
<1>6. ASSUME NEW t \in Threads, UpdateTail(t) PROVE InRing' = InRing \/ Queue!Put
  BY <1>6, TailPuts, Zenon
<1> QED
  BY <1>2, <1>3, <1>4, <1>5, <1>6, Zenon DEF Next, Continue

\* A jring is a bounded queue of batches, for any number of threads, size of the
\* ring and use of the calls: a batch enters whole when the producers' tail passes
\* it and leaves whole when a consumer moves the head, in order, and never more
\* than the capacity is in it; again as long as no compare-and-swap is lapped.
THEOREM RingIsFifo == Spec /\ []NotLapped => RefinesFifo
<1>1. Init => Queue!FifoInit
  <2> SUFFICES ASSUME Init PROVE InRing = <<>>
    BY Zenon DEF Queue!FifoInit, InRing
  <2>1. RingInv /\ claimed = <<>> /\ taken = 0
    BY InitInv, Zenon DEF Init
  <2>2. /\ InRing \in Seq(Elements) /\ Len(InRing) = Published - taken
        /\ Published \in Nat /\ taken <= Published /\ Published <= Len(claimed)
    BY <2>1, InRingFacts, Zenon
  <2>3. Len(InRing) = 0
    BY <2>1, <2>2
  <2> QED
    BY <2>2, <2>3
<1>2. RingInv /\ RingInv' /\ NotLapped /\ [Next]_vars
        => [Queue!Put \/ Queue!Take]_InRing
  BY RingRefines, Zenon
<1> QED
  BY RingInvariance, <1>1, <1>2, PTL DEF Spec, RefinesFifo, Queue!FifoSpec, InRing

=============================================================================
