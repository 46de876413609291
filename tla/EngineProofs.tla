---------------------------- MODULE EngineProofs ----------------------------
(***************************************************************************)
(* The ports, the flow maps and the completions of an engine are right in  *)
(* every state, as long as no flow that a peer opened fails or is reset    *)
(* (PassiveFlowsDie = FALSE; see ListenerKeepsPort for what happens then). *)
(***************************************************************************)
EXTENDS Engine, WellFoundedInduction, TLAPS

-----------------------------------------------------------------------------
(* The invariant.                                                          *)

Ids == Nat \ {0}
Reqs == Connects \cup Listens
SqType == [id : Ids, r : Reqs]
CqType == [id : Ids, ok : BOOLEAN, key : Keys \cup {NoKey}]
PendingType == [age : Nat, id : Ids, r : Connects, ch : Channels]
FlowType == [proto : Protos, key : Keys, ch : Channels, req : Nat,
             st : {"SYN_SENT", "UP", "CLOSED"}, mapped : {TRUE}]
ListenerType == [proto : Protos, port : Ports, ch : Channels]
ConnType == [asked : Reqs, flow : Keys \cup {NoKey}]
LibType == [st : {"out", "added", "idle", "wait", "gone", "cut"},
            call : Reqs \cup {NoCall}, tries : Nat, next : Ids,
            conns : SUBSET ConnType, lstns : SUBSET Reqs]

Distinct(s) == \A i, j \in 1..Len(s) : s[i] = s[j] => i = j

\* Every flow is in the maps.
EngineTypeOK ==
  /\ lib \in [Channels -> LibType]
  /\ sq \in [Channels -> Seq(SqType)] /\ cq \in [Channels -> Seq(CqType)]
  /\ channels \in Seq(Channels)
  /\ toEnqueue \in Seq(Channels) /\ toDequeue \in Seq(Channels)
  /\ Distinct(channels) /\ Distinct(toEnqueue)
  /\ pending \in Seq(PendingType)
  /\ flows \subseteq FlowType /\ listeners \subseteq ListenerType
  /\ ports \in [used : SUBSET Ports, bound : SUBSET Ports]
  /\ arp \in [table : SUBSET Peers, asked : SUBSET Peers]

PortsOf(ls) == {l.port : l \in ls}
Opened(fs) == {f \in fs : f.req # Passive}
KeyPorts(fs) == {f.key.port : f \in fs}

\* Flows fs, listeners ls and the ports that are used and bound agree: a flow
\* that a peer opened is up, and has the port, the transport and the channel of
\* a listener.
Agree(fs, ls, used, bound) ==
  /\ used = PortsOf(ls) \cup KeyPorts(Opened(fs)) /\ bound = PortsOf(ls)
  /\ \A l, m \in ls : l.port = m.port => l = m
  /\ \A f \in Opened(fs) : /\ f.key.port \notin PortsOf(ls)
                           /\ \A g \in Opened(fs) :
                                g.key.port = f.key.port => g = f
  /\ \A f \in fs : f.req = Passive =>
       /\ f.st = "UP"
       /\ [proto |-> f.proto, port |-> f.key.port, ch |-> f.ch] \in ls
  /\ \A f, g \in fs : f.key = g.key => f = g

\* What the stages of a tick have left to do.
StageOK ==
  /\ stage \in {"run", "rto", "ctrl", "update"}
  /\ stage = "rto" => todo \subseteq flows
  /\ stage = "ctrl" => todo \subseteq Range(channels)
  /\ stage \in {"run", "update"} => todo = {}

\* The life of a channel.
LifeOK(c) ==
  /\ c \in Range(toEnqueue) <=> lib[c].st = "added"
  /\ lib[c].st \in {"out", "added"} =>
       /\ c \notin Range(channels) /\ c \notin Range(toDequeue)
       /\ lib[c].lstns = {}
  /\ lib[c].st \in {"idle", "wait"} =>
       c \in Range(channels) /\ c \notin Range(toDequeue)
  /\ lib[c].st \in {"gone", "cut"} =>
       (c \in Range(channels) <=> c \in Range(toDequeue))
  /\ lib[c].st = "wait" <=> lib[c].call # NoCall

\* Whatever is under way for a channel.
Pend == Range(pending)
AtWork == {"idle", "wait", "cut"}
WorkOK ==
  /\ \A c \in Channels : /\ Len(sq[c]) <= 1
                         /\ sq[c] # <<>> => lib[c].st \in AtWork
  /\ \A p \in Pend : lib[p.ch].st \in AtWork /\ p.r.isLocal
  /\ \A l \in listeners : l.ch \in Range(channels)
  /\ \A f \in flows : f.ch \in Range(channels) \/ lib[f.ch].st = "cut"

\* An identifier is given out once, and what the call of an application l
\* finds under its own identifier is its request, its flow and its answer.
Current(l, id) == l.st = "wait" /\ id = l.next - 1
Asks(l, peer) == l.call \in Connects /\ l.call.peer = peer /\ l.call.isLocal
RequestOK(l, id, r) == id < l.next /\ (Current(l, id) => r = l.call)
FlowOK(l, f) ==
  /\ f.req < l.next
  /\ f.req # Passive /\ Current(l, f.req) => Asks(l, f.key.peer)
RespOK(l, c, resp, ls) ==
  /\ resp.id < l.next
  /\ resp.ok /\ Current(l, resp.id) =>
       \/ resp.key \in Keys /\ Asks(l, resp.key.peer)
       \/ /\ l.call \in Listens
          /\ [proto |-> l.call.proto, port |-> l.call.port, ch |-> c] \in ls

IdsFor(l, c, sent, answers, pend, fs, ls) ==
  /\ \A e \in sent : RequestOK(l, e.id, e.r)
  /\ \A p \in pend : p.ch = c => RequestOK(l, p.id, p.r)
  /\ \A f \in fs : f.ch = c => FlowOK(l, f)
  /\ \A resp \in answers : RespOK(l, c, resp, ls)

IdsOK(c) ==
  IdsFor(lib[c], c, Range(sq[c]), Range(cq[c]), Pend, flows, listeners)

\* What the calls that returned have reported.
ReportsOK(c) ==
  /\ \A r \in lib[c].conns : r.flow.peer = r.asked.peer /\ r.asked.isLocal
  /\ c \in Range(channels) =>
       \A r \in lib[c].lstns :
         r \in Listens /\ [proto |-> r.proto, port |-> r.port, ch |-> c]
                            \in listeners

EngineInv ==
  /\ EngineTypeOK /\ Agree(flows, listeners, ports.used, ports.bound)
  /\ StageOK /\ WorkOK
  /\ \A c \in Channels : LifeOK(c) /\ IdsOK(c) /\ ReportsOK(c)

-----------------------------------------------------------------------------
(* Numbers and sequences.                                                  *)

\* A set of natural numbers has a least one.
LEMMA MinFacts ==
  ASSUME NEW S \in SUBSET Nat, S # {}
  PROVE  Min(S) \in S /\ \A y \in S : Min(S) <= y
<1> DEFINE R == OpToRel(<, Nat)
<1>1. IsWellFoundedOn(R, Nat)
  BY NatLessThanWellFounded, Zenon
<1>2. \A x, y \in Nat : x < y => <<x, y>> \in R
  BY Zenon DEF OpToRel
<1> HIDE DEF R
<1>3. PICK n \in S : \A m \in S : ~(<<m, n>> \in R)
  BY <1>1, WFMin, Zenon
<1>4. ASSUME NEW m \in S
      PROVE  n <= m
  <2>1. m \in Nat /\ n \in Nat
    BY Zenon
  <2>2. ~(m < n)
    BY <1>2, <1>3, <2>1, Zenon
  <2> QED
    BY <2>1, <2>2
<1> QED
  BY <1>4, Zenon DEF Min

\* Induction over the natural numbers, for sets.
LEMMA Induction ==
  ASSUME NEW T, 0 \in T, \A n \in Nat : n \in T => n + 1 \in T
  PROVE  Nat \subseteq T
<1> SUFFICES ASSUME Nat \ T # {}
             PROVE  FALSE
  BY Zenon
<1> DEFINE n == Min(Nat \ T)
<1>1. n \in Nat \ T /\ \A m \in Nat \ T : n <= m
  BY MinFacts, Zenon
<1> HIDE DEF n
<1>2. n # 0 /\ n \in Nat /\ ~(n \in T)
  BY <1>1, Zenon
<1>3. n - 1 \in Nat /\ ~(n <= n - 1) /\ (n - 1) + 1 = n
  BY <1>2
<1>4. n - 1 \in T
  BY <1>1, <1>3, Zenon
<1> QED
  BY <1>2, <1>3, <1>4, Zenon

\* The elements of sequences.
LEMMA ElementsOf ==
  ASSUME NEW S, NEW s \in Seq(S), NEW t \in Seq(S), NEW x \in S
  PROVE  /\ Range(s) \subseteq S /\ Range(<<>>) = {}
         /\ Range(Append(s, x)) = Range(s) \cup {x}
         /\ Range(s \o t) = Range(s) \cup Range(t)
<1>1. Range(s) = {s[i] : i \in 1..Len(s)} /\ Range(t) = {t[i] : i \in 1..Len(t)}
  BY DEF Range
<1>2. Range(s) \subseteq S /\ Range(<<>>) = {}
  BY <1>1 DEF Range
<1>3. Range(Append(s, x)) = Range(s) \cup {x}
  <2>1. Range(Append(s, x)) = {Append(s, x)[i] : i \in 1..(Len(s) + 1)}
    BY DEF Range
  <2> QED
    BY <1>1, <2>1
<1>4. Range(s \o t) = Range(s) \cup Range(t)
  <2>1. /\ DOMAIN (s \o t) = 1..(Len(s) + Len(t))
        /\ \A i \in 1..Len(s) : i \in 1..(Len(s) + Len(t)) /\ (s \o t)[i] = s[i]
        /\ \A i \in 1..Len(t) : /\ Len(s) + i \in 1..(Len(s) + Len(t))
                                /\ (s \o t)[Len(s) + i] = t[i]
    OBVIOUS
  <2>2. \A i \in 1..(Len(s) + Len(t)) : i \in 1..Len(s)
          \/ \E j \in 1..Len(t) : i = Len(s) + j
    <3> SUFFICES ASSUME NEW i \in 1..(Len(s) + Len(t)), ~(i \in 1..Len(s))
                 PROVE  i - Len(s) \in 1..Len(t) /\ i = Len(s) + (i - Len(s))
      BY Zenon
    <3> QED
      OBVIOUS
  <2>3. Range(s \o t) = {(s \o t)[i] : i \in 1..(Len(s) + Len(t))}
    BY <2>1, Zenon DEF Range
  <2>4. ASSUME NEW y \in Range(s \o t)
        PROVE  y \in Range(s) \cup Range(t)
    BY <1>1, <2>1, <2>2, <2>3
  <2>5. ASSUME NEW y \in Range(s) \cup Range(t)
        PROVE  y \in Range(s \o t)
    BY <1>1, <2>1, <2>3, Zenon
  <2> QED
    BY <2>4, <2>5, Zenon
<1> QED
  BY <1>2, <1>3, <1>4, Zenon

\* Removing an element that occurs once.
LEMMA RemoveAtFacts ==
  ASSUME NEW S, NEW s \in Seq(S), NEW k \in 1..Len(s), Distinct(s)
  PROVE  /\ RemoveAt(s, k) \in Seq(S) /\ Distinct(RemoveAt(s, k))
         /\ Range(RemoveAt(s, k)) = Range(s) \ {s[k]}
<1> DEFINE r == RemoveAt(s, k)
           n == Len(s)
           l == SubSeq(s, 1, k - 1)
           u == SubSeq(s, k + 1, n)
<1>0. /\ n \in Nat /\ k \in Nat /\ k - 1 \in Nat /\ n - k \in Nat
      /\ l \in Seq(S) /\ Len(l) = k - 1 /\ \A i \in 1..(k - 1) : l[i] = s[i]
      /\ u \in Seq(S) /\ Len(u) = n - k /\ \A i \in 1..(n - k) : u[i] = s[k + i]
  OBVIOUS
<1>a. l \in Seq(S) /\ u \in Seq(S)
  BY <1>0, Zenon
<1>1. /\ r \in Seq(S) /\ Len(r) = n - 1 /\ n \in Nat /\ k \in Nat
      /\ \A i \in 1..(n - 1) : r[i] = s[IF i < k THEN i ELSE i + 1]
  <2>1. r = l \o u
    BY Zenon DEF RemoveAt
  <2> HIDE DEF l, u, r
  <2>2. r \in Seq(S) /\ Len(r) = n - 1
    <3>1. r \in Seq(S) /\ Len(r) = Len(l) + Len(u)
      BY ONLY <1>a, <2>1
    <3> QED
      BY <1>0, <3>1
  <2>3. ASSUME NEW i \in 1..(n - 1), i < k
        PROVE  r[i] = s[i]
    BY <1>0, <2>1, <2>3
  <2>4. ASSUME NEW i \in 1..(n - 1), ~(i < k)
        PROVE  r[i] = s[i + 1]
    <3>1. i - (k - 1) \in 1..(n - k) /\ k + (i - (k - 1)) = i + 1
      BY <1>0, <2>4
    <3>2. r[i] = u[i - (k - 1)]
      BY <1>0, <2>1, <2>4
    <3> QED
      BY <1>0, <3>1, <3>2, Zenon
  <2> QED
    BY <1>0, <2>2, <2>3, <2>4, Zenon
<1> HIDE DEF l, u
<1>2. \A i \in 1..(n - 1) : (IF i < k THEN i ELSE i + 1) \in (1..n) \ {k}
  BY <1>1
<1>3. ASSUME NEW m \in (1..n) \ {k}
      PROVE  \E i \in 1..(n - 1) : m = IF i < k THEN i ELSE i + 1
  <2>1. CASE m < k
    BY <1>1, <2>1
  <2>2. CASE m > k
    <3>1. m - 1 \in 1..(n - 1) /\ ~(m - 1 < k) /\ m = (m - 1) + 1
      BY <1>1, <2>2
    <3> QED
      BY <3>1, Zenon
  <2> QED
    BY <1>1, <2>1, <2>2
<1>4. DOMAIN r = 1..(n - 1) /\ DOMAIN s = 1..n
  BY <1>1
<1> HIDE DEF r
<1>5. ASSUME NEW i \in 1..(n - 1), NEW j \in 1..(n - 1), r[i] = r[j]
      PROVE  i = j
  BY <1>1, <1>2, <1>5 DEF Distinct
<1>6. Range(r) = {r[i] : i \in 1..(n - 1)} /\ Range(s) = {s[i] : i \in 1..n}
  BY <1>4, Zenon DEF Range
<1>7. Range(r) = Range(s) \ {s[k]}
  <2>1. ASSUME NEW x \in Range(r)
        PROVE  x \in Range(s) /\ x # s[k]
    BY <1>1, <1>2, <1>6 DEF Distinct
  <2>2. ASSUME NEW x \in Range(s), x # s[k]
        PROVE  x \in Range(r)
    <3>1. PICK m \in (1..n) \ {k} : x = s[m]
      BY <1>6, <2>2, Zenon
    <3>2. PICK i \in 1..(n - 1) : m = IF i < k THEN i ELSE i + 1
      BY <1>3, Zenon
    <3>3. r[i] = s[m]
      BY <1>1, <3>2, Zenon
    <3> QED
      BY <1>6, <3>1, <3>3, Zenon
  <2> QED
    BY <2>1, <2>2, Zenon
<1> QED
  BY <1>1, <1>5, <1>7, Zenon DEF r, Distinct

-----------------------------------------------------------------------------
(* A channel is dropped.                                                   *)

\* The flows or the listeners of a channel, and the others.
Of(xs, c) == {x \in xs : x.ch = c}
NotOf(xs, c) == {x \in xs : x.ch # c}

\* Flows, listeners and ports still agree without those of a channel.
LEMMA AgreeDrops ==
  ASSUME NEW fs, NEW ls, NEW used, NEW bound, Agree(fs, ls, used, bound), NEW c
  PROVE  Agree(NotOf(fs, c), NotOf(ls, c),
               (used \ (PortsOf(Of(ls, c)) \cap bound)) \ KeyPorts(Of(fs, c)),
               bound \ PortsOf(Of(ls, c)))
<1> DEFINE fs2 == {f \in fs : f.ch # c}
           ls2 == {l \in ls : l.ch # c}
           ps == PortsOf({l \in ls : l.ch = c})
           ks == KeyPorts({f \in fs : f.ch = c})
           used2 == (used \ (ps \cap bound)) \ ks
<1>1. \A l, m \in ls : l.port = m.port => l = m
  BY Zenon DEF Agree
<1>2. \A f \in fs : f.req = Passive =>
        f.st = "UP" /\ [proto |-> f.proto, port |-> f.key.port, ch |-> f.ch] \in ls
  BY Zenon DEF Agree
<1>3. \A f \in fs : f.req # Passive =>
        /\ \A l \in ls : l.port # f.key.port
        /\ \A g \in fs : g.req # Passive /\ g.key.port = f.key.port => g = f
  BY Zenon DEF Agree, Opened, PortsOf
<1>4. used = PortsOf(ls) \cup KeyPorts(Opened(fs)) /\ bound = PortsOf(ls)
  BY Zenon DEF Agree
<1>5. bound \ ps = PortsOf(ls2)
  BY <1>1, <1>4, Zenon DEF PortsOf
<1>6. ASSUME NEW f \in fs, f.ch = c, NEW l \in ls2
      PROVE  l.port # f.key.port
  <2>1. CASE f.req = Passive
    <3> DEFINE m == [proto |-> f.proto, port |-> f.key.port, ch |-> f.ch]
    <3>1. m \in ls /\ m.port = f.key.port /\ m.ch = c
      BY <1>2, <1>6, <2>1, Zenon
    <3> HIDE DEF m
    <3> QED
      BY <1>1, <3>1, Zenon
  <2>2. CASE f.req # Passive
    BY <1>3, <2>2, Zenon
  <2> QED
    BY <2>1, <2>2, Zenon
<1>7. ASSUME NEW f \in fs, f.ch = c, NEW g \in fs2, g.req # Passive
      PROVE  g.key.port # f.key.port
  <2>1. CASE f.req = Passive
    <3> DEFINE m == [proto |-> f.proto, port |-> f.key.port, ch |-> f.ch]
    <3>1. m \in ls /\ m.port = f.key.port
      BY <1>2, <2>1, Zenon
    <3> HIDE DEF m
    <3> QED
      BY <1>3, <1>7, <3>1, Zenon
  <2>2. CASE f.req # Passive
    BY <1>3, <1>7, <2>2, Zenon
  <2> QED
    BY <2>1, <2>2, Zenon
<1>8. used2 = PortsOf(ls2) \cup KeyPorts(Opened(fs2))
  <2>1. ASSUME NEW p \in used2
        PROVE  p \in PortsOf(ls2) \cup KeyPorts(Opened(fs2))
    BY <1>4, <1>5, Zenon DEF KeyPorts, Opened, PortsOf
  <2>2. ASSUME NEW p \in PortsOf(ls2)
        PROVE  p \in used2
    BY <1>4, <1>5, <1>6, Zenon DEF PortsOf, KeyPorts
  <2>3. ASSUME NEW p \in KeyPorts(Opened(fs2))
        PROVE  p \in used2
    <3>1. PICK g \in fs2 : g.req # Passive /\ p = g.key.port
      BY Zenon DEF KeyPorts, Opened
    <3>2. p \in used /\ ~(p \in ps)
      BY <1>3, <1>4, <3>1, Zenon DEF KeyPorts, Opened, PortsOf
    <3>3. ~(p \in ks)
      BY <1>7, <3>1, Zenon DEF KeyPorts
    <3> QED
      BY <3>2, <3>3, Zenon
  <2> QED
    BY <2>1, <2>2, <2>3, Zenon
<1>9. \A f \in Opened(fs2) : /\ f.key.port \notin PortsOf(ls2)
                             /\ \A g \in Opened(fs2) :
                                  g.key.port = f.key.port => g = f
  BY <1>3, Zenon DEF Opened, PortsOf
<1>10. ASSUME NEW f \in fs2, f.req = Passive
       PROVE  /\ f.st = "UP"
              /\ [proto |-> f.proto, port |-> f.key.port, ch |-> f.ch] \in ls2
  BY <1>2, <1>10, Zenon
<1>11. \A f, g \in fs2 : f.key = g.key => f = g
  BY Zenon DEF Agree
<1> HIDE DEF used2
<1> QED
  BY <1>1, <1>5, <1>8, <1>9, <1>10, <1>11, Zenon DEF Agree, used2, Of, NotOf

\* The record that ChannelsUpdate works on.
DropOK(s) ==
  /\ s = [channels |-> s.channels, flows |-> s.flows,
          listeners |-> s.listeners, ports |-> s.ports]
  /\ s.ports = [used |-> s.ports.used, bound |-> s.ports.bound]
  /\ s.channels \in Seq(Channels) /\ Distinct(s.channels)
  /\ s.flows \subseteq FlowType /\ s.listeners \subseteq ListenerType
  /\ Agree(s.flows, s.listeners, s.ports.used, s.ports.bound)

DropRec(s, chs, fs, ls, used, bound) ==
  s = [channels |-> chs, flows |-> fs, listeners |-> ls,
       ports |-> [used |-> used, bound |-> bound]]

\* At the ports of a channel's listeners there are no others.
LEMMA DropListenersFacts ==
  ASSUME NEW s, NEW chs, NEW fs, NEW ls, NEW used, NEW bound,
         DropRec(s, chs, fs, ls, used, bound),
         \A l, m \in ls : l.port = m.port => l = m, NEW c
  PROVE  DropRec(DropListeners(s, c), chs, fs, NotOf(ls, c),
                 used \ (PortsOf(Of(ls, c)) \cap bound),
                 bound \ PortsOf(Of(ls, c)))
<1> DEFINE ps == {l.port : l \in {x \in s.listeners : x.ch = c}}
           hasUdp(p) == \E x \in s.listeners : x.proto = "udp" /\ x.port = p
           rest == {l \in s.listeners : ~(l.port \in ps /\
                                         (l.proto = "udp" \/ ~hasUdp(l.port)))}
<1>1. DropListeners(s, c)
        = [s EXCEPT !.listeners = rest, !.ports = UnregisterListener(s.ports, ps)]
  BY Zenon DEF DropListeners
<1>2. s.listeners = ls
  BY Zenon DEF DropRec
<1>3. ps = PortsOf(Of(ls, c))
  BY <1>2, Zenon DEF PortsOf, Of
<1>4. rest = NotOf(ls, c)
  BY <1>2, Zenon DEF NotOf
<1> HIDE DEF ps, rest
<1>5. UnregisterListener(s.ports, ps)
        = [used |-> used \ (ps \cap bound), bound |-> bound \ ps]
  BY Zenon DEF UnregisterListener, DropRec
<1>6. DropRec(DropListeners(s, c), chs, fs, rest, used \ (ps \cap bound), bound \ ps)
  BY <1>1, <1>5, Zenon DEF DropRec
<1> QED
  BY <1>3, <1>4, <1>6, Zenon

\* The keys of a channel's flows are those of no others, and all are mapped.
LEMMA DropFlowsFacts ==
  ASSUME NEW t, NEW chs, NEW fs, NEW ls, NEW used, NEW bound,
         DropRec(t, chs, fs, ls, used, bound),
         fs \subseteq FlowType, \A f, g \in fs : f.key = g.key => f = g,
         NEW c
  PROVE  DropRec(DropFlows(t, c), chs, NotOf(fs, c), ls,
                 used \ KeyPorts(Of(fs, c)), bound)
<1> DEFINE own(f) == \E x \in t.flows : x.ch = c /\ x.proto = f.proto
                                             /\ x.key = f.key
           rest == {[f EXCEPT !.mapped = f.mapped /\ ~own(f)] :
                      f \in {x \in t.flows : x.ch # c}}
           ks == {f.key.port : f \in {x \in t.flows : x.mapped /\ own(x)}}
<1>1. t.flows = fs /\ \A f \in fs : own(f) <=> f.ch = c
  BY Zenon DEF DropRec
<1>2. \A f \in fs : f.mapped = TRUE
  BY Zenon DEF FlowType
<1>3. DropFlows(t, c)
        = [t EXCEPT !.flows = rest, !.ports = SrcPortRelease(t.ports, ks)]
  BY Zenon DEF DropFlows
<1> HIDE DEF own
<1>4. ks = KeyPorts(Of(fs, c))
  BY <1>1, <1>2, Zenon DEF KeyPorts, Of
<1>5. ASSUME NEW f \in fs, f.ch # c
      PROVE  [f EXCEPT !.mapped = f.mapped /\ ~own(f)] = f
  <2>1. (f.mapped /\ ~own(f)) = TRUE
    BY <1>1, <1>2, <1>5, Zenon
  <2>2. f \in FlowType
    BY Zenon
  <2> QED
    BY <1>2, <2>1, <2>2, Zenon DEF FlowType
<1>6. rest = NotOf(fs, c)
  BY <1>1, <1>5, Zenon DEF NotOf
<1> HIDE DEF rest, ks
<1>7. SrcPortRelease(t.ports, ks) = [used |-> used \ ks, bound |-> bound]
  BY DEF SrcPortRelease, DropRec
<1>8. DropRec(DropFlows(t, c), chs, rest, ls, used \ ks, bound)
  BY <1>3, <1>7, Zenon DEF DropRec
<1> QED
  BY <1>4, <1>6, <1>8, Zenon

\* One turn of the loop of ChannelsUpdate.
LEMMA DropChannelFacts ==
  ASSUME NEW s, DropOK(s), NEW c
  PROVE  LET d == DropChannel(s, c)
         IN  /\ DropOK(d)
             /\ Range(d.channels) = Range(s.channels) \ {c}
             /\ \/ c \notin Range(s.channels) /\ d = s
                \/ /\ c \in Range(s.channels)
                   /\ d.flows = NotOf(s.flows, c)
                   /\ d.listeners = NotOf(s.listeners, c)
<1> DEFINE t == DropListeners(s, c)
           u == DropFlows(t, c)
           at == {i \in DOMAIN s.channels : s.channels[i] = c}
           d == DropChannel(s, c)
           chs == RemoveAt(s.channels, Min(at))
           fs == s.flows
           ls == s.listeners
           used == s.ports.used
           bound == s.ports.bound
           fs2 == NotOf(fs, c)
           ls2 == NotOf(ls, c)
           used1 == used \ (PortsOf(Of(ls, c)) \cap bound)
           used2 == used1 \ KeyPorts(Of(fs, c))
           bound2 == bound \ PortsOf(Of(ls, c))
<1>1. CASE c \notin Range(s.channels)
  BY <1>1, Zenon DEF DropChannel
<1>2. CASE c \in Range(s.channels)
  <2>1. d = [u EXCEPT !.channels = RemoveAt(u.channels, Min(at))]
    BY <1>2, Zenon DEF DropChannel
  <2>2. s.channels \in Seq(Channels) /\ Distinct(s.channels)
        /\ DOMAIN s.channels = 1..Len(s.channels)
    BY DEF DropOK
  <2>3. Min(at) \in 1..Len(s.channels) /\ s.channels[Min(at)] = c
    <3>1. at \in SUBSET Nat /\ at # {}
      BY <1>2, <2>2 DEF Range
    <3> QED
      BY <2>2, <3>1, MinFacts, Zenon
  <2>4. chs \in Seq(Channels) /\ Distinct(chs) /\ Range(chs) = Range(s.channels) \ {c}
    BY <2>2, <2>3, RemoveAtFacts, Zenon
  <2>5. /\ DropRec(s, s.channels, fs, ls, used, bound) /\ Agree(fs, ls, used, bound)
        /\ fs \subseteq FlowType /\ ls \subseteq ListenerType
        /\ \A f, g \in fs : f.key = g.key => f = g
        /\ \A l, m \in ls : l.port = m.port => l = m
    <3>1. DropRec(s, s.channels, fs, ls, used, bound)
      BY Zenon DEF DropOK, DropRec
    <3> QED
      BY <3>1, Zenon DEF DropOK, Agree
  <2> HIDE DEF fs, ls, used, bound
  <2>6. DropRec(t, s.channels, fs, ls2, used1, bound2)
    BY <2>5, DropListenersFacts, Zenon
  <2> HIDE DEF t, ls2, used1, bound2
  <2>7. DropRec(u, s.channels, fs2, ls2, used2, bound2)
    BY <2>5, <2>6, DropFlowsFacts, Zenon
  <2>8. Agree(fs2, ls2, used2, bound2)
    BY <2>5, AgreeDrops, Zenon DEF ls2, used1, bound2
  <2>9. fs2 \subseteq FlowType /\ ls2 \subseteq ListenerType
    BY <2>5, Zenon DEF ls2, NotOf
  <2> HIDE DEF u, fs2, used2
  <2>10. u.channels = s.channels
    BY <2>7, Zenon DEF DropRec
  <2> HIDE DEF chs, at
  <2>11. DropRec(d, chs, fs2, ls2, used2, bound2)
    BY <2>1, <2>7, <2>10, Zenon DEF DropRec, chs
  <2> HIDE DEF d
  <2>12. /\ d = [channels |-> d.channels, flows |-> d.flows,
                listeners |-> d.listeners, ports |-> d.ports]
         /\ d.ports = [used |-> d.ports.used, bound |-> d.ports.bound]
         /\ d.channels = chs /\ d.flows = fs2 /\ d.listeners = ls2
         /\ d.ports.used = used2 /\ d.ports.bound = bound2
    BY <2>11, Zenon DEF DropRec
  <2>13. DropOK(d)
    BY <2>4, <2>8, <2>9, <2>12, Zenon DEF DropOK
  <2> QED
    BY <1>2, <2>4, <2>12, <2>13, Zenon DEF d, fs2, ls2, fs, ls
<1> QED
  BY <1>1, <1>2, Zenon

\* The loop of ChannelsUpdate as a recursion: there is a function with what is
\* left after each turn, and DropChannels is its last value.
LEMMA DropLoop ==
  ASSUME NEW s, NEW cs, Len(cs) \in Nat
  PROVE  \E f : /\ f[0] = s
                /\ \A i \in 1..Len(cs) : f[i] = DropChannel(f[i - 1], cs[i])
                /\ DropChannels(s, cs) = f[Len(cs)]
<1> DEFINE N == Len(cs)
           Rec(f, n) == f = [i \in 0..n |-> IF i = 0 THEN s
                                            ELSE DropChannel(f[i - 1], cs[i])]
           after == CHOOSE f : Rec(f, N)
           T == {n \in Nat : \E f : Rec(f, n)}
<1>1. DropChannels(s, cs) = after[N]
  BY Zenon DEF DropChannels
<1>2. ASSUME NEW n \in Nat, NEW f, Rec(f, n)
      PROVE  \E g : Rec(g, n + 1)
  <2> DEFINE g == [i \in 0..(n + 1) |-> IF i <= n THEN f[i]
                                        ELSE DropChannel(f[n], cs[n + 1])]
  <2>1. ASSUME NEW i \in 0..(n + 1)
        PROVE  g[i] = IF i = 0 THEN s ELSE DropChannel(g[i - 1], cs[i])
    <3>1. CASE i = 0
      BY <1>2, <3>1
    <3>2. CASE i # 0 /\ i <= n
      <4>1. i \in 0..n /\ i - 1 \in 0..n /\ i - 1 <= n /\ i - 1 \in 0..(n + 1)
        BY <3>2
      <4>2. g[i] = f[i] /\ g[i - 1] = f[i - 1]
        BY <3>2, <4>1, Zenon
      <4>3. f[i] = DropChannel(f[i - 1], cs[i])
        BY <1>2, <3>2, <4>1, Zenon
      <4> QED
        BY <3>2, <4>2, <4>3, Zenon
    <3>3. CASE i = n + 1
      <4>1. i - 1 = n /\ n \in 0..(n + 1) /\ i # 0 /\ ~(i <= n)
        BY <3>3
      <4> QED
        BY <3>3, <4>1
    <3> QED
      BY <3>1, <3>2, <3>3
  <2>2. Rec(g, n + 1)
    BY <2>1, Zenon
  <2> QED
    BY <2>2, Zenon
<1>3. \E f : Rec(f, 0)
  <2> DEFINE f == [i \in 0..0 |-> s]
  <2>1. Rec(f, 0)
    BY SMT
  <2> QED
    BY <2>1, Zenon
<1>4. 0 \in T /\ \A n \in Nat : n \in T => n + 1 \in T
  <2> HIDE DEF Rec
  <2>1. 0 \in T
    BY <1>3, Zenon
  <2>2. ASSUME NEW n \in Nat, n \in T
        PROVE  n + 1 \in T
    <3>1. PICK f : Rec(f, n)
      BY <2>2, Zenon
    <3>2. \E g : Rec(g, n + 1)
      BY <1>2, <3>1, Zenon
    <3> QED
      BY <3>2
  <2> QED
    BY <2>1, <2>2, Zenon
<1>5. Nat \subseteq T
  <2> HIDE DEF T
  <2> QED
    BY <1>4, Induction, Zenon
<1>6. Rec(after, N)
  <2> HIDE DEF Rec
  <2>1. \E f : Rec(f, N)
    BY <1>5, Zenon
  <2> QED
    BY <2>1, Zenon
<1>7. 0 \in 0..N /\ \A i \in 1..N : i \in 0..N /\ i # 0
  OBVIOUS
<1>8. after[0] = s
  <2> HIDE DEF after
  <2> QED
    BY <1>6, <1>7, Zenon
<1>9. ASSUME NEW i \in 1..N
      PROVE  after[i] = DropChannel(after[i - 1], cs[i])
  <2> HIDE DEF after
  <2> QED
    BY <1>6, <1>7, Zenon
<1> HIDE DEF Rec, after, N
<1> QED
  BY <1>1, <1>8, <1>9, Zenon DEF N

\* Without the channels that are gone, of those there were.
Left(xs, chs, gone) == {x \in xs : x.ch \notin gone \cap chs}
Drops(s, t, gone) ==
  /\ DropOK(t)
  /\ Range(t.channels) = Range(s.channels) \ gone
  /\ t.flows = Left(s.flows, Range(s.channels), gone)
  /\ t.listeners = Left(s.listeners, Range(s.channels), gone)

\* A turn of the loop, after others.
LEMMA DropsOneMore ==
  ASSUME NEW s, NEW t, NEW gone, Drops(s, t, gone), NEW c
  PROVE  Drops(s, DropChannel(t, c), gone \cup {c})
<1> DEFINE d == DropChannel(t, c)
<1>1. /\ DropOK(d)
      /\ Range(d.channels) = Range(t.channels) \ {c}
      /\ \/ c \notin Range(t.channels) /\ d = t
         \/ /\ c \in Range(t.channels)
            /\ d.flows = NotOf(t.flows, c)
            /\ d.listeners = NotOf(t.listeners, c)
  BY DropChannelFacts, Zenon DEF Drops
<1> SUFFICES Drops(s, d, gone \cup {c})
  BY Zenon
<1> HIDE DEF d
<1>2. /\ Range(t.channels) = Range(s.channels) \ gone
      /\ t.flows = Left(s.flows, Range(s.channels), gone)
      /\ t.listeners = Left(s.listeners, Range(s.channels), gone)
  BY Zenon DEF Drops
<1>3. Range(d.channels) = Range(s.channels) \ (gone \cup {c})
  BY <1>1, <1>2, Zenon
<1>4. CASE c \notin Range(t.channels) /\ d = t
  <2>1. \A xs : Left(xs, Range(s.channels), gone)
                 = Left(xs, Range(s.channels), gone \cup {c})
    BY <1>2, <1>4, Zenon DEF Left
  <2> QED
    BY <1>1, <1>2, <1>3, <1>4, <2>1, Zenon DEF Drops
<1>5. CASE c \in Range(t.channels) /\ d.flows = NotOf(t.flows, c)
           /\ d.listeners = NotOf(t.listeners, c)
  <2>1. \A xs : NotOf(Left(xs, Range(s.channels), gone), c)
                 = Left(xs, Range(s.channels), gone \cup {c})
    BY <1>2, <1>5, Zenon DEF Left, NotOf
  <2> QED
    BY <1>1, <1>2, <1>3, <1>5, <2>1, Zenon DEF Drops
<1> QED
  BY <1>1, <1>4, <1>5, Zenon

\* The whole loop.
LEMMA DropChannelsFacts ==
  ASSUME NEW s, DropOK(s), NEW cs \in Seq(Channels)
  PROVE  Drops(s, DropChannels(s, cs), Range(cs))
<1> DEFINE N == Len(cs)
           Done(i) == {cs[j] : j \in 1..i}
<1>1. N \in Nat /\ Range(cs) = Done(N)
  BY DEF Range
<1>2. PICK f : /\ f[0] = s
               /\ \A i \in 1..Len(cs) : f[i] = DropChannel(f[i - 1], cs[i])
               /\ DropChannels(s, cs) = f[Len(cs)]
  BY <1>1, DropLoop
<1> DEFINE T == {i \in Nat : i <= N => Drops(s, f[i], Done(i))}
<1>3. 0 \in T
  <2>1. \A xs : Left(xs, Range(s.channels), {}) = xs
    BY Zenon DEF Left
  <2>2. Drops(s, s, {})
    BY <2>1, Zenon DEF Drops
  <2>3. Done(0) = {}
    OBVIOUS
  <2> QED
    BY <1>2, <2>2, <2>3, Zenon
<1>4. ASSUME NEW i \in Nat, i \in T
      PROVE  i + 1 \in T
  <2> SUFFICES ASSUME i + 1 <= N
               PROVE  Drops(s, f[i + 1], Done(i + 1))
    OBVIOUS
  <2>1. i <= N /\ i + 1 \in 1..N /\ (i + 1) - 1 = i
    BY <1>1
  <2>2. Drops(s, f[i], Done(i))
    BY <1>4, <2>1, Zenon
  <2>3. f[i + 1] = DropChannel(f[i], cs[i + 1])
    BY <1>2, <2>1, Zenon
  <2>4. Done(i + 1) = Done(i) \cup {cs[i + 1]}
    BY <2>1
  <2> HIDE DEF Done
  <2> QED
    BY <2>2, <2>3, <2>4, DropsOneMore
<1>5. Nat \subseteq T
  <2> HIDE DEF T
  <2> QED
    BY <1>3, <1>4, Induction, Zenon
<1>6. Drops(s, f[N], Done(N))
  <2> HIDE DEF Done
  <2> QED
    BY <1>1, <1>5
<1> QED
  BY <1>1, <1>2, <1>6, Zenon

\* The port of every flow is used.
LEMMA AgreePorts ==
  ASSUME NEW fs, NEW ls, NEW used, NEW bound, Agree(fs, ls, used, bound)
  PROVE  \A g \in fs : g.key.port \in used
<1> SUFFICES ASSUME NEW g \in fs
             PROVE  g.key.port \in used
  BY Zenon
<1> DEFINE l == [proto |-> g.proto, port |-> g.key.port, ch |-> g.ch]
<1>1. PortsOf(ls) \subseteq used /\ \A f \in Opened(fs) : f.key.port \in used
  BY Zenon DEF Agree, KeyPorts
<1>2. CASE g.req = Passive
  <2>1. l \in ls /\ l.port = g.key.port
    BY <1>2, Zenon DEF Agree
  <2> HIDE DEF l
  <2> QED
    BY <1>1, <2>1, Zenon DEF PortsOf
<1>3. CASE g.req # Passive
  BY <1>1, <1>3, Zenon DEF Opened
<1> QED
  BY <1>2, <1>3, Zenon

\* A flow that is opened at a port that nothing used.
LEMMA AgreeOpens ==
  ASSUME NEW fs, NEW ls, NEW used, NEW bound, Agree(fs, ls, used, bound),
         NEW f, f.req # Passive, f.key.port \notin used
  PROVE  Agree(fs \cup {f}, ls, used \cup {f.key.port}, bound)
<1> DEFINE fs2 == fs \cup {f}
           p == f.key.port
<1>1. Opened(fs2) = Opened(fs) \cup {f}
  BY Zenon DEF Opened
<1>2. KeyPorts(Opened(fs2)) = KeyPorts(Opened(fs)) \cup {p}
  BY <1>1, Zenon DEF KeyPorts
<1>3. PortsOf(ls) \subseteq used /\ \A g \in Opened(fs) : g.key.port \in used
  BY Zenon DEF Agree, KeyPorts
<1>4. \A g \in fs : g.key.port \in used
  BY AgreePorts, Zenon
<1>5. \A g \in Opened(fs2) : /\ g.key.port \notin PortsOf(ls)
                             /\ \A h \in Opened(fs2) :
                                  h.key.port = g.key.port => h = g
  BY <1>1, <1>3, Zenon DEF Agree
<1>6. \A g, h \in fs2 : g.key = h.key => g = h
  BY <1>4, Zenon DEF Agree
<1> QED
  BY <1>2, <1>5, <1>6, Zenon DEF Agree

\* A flow that a peer opens at a listener.
LEMMA AgreeAccepts ==
  ASSUME NEW fs, NEW ls, NEW used, NEW bound, Agree(fs, ls, used, bound),
         NEW f, f.req = Passive, f.st = "UP",
         [proto |-> f.proto, port |-> f.key.port, ch |-> f.ch] \in ls,
         \A g \in fs : ~(g.proto = f.proto /\ g.key = f.key)
  PROVE  Agree(fs \cup {f}, ls, used, bound)
<1> DEFINE fs2 == fs \cup {f}
           l == [proto |-> f.proto, port |-> f.key.port, ch |-> f.ch]
<1>1. Opened(fs2) = Opened(fs)
  BY Zenon DEF Opened
<1>2. f.key.port \in PortsOf(ls)
  BY DEF PortsOf
<1>3. ASSUME NEW g \in fs, g.key = f.key
      PROVE  FALSE
  <2> DEFINE m == [proto |-> g.proto, port |-> g.key.port, ch |-> g.ch]
  <2>1. g.req = Passive
    BY <1>2, <1>3, Zenon DEF Agree, Opened
  <2>2. m \in ls /\ l \in ls /\ m.port = l.port
    BY <1>3, <2>1, Zenon DEF Agree
  <2>3. m = l
    BY <2>2, Zenon DEF Agree
  <2> QED
    BY <1>3, <2>3, Zenon
<1>4. \A g, h \in fs2 : g.key = h.key => g = h
  BY <1>3, Zenon DEF Agree
<1> QED
  BY <1>1, <1>4, Zenon DEF Agree

\* A flow that this host opened goes, with its port.
LEMMA AgreeRemoves ==
  ASSUME NEW fs, NEW ls, NEW used, NEW bound, Agree(fs, ls, used, bound),
         NEW f \in fs, f.req # Passive
  PROVE  Agree(fs \ {f}, ls, used \ {f.key.port}, bound)
<1> DEFINE fs2 == fs \ {f}
           p == f.key.port
<1>1. Opened(fs2) = Opened(fs) \ {f} /\ f \in Opened(fs)
  BY Zenon DEF Opened
<1>2. KeyPorts(Opened(fs2)) = KeyPorts(Opened(fs)) \ {p}
  BY <1>1, Zenon DEF KeyPorts, Agree
<1>3. p \notin PortsOf(ls)
  BY <1>1, Zenon DEF Agree
<1>4. used \ {p} = PortsOf(ls) \cup KeyPorts(Opened(fs2))
  BY <1>2, <1>3, Zenon DEF Agree
<1> HIDE DEF p
<1>5. \A g \in Opened(fs2) : /\ g.key.port \notin PortsOf(ls)
                             /\ \A h \in Opened(fs2) :
                                  h.key.port = g.key.port => h = g
  BY <1>1, Zenon DEF Agree
<1> QED
  BY <1>4, <1>5, Zenon DEF Agree, p

\* A listener at a port that nothing used.
LEMMA AgreeListens ==
  ASSUME NEW fs, NEW ls, NEW used, NEW bound, Agree(fs, ls, used, bound),
         NEW l, l.port \notin used
  PROVE  Agree(fs, ls \cup {l}, used \cup {l.port}, bound \cup {l.port})
<1>1. PortsOf(ls \cup {l}) = PortsOf(ls) \cup {l.port}
  BY Zenon DEF PortsOf
<1>2. PortsOf(ls) \subseteq used /\ \A g \in Opened(fs) : g.key.port \in used
  BY Zenon DEF Agree, KeyPorts
<1>3. \A m, k \in ls \cup {l} : m.port = k.port => m = k
  BY <1>2, Zenon DEF Agree, PortsOf
<1> QED
  BY <1>1, <1>2, <1>3, Zenon DEF Agree

\* A flow changes its state; one that a peer opened stays up.
LEMMA AgreeInput ==
  ASSUME NEW fs, NEW ls, NEW used, NEW bound, Agree(fs, ls, used, bound),
         NEW f \in fs, NEW g, g.proto = f.proto, g.key = f.key, g.ch = f.ch,
         g.req = f.req, g.req = Passive => g.st = "UP"
  PROVE  Agree((fs \ {f}) \cup {g}, ls, used, bound)
<1> DEFINE fs2 == (fs \ {f}) \cup {g}
<1>1. Opened(fs2) = IF f.req = Passive THEN Opened(fs)
                    ELSE (Opened(fs) \ {f}) \cup {g}
  BY Zenon DEF Opened
<1>2. KeyPorts(Opened(fs2)) = KeyPorts(Opened(fs))
  <2>1. CASE f.req = Passive
    BY <1>1, <2>1, Zenon
  <2>2. CASE f.req # Passive
    <3>1. f \in Opened(fs)
      BY <2>2, Zenon DEF Opened
    <3> QED
      BY <1>1, <2>2, <3>1, Zenon DEF KeyPorts
  <2> QED
    BY <2>1, <2>2, Zenon
<1>3. ASSUME NEW h \in Opened(fs2)
      PROVE  \E k \in Opened(fs) : k.key = h.key /\ (k = h \/ (k = f /\ h = g))
  BY Zenon DEF Opened
<1>4. ASSUME NEW h \in Opened(fs2), NEW k \in Opened(fs2)
      PROVE  /\ h.key.port \notin PortsOf(ls)
             /\ k.key.port = h.key.port => k = h
  <2>1. PICK h0 \in Opened(fs) : h0.key = h.key /\ (h0 = h \/ (h0 = f /\ h = g))
    BY <1>3, Zenon
  <2>2. PICK k0 \in Opened(fs) : k0.key = k.key /\ (k0 = k \/ (k0 = f /\ k = g))
    BY <1>3, Zenon
  <2>3. h0.key.port \notin PortsOf(ls) /\ (k0.key.port = h0.key.port => k0 = h0)
    BY Zenon DEF Agree
  <2>4. h \in fs2 /\ k \in fs2
    BY Zenon DEF Opened
  <2> QED
    BY <2>1, <2>2, <2>3, <2>4, Zenon
<1>5. \A h, k \in fs2 : h.key = k.key => h = k
  BY Zenon DEF Agree
<1>6. \A h \in fs2 : h.req = Passive =>
        /\ h.st = "UP"
        /\ [proto |-> h.proto, port |-> h.key.port, ch |-> h.ch] \in ls
  BY Zenon DEF Agree
<1> HIDE DEF fs2
<1>7. Agree(fs2, ls, used, bound)
  BY <1>2, <1>4, <1>5, <1>6, Zenon DEF Agree
<1> QED
  BY <1>7, Zenon DEF fs2

\* One turn of the loops over the pending requests.
PendingTurn(s, p, proto) ==
  IF p.r.proto = proto THEN TryPending(s, p) ELSE s

\* The loop over the pending requests as a recursion.
LEMMA PendingLoop ==
  ASSUME NEW s, NEW proto, Len(pending) \in Nat
  PROVE  \E f : /\ f[0] = s
                /\ \A i \in 1..Len(pending) : f[i] = PendingTurn(f[i - 1], pending[i], proto)
                /\ TryAllPending(s, proto) = f[Len(pending)]
<1> DEFINE N == Len(pending)
           Rec(f, n) == f = [i \in 0..n |-> IF i = 0 THEN s
                                            ELSE PendingTurn(f[i - 1], pending[i], proto)]
           after == CHOOSE f : Rec(f, N)
           T == {n \in Nat : \E f : Rec(f, n)}
<1>1. TryAllPending(s, proto) = after[N]
  BY Zenon DEF TryAllPending, PendingTurn
<1>2. ASSUME NEW n \in Nat, NEW f, Rec(f, n)
      PROVE  \E g : Rec(g, n + 1)
  <2> DEFINE g == [i \in 0..(n + 1) |-> IF i <= n THEN f[i]
                                        ELSE PendingTurn(f[n], pending[n + 1], proto)]
  <2>1. ASSUME NEW i \in 0..(n + 1)
        PROVE  g[i] = IF i = 0 THEN s ELSE PendingTurn(g[i - 1], pending[i], proto)
    <3>1. CASE i = 0
      BY <1>2, <3>1
    <3>2. CASE i # 0 /\ i <= n
      <4>1. i \in 0..n /\ i - 1 \in 0..n /\ i - 1 <= n /\ i - 1 \in 0..(n + 1)
        BY <3>2
      <4>2. g[i] = f[i] /\ g[i - 1] = f[i - 1]
        BY <3>2, <4>1, Zenon
      <4>3. f[i] = PendingTurn(f[i - 1], pending[i], proto)
        BY <1>2, <3>2, <4>1, Zenon
      <4> QED
        BY <3>2, <4>2, <4>3, Zenon
    <3>3. CASE i = n + 1
      <4>1. i - 1 = n /\ n \in 0..(n + 1) /\ i # 0 /\ ~(i <= n)
        BY <3>3
      <4> QED
        BY <3>3, <4>1
    <3> QED
      BY <3>1, <3>2, <3>3
  <2>2. Rec(g, n + 1)
    BY <2>1, Zenon
  <2> QED
    BY <2>2, Zenon
<1>3. \E f : Rec(f, 0)
  <2> DEFINE f == [i \in 0..0 |-> s]
  <2>1. Rec(f, 0)
    BY SMT
  <2> QED
    BY <2>1, Zenon
<1>4. 0 \in T /\ \A n \in Nat : n \in T => n + 1 \in T
  <2> HIDE DEF Rec
  <2>1. 0 \in T
    BY <1>3, Zenon
  <2>2. ASSUME NEW n \in Nat, n \in T
        PROVE  n + 1 \in T
    <3>1. PICK f : Rec(f, n)
      BY <2>2, Zenon
    <3>2. \E g : Rec(g, n + 1)
      BY <1>2, <3>1, Zenon
    <3> QED
      BY <3>2
  <2> QED
    BY <2>1, <2>2, Zenon
<1>5. Nat \subseteq T
  <2> HIDE DEF T
  <2> QED
    BY <1>4, Induction, Zenon
<1>6. Rec(after, N)
  <2> HIDE DEF Rec
  <2>1. \E f : Rec(f, N)
    BY <1>5, Zenon
  <2> QED
    BY <2>1, Zenon
<1>7. 0 \in 0..N /\ \A i \in 1..N : i \in 0..N /\ i # 0
  OBVIOUS
<1>8. after[0] = s
  <2> HIDE DEF after
  <2> QED
    BY <1>6, <1>7, Zenon
<1>9. ASSUME NEW i \in 1..N
      PROVE  after[i] = PendingTurn(after[i - 1], pending[i], proto)
  <2> HIDE DEF after
  <2> QED
    BY <1>6, <1>7, Zenon
<1> HIDE DEF Rec, after, N
<1> QED
  BY <1>1, <1>8, <1>9, Zenon DEF N

\* What the loops leave: the requests kept and those for which a flow was
\* opened are among the pending ones.
OpenedFor(f, p) == f.ch = p.ch /\ f.req = p.id /\ f.key.peer = p.r.peer
TryRec(s, kept, fs, used, asked) ==
  s = [kept |-> kept, flows |-> fs, used |-> used, asked |-> asked]
TryOK(kept, fs, used, asked) ==
  /\ kept \in Seq(PendingType) /\ Range(kept) \subseteq Pend
  /\ fs \subseteq FlowType /\ flows \subseteq fs
  /\ used \subseteq Ports /\ asked \subseteq Peers
  /\ Agree(fs, listeners, used, ports.bound)
  /\ \A f \in fs \ flows : f.req # Passive /\ \E p \in Pend : OpenedFor(f, p)
Tries(s) == \E kept, fs, used, asked : TryRec(s, kept, fs, used, asked)
                                       /\ TryOK(kept, fs, used, asked)

\* A pending connect that is tried is kept, dropped, or opened with a free port.
LEMMA TryPendingFacts ==
  ASSUME NEW s, Tries(s), NEW p \in Pend, p \in PendingType
  PROVE  Tries(TryPending(s, p))
<1>1. PICK kept, fs, used, asked : TryRec(s, kept, fs, used, asked)
                                   /\ TryOK(kept, fs, used, asked)
  BY Zenon DEF Tries
<1> DEFINE free == FreePorts(s.used)
           key == [port |-> Min(free), peer |-> p.r.peer]
           taken == \E f \in s.flows : f.mapped /\ f.proto = p.r.proto /\ f.key = key
           t == TryPending(s, p)
           f == Flow(p.r.proto, key, p.ch, p.id, "SYN_SENT", ~taken)
<1>2. s.flows = fs /\ s.used = used
  BY <1>1, Zenon DEF TryRec
<1>3. CASE t = s
  BY <1>3, Zenon
<1>4. CASE t = [s EXCEPT !.kept = Append(@, p), !.asked = RequestL2Addr(@, p.r.peer)]
  <2>1. TryRec(t, Append(kept, p), fs, used, asked \cup {p.r.peer})
    BY <1>1, <1>4, Zenon DEF TryRec, RequestL2Addr
  <2>2. p.r.peer \in Peers
    BY Zenon DEF PendingType, Connects
  <2>3. kept \in Seq(PendingType) /\ Range(kept) \subseteq Pend
    BY <1>1, Zenon DEF TryOK
  <2>4. /\ Append(kept, p) \in Seq(PendingType)
        /\ Range(Append(kept, p)) = Range(kept) \cup {p}
    BY <2>3, ElementsOf
  <2>5. TryOK(Append(kept, p), fs, used, asked \cup {p.r.peer})
    BY <1>1, <2>2, <2>3, <2>4, Zenon DEF TryOK
  <2> QED
    BY <2>1, <2>5, Zenon DEF Tries
<1>5. CASE /\ t = [s EXCEPT !.used = @ \cup {key.port}, !.flows = @ \cup {f}]
           /\ free # {}
  <2>1. free \in SUBSET Nat /\ free \subseteq Ports /\ free \cap used = {}
    BY <1>2, EngineAssumption, Zenon DEF FreePorts
  <2>2. Min(free) \in free
    BY <1>5, <2>1, MinFacts, Zenon
  <2>3. Min(free) \in Ports /\ Min(free) \notin used
    BY <2>1, <2>2, Zenon
  <2> HIDE DEF free
  <2>4. key.port = Min(free) /\ key.peer = p.r.peer
    BY Zenon
  <2>5. p.r.peer \in Peers /\ p.r.proto \in Protos /\ p.ch \in Channels /\ p.id \in Ids
    BY Zenon DEF PendingType, Connects
  <2>6. key \in Keys
    BY <2>3, <2>5, Zenon DEF Keys
  <2> HIDE DEF key
  <2>7. Agree(fs, listeners, used, ports.bound)
    BY <1>1, Zenon DEF TryOK
  <2>8. ~taken
    <3>1. \A g \in fs : g.key.port \in used
      BY <2>7, AgreePorts, Zenon
    <3> QED
      BY <1>2, <2>3, <2>4, <3>1, Zenon
  <2>9. /\ f.key = key /\ f.ch = p.ch /\ f.req = p.id /\ f \in FlowType
        /\ f.req # Passive
    BY <2>5, <2>6, <2>8, Zenon DEF Flow, FlowType, Ids, Passive
  <2> HIDE DEF f, taken
  <2>10. TryRec(t, kept, fs \cup {f}, used \cup {key.port}, asked)
    BY <1>1, <1>5, Zenon DEF TryRec
  <2>11. Agree(fs \cup {f}, listeners, used \cup {f.key.port}, ports.bound)
    BY <2>3, <2>4, <2>7, <2>9, AgreeOpens, Zenon
  <2>12. OpenedFor(f, p)
    BY <2>4, <2>9, Zenon DEF OpenedFor
  <2>13. TryOK(kept, fs \cup {f}, used \cup {key.port}, asked)
    BY <1>1, <2>3, <2>4, <2>9, <2>11, <2>12, Zenon DEF TryOK
  <2> QED
    BY <2>10, <2>13, Zenon DEF Tries
<1> QED
  BY <1>3, <1>4, <1>5, Zenon DEF TryPending

\* The loop for one transport.
LEMMA TryAllFacts ==
  ASSUME NEW s, Tries(s), pending \in Seq(PendingType), NEW proto
  PROVE  Tries(TryAllPending(s, proto))
<1>1. Len(pending) \in Nat /\ DOMAIN pending = 1..Len(pending)
  OBVIOUS
<1>2. PICK f : /\ f[0] = s
               /\ \A i \in 1..Len(pending) :
                    f[i] = PendingTurn(f[i - 1], pending[i], proto)
               /\ TryAllPending(s, proto) = f[Len(pending)]
  BY <1>1, PendingLoop
<1> DEFINE T == {i \in Nat : i <= Len(pending) => Tries(f[i])}
<1>3. 0 \in T
  BY <1>2, Zenon
<1>4. ASSUME NEW i \in Nat, i \in T
      PROVE  i + 1 \in T
  <2> SUFFICES ASSUME i + 1 <= Len(pending)
               PROVE  Tries(f[i + 1])
    OBVIOUS
  <2>1. i <= Len(pending) /\ i + 1 \in 1..Len(pending) /\ (i + 1) - 1 = i
    BY <1>1
  <2>2. Tries(f[i])
    BY <1>4, <2>1, Zenon
  <2>3. f[i + 1] = PendingTurn(f[i], pending[i + 1], proto)
    BY <1>2, <2>1, Zenon
  <2>4. pending[i + 1] \in Pend /\ pending[i + 1] \in PendingType
    BY <1>1, <2>1 DEF Pend, Range
  <2>5. Tries(TryPending(f[i], pending[i + 1]))
    BY <2>2, <2>4, TryPendingFacts, Zenon
  <2> QED
    BY <2>2, <2>3, <2>5, Zenon DEF PendingTurn
<1>5. Nat \subseteq T
  <2> HIDE DEF T
  <2> QED
    BY <1>3, <1>4, Induction, Zenon
<1>6. Tries(f[Len(pending)])
  BY <1>1, <1>5
<1> QED
  BY <1>2, <1>6, Zenon

-----------------------------------------------------------------------------
(* The applications.                                                       *)

\* A call that goes on, or ends.
LEMMA CalmIds ==
  ASSUME NEW l, NEW m, m.next = l.next,
         m.st = "wait" => l.st = "wait" /\ m.call = l.call,
         NEW c, NEW sent, NEW answers, NEW pend, NEW fs, NEW ls,
         IdsFor(l, c, sent, answers, pend, fs, ls)
  PROVE  IdsFor(m, c, sent, answers, pend, fs, ls)
<1>1. \A id : Current(m, id) => Current(l, id) /\ m.call = l.call
  BY Zenon DEF Current
<1>2. \A id, r : RequestOK(l, id, r) => RequestOK(m, id, r)
  BY <1>1, Zenon DEF RequestOK
<1>3. \A f : FlowOK(l, f) => FlowOK(m, f)
  BY <1>1, Zenon DEF FlowOK, Asks
<1>4. \A resp : RespOK(l, c, resp, ls) => RespOK(m, c, resp, ls)
  BY <1>1, Zenon DEF RespOK, Asks
<1> QED
  BY <1>2, <1>3, <1>4, Zenon DEF IdsFor

\* An identifier is used up.
LEMMA NextIds ==
  ASSUME NEW l, NEW m, l.next \in Nat, m.next = l.next + 1,
         NEW c, NEW sent, NEW answers, NEW pend, NEW fs, NEW ls,
         \A e \in sent \cup answers \cup pend : e.id \in Nat,
         \A f \in fs : f.req \in Nat,
         IdsFor(l, c, sent, answers, pend, fs, ls)
  PROVE  IdsFor(m, c, sent, answers, pend, fs, ls)
<1>1. \A id \in Nat : id < l.next => id < m.next /\ ~Current(m, id)
  BY DEF Current
<1>2. \A id \in Nat : \A r : RequestOK(l, id, r) => RequestOK(m, id, r)
  BY <1>1, Zenon DEF RequestOK
<1>3. \A f \in fs : FlowOK(l, f) => FlowOK(m, f)
  BY <1>1, Zenon DEF FlowOK
<1>4. \A resp \in answers : RespOK(l, c, resp, ls) => RespOK(m, c, resp, ls)
  BY <1>1, Zenon DEF RespOK
<1> QED
  BY <1>2, <1>3, <1>4, Zenon DEF IdsFor

\* What is in the rings.
LEMMA RingTypes ==
  ASSUME EngineTypeOK, NEW c \in Channels
  PROVE  /\ lib[c] \in LibType /\ sq[c] \in Seq(SqType) /\ cq[c] \in Seq(CqType)
         /\ Range(sq[c]) \subseteq SqType /\ Range(cq[c]) \subseteq CqType
         /\ Pend \subseteq PendingType
         /\ \A e \in Range(sq[c]) \cup Range(cq[c]) \cup Pend : e.id \in Nat
         /\ \A f \in flows : f.req \in Nat
<1>1. /\ lib[c] \in LibType /\ sq[c] \in Seq(SqType) /\ cq[c] \in Seq(CqType)
      /\ pending \in Seq(PendingType)
  BY Zenon DEF EngineTypeOK
<1>2. Range(sq[c]) \subseteq SqType
  BY <1>1 DEF Range
<1>3. Range(cq[c]) \subseteq CqType
  BY <1>1 DEF Range
<1>4. Pend \subseteq PendingType
  BY <1>1 DEF Range, Pend
<1>5. \A e \in Range(sq[c]) \cup Range(cq[c]) \cup Pend : e.id \in Nat
  BY <1>2, <1>3, <1>4, Zenon DEF SqType, CqType, PendingType, Ids
<1>6. \A f \in flows : f.req \in Nat
  BY Zenon DEF EngineTypeOK, FlowType
<1> QED
  BY <1>1, <1>2, <1>3, <1>4, <1>5, <1>6, Zenon

\* A step of the controller or of the application of one channel.
LEMMA AppStep ==
  ASSUME EngineInv, UNCHANGED engineVars, NEW c \in Channels,
         lib' \in [Channels -> LibType], sq' \in [Channels -> Seq(SqType)],
         cq' \in [Channels -> Seq(CqType)], toEnqueue' \in Seq(Channels),
         toDequeue' \in Seq(Channels), Distinct(toEnqueue'),
         \A x \in Channels \ {c} :
           /\ lib'[x] = lib[x] /\ sq'[x] = sq[x] /\ cq'[x] = cq[x]
           /\ x \in Range(toEnqueue') <=> x \in Range(toEnqueue)
           /\ x \in Range(toDequeue') <=> x \in Range(toDequeue),
         Len(sq'[c]) <= 1, sq'[c] # <<>> => lib'[c].st \in AtWork,
         \A p \in Pend : p.ch = c => lib'[c].st \in AtWork,
         \A f \in flows : f.ch = c => c \in Range(channels) \/ lib'[c].st = "cut",
         LifeOK(c)', IdsOK(c)', ReportsOK(c)'
  PROVE  EngineInv'
<1>1. EngineTypeOK'
  BY Zenon DEF EngineInv, EngineTypeOK, engineVars
<1>2. Agree(flows, listeners, ports.used, ports.bound)'
  BY Zenon DEF EngineInv, engineVars
<1>3. StageOK'
  BY Zenon DEF EngineInv, StageOK, engineVars
<1>4. pending' = pending /\ flows' = flows /\ listeners' = listeners
      /\ channels' = channels /\ Pend' = Pend
  BY Zenon DEF engineVars, Pend
<1>5. WorkOK'
  <2>1. \A x \in Channels : /\ Len(sq'[x]) <= 1
                            /\ sq'[x] # <<>> => lib'[x].st \in AtWork
    BY Zenon DEF EngineInv, WorkOK
  <2>2. ASSUME NEW p \in Pend
        PROVE  lib'[p.ch].st \in AtWork /\ p.r.isLocal
    <3>1. p.ch \in Channels
      BY RingTypes, Zenon DEF EngineInv, PendingType
    <3> QED
      BY <2>2, <3>1, Zenon DEF EngineInv, WorkOK
  <2>3. ASSUME NEW f \in flows
        PROVE  f.ch \in Range(channels) \/ lib'[f.ch].st = "cut"
    <3>1. f.ch \in Channels
      BY Zenon DEF EngineInv, EngineTypeOK, FlowType
    <3> QED
      BY <2>3, <3>1, Zenon DEF EngineInv, WorkOK
  <2>4. \A l \in listeners : l.ch \in Range(channels)
    BY Zenon DEF EngineInv, WorkOK
  <2> QED
    BY <1>4, <2>1, <2>2, <2>3, <2>4, Zenon DEF WorkOK
<1>6. ASSUME NEW x \in Channels
      PROVE  LifeOK(x)' /\ IdsOK(x)' /\ ReportsOK(x)'
  <2>1. CASE x = c
    BY <2>1, Zenon
  <2>2. CASE x # c
    <3>1. /\ lib'[x] = lib[x] /\ sq'[x] = sq[x] /\ cq'[x] = cq[x]
          /\ x \in Range(toEnqueue') <=> x \in Range(toEnqueue)
          /\ x \in Range(toDequeue') <=> x \in Range(toDequeue)
      BY <2>2, Zenon
    <3>2. LifeOK(x) /\ IdsOK(x) /\ ReportsOK(x)
      BY Zenon DEF EngineInv
    <3>3. LifeOK(x)'
      BY <1>4, <3>1, <3>2, Zenon DEF LifeOK
    <3>4. IdsOK(x)'
      BY <1>4, <3>1, <3>2, Zenon DEF IdsOK
    <3>5. ReportsOK(x)'
      BY <1>4, <3>1, <3>2, Zenon DEF ReportsOK
    <3> QED
      BY <3>3, <3>4, <3>5, Zenon
  <2> QED
    BY <2>1, <2>2, Zenon
<1> QED
  BY <1>1, <1>2, <1>3, <1>5, <1>6, Zenon DEF EngineInv

\* The controller adds a channel.
LEMMA AddChannelStep ==
  ASSUME EngineInv, NEW c \in Channels, AddChannel(c)
  PROVE  EngineInv'
<1> DEFINE m == [lib[c] EXCEPT !.st = "added"]
<1>1. /\ lib[c].st = "out" /\ lib' = [lib EXCEPT ![c] = m]
      /\ toEnqueue' = Append(toEnqueue, c)
      /\ sq' = sq /\ cq' = cq /\ toDequeue' = toDequeue /\ UNCHANGED engineVars
  BY Zenon DEF AddChannel
<1>2. lib[c] \in LibType /\ LifeOK(c) /\ IdsOK(c) /\ ReportsOK(c)
  BY RingTypes, Zenon DEF EngineInv
<1>3. /\ m \in LibType /\ m.st = "added" /\ m.next = lib[c].next
      /\ m.call = lib[c].call /\ m.conns = lib[c].conns /\ m.lstns = lib[c].lstns
  BY <1>2, Zenon DEF LibType
<1> HIDE DEF m
<1>4. /\ lib' \in [Channels -> LibType] /\ lib'[c] = m
      /\ \A x \in Channels \ {c} : lib'[x] = lib[x]
  BY <1>1, <1>3, Zenon DEF EngineInv, EngineTypeOK
<1>5. toEnqueue \in Seq(Channels) /\ Distinct(toEnqueue) /\ c \notin Range(toEnqueue)
  BY <1>1, <1>2, Zenon DEF EngineInv, EngineTypeOK, LifeOK
<1>6. Range(toEnqueue') = Range(toEnqueue) \cup {c} /\ toEnqueue' \in Seq(Channels)
  BY <1>1, <1>5, ElementsOf
<1>7. Distinct(toEnqueue')
  <2>1. \A i \in 1..Len(toEnqueue) : toEnqueue[i] # c
    BY <1>5 DEF Range
  <2> QED
    BY <1>1, <1>5, <2>1 DEF Distinct
<1>8. LifeOK(c)'
  BY <1>1, <1>2, <1>3, <1>4, <1>6, Zenon DEF LifeOK, engineVars
<1>9. IdsOK(c)'
  <2>1. IdsFor(m, c, Range(sq[c]), Range(cq[c]), Pend, flows, listeners)
    BY <1>2, <1>3, CalmIds, Zenon DEF IdsOK
  <2> QED
    BY <1>1, <1>4, <2>1, Zenon DEF IdsOK, Pend, engineVars
<1>10. ReportsOK(c)'
  BY <1>1, <1>2, <1>3, <1>4, Zenon DEF ReportsOK, engineVars
<1>11. /\ sq[c] = <<>> /\ \A p \in Pend : p.ch # c
       /\ \A f \in flows : f.ch = c => c \in Range(channels)
  BY <1>1, Zenon DEF EngineInv, WorkOK, AtWork
<1>12. sq \in [Channels -> Seq(SqType)] /\ cq \in [Channels -> Seq(CqType)]
       /\ toDequeue \in Seq(Channels)
  BY Zenon DEF EngineInv, EngineTypeOK
<1>13. /\ \A x \in Channels \ {c} : x \in Range(toEnqueue') <=> x \in Range(toEnqueue)
       /\ Len(sq'[c]) <= 1
  BY <1>1, <1>6, <1>11
<1> QED
  BY <1>1, <1>4, <1>6, <1>7, <1>8, <1>9, <1>10, <1>11, <1>12, <1>13, AppStep, Zenon

\* The application has gone.
LEMMA RemoveChannelStep ==
  ASSUME EngineInv, NEW c \in Channels, RemoveChannel(c)
  PROVE  EngineInv'
<1> DEFINE st == IF UnderWay(c) THEN "cut" ELSE "gone"
           m == [lib[c] EXCEPT !.st = st, !.call = NoCall, !.tries = 0]
<1>1. /\ lib[c].st \in {"idle", "wait"} /\ lib' = [lib EXCEPT ![c] = m]
      /\ toDequeue' = Append(toDequeue, c)
      /\ sq' = sq /\ cq' = cq /\ toEnqueue' = toEnqueue /\ UNCHANGED engineVars
  BY Zenon DEF RemoveChannel
<1>2. lib[c] \in LibType /\ LifeOK(c) /\ IdsOK(c) /\ ReportsOK(c)
  BY RingTypes, Zenon DEF EngineInv
<1>3. st \in {"cut", "gone"} /\ (UnderWay(c) => st = "cut")
  BY Zenon
<1> HIDE DEF st
<1>4. /\ m \in LibType /\ m.st = st /\ m.next = lib[c].next /\ m.call = NoCall
      /\ m.conns = lib[c].conns /\ m.lstns = lib[c].lstns
  BY <1>2, <1>3, Zenon DEF LibType
<1> HIDE DEF m
<1>5. /\ lib' \in [Channels -> LibType] /\ lib'[c] = m
      /\ \A x \in Channels \ {c} : lib'[x] = lib[x]
  BY <1>1, <1>4, Zenon DEF EngineInv, EngineTypeOK
<1>6. /\ toDequeue \in Seq(Channels) /\ toEnqueue \in Seq(Channels)
      /\ Distinct(toEnqueue)
      /\ sq \in [Channels -> Seq(SqType)] /\ cq \in [Channels -> Seq(CqType)]
  BY Zenon DEF EngineInv, EngineTypeOK
<1>7. Range(toDequeue') = Range(toDequeue) \cup {c} /\ toDequeue' \in Seq(Channels)
  BY <1>1, <1>6, ElementsOf
<1>8. c \in Range(channels)
  BY <1>1, <1>2, Zenon DEF LifeOK
<1>9. LifeOK(c)'
  BY <1>1, <1>2, <1>3, <1>4, <1>5, <1>7, <1>8, Zenon DEF LifeOK, engineVars
<1>10. IdsOK(c)'
  <2>1. IdsFor(m, c, Range(sq[c]), Range(cq[c]), Pend, flows, listeners)
    BY <1>2, <1>3, <1>4, CalmIds, Zenon DEF IdsOK
  <2> QED
    BY <1>1, <1>5, <2>1, Zenon DEF IdsOK, Pend, engineVars
<1>11. ReportsOK(c)'
  BY <1>1, <1>2, <1>4, <1>5, Zenon DEF ReportsOK, engineVars
<1>12. /\ Len(sq[c]) <= 1 /\ (sq[c] # <<>> => st = "cut")
       /\ \A p \in Pend : p.ch = c => st = "cut"
  BY <1>3, Zenon DEF EngineInv, WorkOK, UnderWay, Pend, Range
<1>13. \A x \in Channels \ {c} : x \in Range(toDequeue') <=> x \in Range(toDequeue)
  BY <1>7, Zenon
<1> QED
  BY <1>1, <1>4, <1>5, <1>6, <1>7, <1>8, <1>9, <1>10, <1>11, <1>12, <1>13,
     AppStep, Zenon DEF AtWork

\* No request is the value that stands for none.
LEMMA RequestsAreCalls == \A r \in Reqs : r # NoCall
<1>1. DOMAIN NoCall = {}
  BY DEF NoCall
<1>2. \A r \in Reqs : "op" \in DOMAIN r
  BY Zenon DEF Reqs, Connects, Listens
<1> QED
  BY <1>1, <1>2, Zenon

\* A call puts its request on the submission ring.
LEMMA SubmitStep ==
  ASSUME EngineInv, NEW c \in Channels, NEW r \in Reqs, Submit(c, r)
  PROVE  EngineInv'
<1> DEFINE l == lib[c]
           e == [id |-> l.next, r |-> r]
           a == [l EXCEPT !.st = "wait", !.call = r, !.tries = max_tries,
                          !.next = @ + 1]
           b == [l EXCEPT !.next = @ + 1]
<1>1. /\ l.st = "idle" /\ cq' = cq /\ toEnqueue' = toEnqueue
      /\ toDequeue' = toDequeue /\ UNCHANGED engineVars
      /\ \/ /\ Len(sq[c]) < 1 /\ sq' = [sq EXCEPT ![c] = Append(sq[c], e)]
            /\ lib' = [lib EXCEPT ![c] = a]
         \/ lib' = [lib EXCEPT ![c] = b] /\ sq' = sq
  <2>1. CtrlRingCapacity = 1
    BY DEF CtrlRingCapacity, MACHNET_CHANNEL_CTRL_SQ_SLOT_NR
  <2>2. l.st = "idle" /\ cq' = cq /\ toEnqueue' = toEnqueue
        /\ toDequeue' = toDequeue /\ UNCHANGED engineVars
    BY Zenon DEF Submit
  <2>3. CASE Len(sq[c]) < 1
    <3>1. sq' = [sq EXCEPT ![c] = Append(sq[c], e)]
      BY <2>1, <2>3, Zenon DEF Submit
    <3>2. lib' = [lib EXCEPT ![c] = a]
      BY <2>1, <2>3, Zenon DEF Submit
    <3> QED
      BY <2>2, <2>3, <3>1, <3>2, Zenon
  <2>4. CASE ~(Len(sq[c]) < 1)
    <3>1. lib' = [lib EXCEPT ![c] = b] /\ sq' = sq
      BY <2>1, <2>4, Zenon DEF Submit
    <3> QED
      BY <2>2, <3>1, Zenon
  <2> QED
    BY <2>3, <2>4, Zenon
<1>2. /\ l \in LibType /\ LifeOK(c) /\ IdsOK(c) /\ ReportsOK(c)
      /\ sq[c] \in Seq(SqType) /\ Len(sq[c]) <= 1
      /\ \A x \in Range(sq[c]) \cup Range(cq[c]) \cup Pend : x.id \in Nat
      /\ \A f \in flows : f.req \in Nat
  BY RingTypes, Zenon DEF EngineInv, WorkOK
<1>3. /\ l.next \in Nat \ {0} /\ max_tries \in Nat
      /\ e \in SqType /\ e.id = l.next /\ e.r = r
  <2>1. l.next \in Ids /\ max_tries \in Nat
    BY <1>2, EngineAssumption, Zenon DEF LibType
  <2> HIDE DEF l
  <2> QED
    BY <2>1, Zenon DEF SqType, Ids
<1>4. /\ a \in LibType /\ a.st = "wait" /\ a.next = l.next + 1 /\ a.call = r
      /\ a.conns = l.conns /\ a.lstns = l.lstns
  <2>1. l.next + 1 \in Ids
    BY <1>3 DEF Ids
  <2>2. l \in LibType /\ max_tries \in Nat
    BY <1>2, <1>3, Zenon
  <2> HIDE DEF l
  <2> QED
    BY <2>1, <2>2, Zenon DEF LibType
<1>5. /\ b \in LibType /\ b.st = l.st /\ b.next = l.next + 1 /\ b.call = l.call
      /\ b.conns = l.conns /\ b.lstns = l.lstns
  BY <1>2, <1>3 DEF LibType, Ids
<1>6. r # NoCall
  BY RequestsAreCalls, Zenon
<1> DEFINE m == lib'[c]
<1> HIDE DEF a, b, e
<1>7. /\ toDequeue \in Seq(Channels) /\ toEnqueue \in Seq(Channels)
      /\ Distinct(toEnqueue) /\ lib \in [Channels -> LibType]
      /\ sq \in [Channels -> Seq(SqType)] /\ cq \in [Channels -> Seq(CqType)]
  BY Zenon DEF EngineInv, EngineTypeOK
<1>8. /\ lib' \in [Channels -> LibType] /\ (m = a \/ m = b)
      /\ \A x \in Channels \ {c} : lib'[x] = lib[x] /\ sq'[x] = sq[x]
  BY <1>1, <1>4, <1>5, <1>7, Zenon
<1>9. \/ /\ m = a /\ Len(sq[c]) < 1 /\ sq'[c] = Append(sq[c], e)
         /\ sq' = [sq EXCEPT ![c] = Append(sq[c], e)]
      \/ m = b /\ sq' = sq
  BY <1>1, <1>7, Zenon
<1>10. sq' \in [Channels -> Seq(SqType)] /\ Len(sq'[c]) <= 1
  <2>1. CASE m = a /\ Len(sq[c]) < 1 /\ sq' = [sq EXCEPT ![c] = Append(sq[c], e)]
    <3>1. Append(sq[c], e) \in Seq(SqType) /\ Len(Append(sq[c], e)) <= 1
      BY <1>2, <1>3, <2>1
    <3> HIDE DEF m
    <3> QED
      BY <1>7, <2>1, <3>1, Zenon
  <2>2. CASE sq' = sq
    BY <1>2, <1>7, <2>2, Zenon
  <2> QED
    BY <1>9, <2>1, <2>2, Zenon
<1> HIDE DEF m
<1>11. LifeOK(c)'
  BY <1>1, <1>2, <1>4, <1>5, <1>6, <1>8, Zenon DEF LifeOK, engineVars, m, l
<1>12. IdsOK(c)'
  <2>1. m.next = l.next + 1
    BY <1>4, <1>5, <1>8, Zenon
  <2>2. IdsFor(m, c, Range(sq[c]), Range(cq[c]), Pend, flows, listeners)
    BY <1>2, <1>3, <2>1, NextIds, Zenon DEF IdsOK
  <2>3. CASE sq' = sq
    BY <1>1, <2>2, <2>3, Zenon DEF IdsOK, m, Pend, engineVars
  <2>4. CASE m = a /\ sq'[c] = Append(sq[c], e)
    <3>1. Range(sq'[c]) = Range(sq[c]) \cup {e}
      BY <1>2, <1>3, <2>4, ElementsOf
    <3>2. RequestOK(m, e.id, e.r)
      BY <1>3, <1>4, <2>4 DEF RequestOK, Current
    <3>3. IdsFor(m, c, Range(sq'[c]), Range(cq[c]), Pend, flows, listeners)
      BY <2>2, <3>1, <3>2, Zenon DEF IdsFor
    <3> QED
      BY <1>1, <3>3, Zenon DEF IdsOK, m, Pend, engineVars
  <2> QED
    BY <1>9, <2>3, <2>4, Zenon
<1>13. ReportsOK(c)'
  BY <1>1, <1>2, <1>4, <1>5, <1>8, Zenon DEF ReportsOK, engineVars, m, l
<1>14. c \in Range(channels) /\ m.st \in AtWork
  BY <1>1, <1>2, <1>4, <1>5, <1>8, Zenon DEF LifeOK, AtWork, l
<1> QED
  BY <1>1, <1>7, <1>8, <1>10, <1>11, <1>12, <1>13, <1>14, AppStep, Zenon DEF m

\* What a call returns is true.
LEMMA ReturnsFacts ==
  ASSUME NEW c \in Channels, EngineTypeOK, lib[c].st = "wait", cq[c] # <<>>,
         IdsOK(c), ReportsOK(c), LifeOK(c), NEW l, l \in LibType,
         l.conns = lib[c].conns, l.lstns = lib[c].lstns
  PROVE  LET resp == Head(cq[c])
             m == IF lib[c].call.op = "connect" THEN ConnectReturns(c, l, resp)
                  ELSE ListenReturns(c, l, resp)
         IN  /\ m \in LibType /\ m.st = l.st /\ m.next = l.next /\ m.call = l.call
             /\ \A r \in m.conns : r.flow.peer = r.asked.peer /\ r.asked.isLocal
             /\ c \in Range(channels) =>
                  \A r \in m.lstns :
                    r \in Listens /\ [proto |-> r.proto, port |-> r.port, ch |-> c]
                                       \in listeners
<1> DEFINE resp == Head(cq[c])
           call == lib[c].call
<1>1. resp \in Range(cq[c]) /\ resp \in CqType
  <2>1. cq[c] \in Seq(CqType)
    BY RingTypes, Zenon
  <2>2. resp = cq[c][1] /\ 1 \in DOMAIN cq[c]
    BY <2>1
  <2> QED
    BY <2>1, <2>2 DEF Range
<1> HIDE DEF resp
<1>2. call \in Reqs /\ lib[c].next \in Nat
  BY RingTypes, Zenon DEF LifeOK, LibType, Ids
<1>3. /\ \A r \in Connects : r.op = "connect"
      /\ \A r \in Listens : r.op = "listen"
  BY Zenon DEF Connects, Listens
<1>4. RespOK(lib[c], c, resp, listeners)
  BY <1>1, Zenon DEF IdsOK, IdsFor
<1>5. CASE ~Accepts(c, resp)
  BY <1>5, Zenon DEF ConnectReturns, ListenReturns, ReportsOK, resp
<1>6. CASE Accepts(c, resp) /\ call.op = "connect"
  <2> DEFINE r0 == [asked |-> call, flow |-> resp.key]
             m == [l EXCEPT !.conns = @ \cup {r0}]
  <2>1. call \in Connects
    BY <1>2, <1>3, <1>6, Zenon DEF Reqs
  <2>2. Asks(lib[c], resp.key.peer)
    BY <1>3, <1>4, <1>6, Zenon DEF RespOK, Accepts, Current
  <2>3. r0 \in ConnType /\ r0.asked = call /\ r0.flow = resp.key
    BY <1>1, <1>2, Zenon DEF ConnType, CqType
  <2> HIDE DEF r0
  <2>4. /\ m \in LibType /\ m.st = l.st /\ m.next = l.next /\ m.call = l.call
        /\ m.conns = l.conns \cup {r0} /\ m.lstns = l.lstns
    BY <2>3, Zenon DEF LibType
  <2>5. ConnectReturns(c, l, resp) = m
    BY <1>6, Zenon DEF ConnectReturns, r0
  <2> HIDE DEF m
  <2>6. \A r \in m.conns : r.flow.peer = r.asked.peer /\ r.asked.isLocal
    BY <2>2, <2>3, <2>4, Zenon DEF ReportsOK, Asks
  <2>7. c \in Range(channels) =>
          \A r \in m.lstns :
            r \in Listens /\ [proto |-> r.proto, port |-> r.port, ch |-> c]
                               \in listeners
    BY <2>4, Zenon DEF ReportsOK
  <2> QED
    BY <1>6, <2>4, <2>5, <2>6, <2>7, Zenon DEF resp
<1>7. CASE Accepts(c, resp) /\ call.op # "connect"
  <2> DEFINE m == [l EXCEPT !.lstns = @ \cup {call}]
  <2>1. call \in Listens
    BY <1>2, <1>3, <1>7, Zenon DEF Reqs
  <2>2. [proto |-> call.proto, port |-> call.port, ch |-> c] \in listeners
    BY <1>3, <1>4, <1>7, Zenon DEF RespOK, Accepts, Current, Asks
  <2> HIDE DEF call
  <2>3. /\ m \in LibType /\ m.st = l.st /\ m.next = l.next /\ m.call = l.call
        /\ m.conns = l.conns /\ m.lstns = l.lstns \cup {call}
    BY <1>2, Zenon DEF LibType
  <2>4. ListenReturns(c, l, resp) = m
    BY <1>7, Zenon DEF ListenReturns, call
  <2> HIDE DEF m
  <2>5. \A r \in m.conns : r.flow.peer = r.asked.peer /\ r.asked.isLocal
    BY <2>3, Zenon DEF ReportsOK
  <2>6. c \in Range(channels) =>
          \A r \in m.lstns :
            r \in Listens /\ [proto |-> r.proto, port |-> r.port, ch |-> c]
                               \in listeners
    BY <2>1, <2>2, <2>3, Zenon DEF ReportsOK
  <2> QED
    BY <1>7, <2>3, <2>4, <2>5, <2>6, Zenon DEF resp, call
<1> QED
  BY <1>5, <1>6, <1>7, Zenon

\* A turn of the loop that waits for the completion.
LEMMA PollStep ==
  ASSUME EngineInv, NEW c \in Channels, Poll(c)
  PROVE  EngineInv'
<1> DEFINE l == lib[c]
           m == lib'[c]
<1>1. /\ l.st = "wait" /\ sq' = sq /\ toEnqueue' = toEnqueue
      /\ toDequeue' = toDequeue /\ UNCHANGED engineVars
  BY Zenon DEF Poll
<1>2. /\ l \in LibType /\ LifeOK(c) /\ IdsOK(c) /\ ReportsOK(c) /\ EngineTypeOK
      /\ cq[c] \in Seq(CqType) /\ Len(sq[c]) <= 1
  BY RingTypes, Zenon DEF EngineInv, WorkOK
<1>3. /\ toDequeue \in Seq(Channels) /\ toEnqueue \in Seq(Channels)
      /\ Distinct(toEnqueue) /\ lib \in [Channels -> LibType]
      /\ sq \in [Channels -> Seq(SqType)] /\ cq \in [Channels -> Seq(CqType)]
  BY Zenon DEF EngineInv, EngineTypeOK
<1>4. /\ m \in LibType /\ lib' = [lib EXCEPT ![c] = m]
      /\ (m.st = "idle" /\ m.call = NoCall) \/ (m.st = "wait" /\ m.call = l.call)
      /\ m.next = l.next
      /\ \A r \in m.conns : r.flow.peer = r.asked.peer /\ r.asked.isLocal
      /\ c \in Range(channels) =>
           \A r \in m.lstns :
             r \in Listens /\ [proto |-> r.proto, port |-> r.port, ch |-> c]
                                \in listeners
      /\ cq' \in [Channels -> Seq(CqType)] /\ Range(cq'[c]) \subseteq Range(cq[c])
      /\ \A x \in Channels \ {c} : cq'[x] = cq[x]
  <2>1. CASE cq[c] # <<>>
    <3> DEFINE k == [l EXCEPT !.st = "idle", !.call = NoCall, !.tries = 0]
               resp == Head(cq[c])
               n == IF l.call.op = "connect" THEN ConnectReturns(c, k, resp)
                    ELSE ListenReturns(c, k, resp)
    <3>1. cq' = [cq EXCEPT ![c] = Tail(cq[c])] /\ lib' = [lib EXCEPT ![c] = n]
      BY <2>1, Zenon DEF Poll
    <3>2. /\ k \in LibType /\ k.st = "idle" /\ k.call = NoCall /\ k.next = l.next
          /\ k.conns = l.conns /\ k.lstns = l.lstns
      BY <1>2, Zenon DEF LibType
    <3> HIDE DEF k
    <3>3. /\ n \in LibType /\ n.st = k.st /\ n.next = k.next /\ n.call = k.call
          /\ \A r \in n.conns : r.flow.peer = r.asked.peer /\ r.asked.isLocal
          /\ c \in Range(channels) =>
               \A r \in n.lstns :
                 r \in Listens /\ [proto |-> r.proto, port |-> r.port, ch |-> c]
                                    \in listeners
      BY <1>1, <1>2, <2>1, <3>2, ReturnsFacts, Zenon
    <3> HIDE DEF n
    <3>4. m = n
      BY <1>3, <3>1, Zenon
    <3>5. Tail(cq[c]) \in Seq(CqType) /\ Range(Tail(cq[c])) \subseteq Range(cq[c])
      BY <1>2, <2>1 DEF Range
    <3>6. /\ cq' \in [Channels -> Seq(CqType)] /\ Range(cq'[c]) \subseteq Range(cq[c])
          /\ \A x \in Channels \ {c} : cq'[x] = cq[x]
      BY <1>3, <3>1, <3>5, Zenon
    <3> QED
      BY <3>1, <3>2, <3>3, <3>4, <3>6, Zenon
  <2>2. CASE cq[c] = <<>>
    <3> DEFINE n == IF l.tries > 0 THEN [l EXCEPT !.tries = @ - 1]
                    ELSE [l EXCEPT !.st = "idle", !.call = NoCall]
    <3>1. lib' = [lib EXCEPT ![c] = n] /\ cq' = cq
      <4>1. cq' = cq
        BY <2>2, Zenon DEF Poll
      <4>2. lib' = [lib EXCEPT ![c] = n]
        BY <2>2, Zenon DEF Poll
      <4> QED
        BY <4>1, <4>2, Zenon
    <3>2. /\ n \in LibType /\ n.next = l.next /\ n.conns = l.conns
          /\ n.lstns = l.lstns
          /\ (n.st = "idle" /\ n.call = NoCall) \/ (n.st = "wait" /\ n.call = l.call)
      <4>1. CASE l.tries > 0
        <5>1. l.tries - 1 \in Nat
          BY <1>2, <4>1 DEF LibType
        <5> QED
          BY <1>1, <1>2, <4>1, <5>1, Zenon DEF LibType
      <4>2. CASE ~(l.tries > 0)
        BY <1>1, <1>2, <4>2, Zenon DEF LibType
      <4> QED
        BY <4>1, <4>2, Zenon
    <3> HIDE DEF n
    <3>3. m = n
      BY <1>3, <3>1, Zenon
    <3> QED
      BY <1>2, <1>3, <3>1, <3>2, <3>3, Zenon DEF ReportsOK
  <2> QED
    BY <2>1, <2>2, Zenon
<1> HIDE DEF m
<1>5. lib' \in [Channels -> LibType] /\ \A x \in Channels \ {c} : lib'[x] = lib[x]
  BY <1>3, <1>4, Zenon
<1>6. c \in Range(channels) /\ m.st \in AtWork
  BY <1>1, <1>2, <1>4, Zenon DEF LifeOK, AtWork
<1>7. LifeOK(c)'
  BY <1>1, <1>2, <1>4, Zenon DEF LifeOK, engineVars, m
<1>8. IdsOK(c)'
  <2>1. IdsFor(m, c, Range(sq[c]), Range(cq[c]), Pend, flows, listeners)
    BY <1>1, <1>2, <1>4, CalmIds, Zenon DEF IdsOK
  <2>2. IdsFor(m, c, Range(sq[c]), Range(cq'[c]), Pend, flows, listeners)
    BY <1>4, <2>1, Zenon DEF IdsFor
  <2> QED
    BY <1>1, <2>2, Zenon DEF IdsOK, m, Pend, engineVars
<1>9. ReportsOK(c)'
  BY <1>1, <1>4, Zenon DEF ReportsOK, engineVars, m
<1> QED
  BY <1>1, <1>2, <1>3, <1>4, <1>5, <1>6, <1>7, <1>8, <1>9, AppStep, Zenon DEF m

-----------------------------------------------------------------------------
(* The engine.                                                             *)

\* A step of the engine that moves no channel: what it adds has to be right.
LEMMA ServeStep ==
  ASSUME EngineInv,
         UNCHANGED <<lib, toEnqueue, toDequeue, channels>>,
         listeners \subseteq listeners',
         EngineTypeOK', Agree(flows, listeners, ports.used, ports.bound)', StageOK',
         \A c \in Channels : /\ Len(sq'[c]) <= 1 /\ (sq'[c] # <<>> => sq[c] # <<>>)
                             /\ Range(sq'[c]) \subseteq Range(sq[c]),
         \A p \in Pend' : lib[p.ch].st \in AtWork /\ p.r.isLocal
                          /\ RequestOK(lib[p.ch], p.id, p.r),
         \A l \in listeners' : l.ch \in Range(channels),
         \A f \in flows' : /\ f.ch \in Range(channels) \/ lib[f.ch].st = "cut"
                           /\ FlowOK(lib[f.ch], f),
         \A c \in Channels : \A resp \in Range(cq'[c]) :
           resp \in Range(cq[c]) \/ RespOK(lib[c], c, resp, listeners')
  PROVE  EngineInv'
<1>1. lib' = lib /\ channels' = channels /\ toEnqueue' = toEnqueue
      /\ toDequeue' = toDequeue
  BY Zenon
<1>2. WorkOK'
  BY <1>1, Zenon DEF EngineInv, WorkOK
<1>3. ASSUME NEW c \in Channels
      PROVE  LifeOK(c)' /\ IdsOK(c)' /\ ReportsOK(c)'
  <2>1. LifeOK(c) /\ IdsOK(c) /\ ReportsOK(c)
    BY Zenon DEF EngineInv
  <2>2. LifeOK(c)'
    BY <1>1, <2>1, Zenon DEF LifeOK
  <2>3. ReportsOK(c)'
    BY <1>1, <2>1, Zenon DEF ReportsOK
  <2>4. \A resp : RespOK(lib[c], c, resp, listeners)
                    => RespOK(lib[c], c, resp, listeners')
    BY Zenon DEF RespOK
  <2>5. IdsFor(lib[c], c, Range(sq'[c]), Range(cq'[c]), Pend', flows', listeners')
    BY <2>1, <2>4, Zenon DEF IdsOK, IdsFor
  <2>6. IdsOK(c)'
    BY <1>1, <2>5, Zenon DEF IdsOK
  <2> QED
    BY <2>2, <2>3, <2>6, Zenon
<1> QED
  BY <1>2, <1>3, Zenon DEF EngineInv

\* What the invariant says of the parts that a step leaves alone.
LEMMA Held ==
  ASSUME EngineInv
  PROVE  /\ \A c \in Channels : Len(sq[c]) <= 1
         /\ \A p \in Pend : /\ p \in PendingType /\ p.ch \in Channels
                            /\ lib[p.ch].st \in AtWork /\ p.r.isLocal
                            /\ RequestOK(lib[p.ch], p.id, p.r)
         /\ \A l \in listeners : l.ch \in Range(channels)
         /\ \A f \in flows : /\ f \in FlowType /\ f.ch \in Channels
                             /\ f.ch \in Range(channels) \/ lib[f.ch].st = "cut"
                             /\ FlowOK(lib[f.ch], f)
<1>1. Pend \subseteq PendingType
  <2>1. pending \in Seq(PendingType)
    BY Zenon DEF EngineInv, EngineTypeOK
  <2> QED
    BY <2>1 DEF Pend, Range
<1>2. \A p \in Pend : p \in PendingType /\ p.ch \in Channels
  BY <1>1, Zenon DEF PendingType
<1>3. \A f \in flows : f \in FlowType /\ f.ch \in Channels
  BY Zenon DEF EngineInv, EngineTypeOK, FlowType
<1>4. WorkOK /\ \A c \in Channels : IdsOK(c)
  BY Zenon DEF EngineInv
<1>5. \A p \in Pend : RequestOK(lib[p.ch], p.id, p.r)
  BY <1>2, <1>4, Zenon DEF IdsOK, IdsFor
<1>6. \A f \in flows : FlowOK(lib[f.ch], f)
  BY <1>3, <1>4, Zenon DEF IdsOK, IdsFor
<1> QED
  BY <1>2, <1>3, <1>4, <1>5, <1>6, Zenon DEF WorkOK

\* A completion is put on its ring, or lost.
LEMMA EmitFacts ==
  ASSUME EngineTypeOK, NEW c \in Channels, NEW id \in Ids, NEW ok \in BOOLEAN,
         NEW key \in Keys \cup {NoKey}, EmitCompletion(c, id, ok, key)
  PROVE  /\ cq' \in [Channels -> Seq(CqType)]
         /\ \A x \in Channels \ {c} : cq'[x] = cq[x]
         /\ Range(cq'[c]) \subseteq Range(cq[c]) \cup {Completion(id, ok, key)}
<1> DEFINE e == Completion(id, ok, key)
<1>1. e \in CqType
  BY Zenon DEF Completion, CqType
<1> HIDE DEF e
<1>2. cq \in [Channels -> Seq(CqType)] /\ cq[c] \in Seq(CqType)
  BY Zenon DEF EngineTypeOK
<1>3. cq' = [cq EXCEPT ![c] = Enqueue(cq[c], e)]
  BY Zenon DEF EmitCompletion, e
<1>4. Enqueue(cq[c], e) \in Seq(CqType)
      /\ Range(Enqueue(cq[c], e)) \subseteq Range(cq[c]) \cup {e}
  BY <1>1, <1>2, ElementsOf DEF Enqueue
<1> QED
  BY <1>2, <1>3, <1>4, Zenon DEF e

\* The slow timer begins.
LEMMA TickStep ==
  ASSUME EngineInv, Tick
  PROVE  EngineInv'
<1>1. /\ stage' = "rto" /\ todo' = {f \in flows : f.mapped}
      /\ pending' = [i \in DOMAIN pending |-> [pending[i] EXCEPT !.age = @ + 1]]
      /\ UNCHANGED <<lib, sq, cq, toEnqueue, toDequeue, channels, flows, listeners,
                     ports, arp>>
  BY Zenon DEF Tick
<1>2. pending \in Seq(PendingType)
  BY Zenon DEF EngineInv, EngineTypeOK
<1>3. \A i \in DOMAIN pending : /\ pending'[i] \in PendingType
                                /\ pending'[i].id = pending[i].id
                                /\ pending'[i].r = pending[i].r
                                /\ pending'[i].ch = pending[i].ch
  <2> SUFFICES ASSUME NEW i \in DOMAIN pending
               PROVE  /\ pending'[i] \in PendingType
                      /\ pending'[i].id = pending[i].id
                      /\ pending'[i].r = pending[i].r
                      /\ pending'[i].ch = pending[i].ch
    BY Zenon
  <2> DEFINE p == pending[i]
  <2>1. p \in PendingType /\ pending'[i] = [p EXCEPT !.age = @ + 1]
    BY <1>1, <1>2
  <2> HIDE DEF p
  <2>2. /\ pending'[i] \in PendingType /\ pending'[i].id = p.id
        /\ pending'[i].r = p.r /\ pending'[i].ch = p.ch
    BY <2>1 DEF PendingType
  <2> QED
    BY <2>2, Zenon DEF p
<1>4. pending' \in Seq(PendingType) /\ DOMAIN pending' = DOMAIN pending
  BY <1>1, <1>2, <1>3
<1>5. EngineTypeOK'
  BY <1>1, <1>4, Zenon DEF EngineInv, EngineTypeOK
<1>6. Agree(flows, listeners, ports.used, ports.bound)'
  BY <1>1, Zenon DEF EngineInv
<1>7. StageOK'
  BY <1>1, Zenon DEF StageOK
<1>8. ASSUME NEW p \in Pend'
      PROVE  lib[p.ch].st \in AtWork /\ p.r.isLocal /\ RequestOK(lib[p.ch], p.id, p.r)
  <2>1. PICK i \in DOMAIN pending' : p = pending'[i]
    BY Zenon DEF Pend, Range
  <2>2. pending[i] \in Pend
    BY <1>4, Zenon DEF Pend, Range
  <2> QED
    BY <1>3, <1>4, <2>1, <2>2, Held, Zenon
<1>9. /\ \A c \in Channels : Len(sq[c]) <= 1
      /\ \A l \in listeners : l.ch \in Range(channels)
      /\ \A f \in flows : /\ f.ch \in Range(channels) \/ lib[f.ch].st = "cut"
                          /\ FlowOK(lib[f.ch], f)
  BY Held, Zenon
<1> QED
  BY <1>1, <1>5, <1>6, <1>7, <1>8, <1>9, ServeStep, Zenon

\* A step that changes neither requests nor flows, listeners and ports.
LEMMA IdleStep ==
  ASSUME EngineInv, UNCHANGED <<lib, sq, cq, toEnqueue, toDequeue, channels, pending,
                                flows, listeners, ports>>,
         StageOK', arp' \in [table : SUBSET Peers, asked : SUBSET Peers]
  PROVE  EngineInv'
<1>1. EngineTypeOK'
  BY Zenon DEF EngineInv, EngineTypeOK
<1>2. Agree(flows, listeners, ports.used, ports.bound)' /\ Pend' = Pend
  BY Zenon DEF EngineInv, Pend
<1> QED
  BY <1>1, <1>2, Held, ServeStep, Zenon

\* The control requests begin.
LEMMA StartRequestsStep ==
  ASSUME EngineInv, StartRequests
  PROVE  EngineInv'
<1>1. StageOK'
  BY Zenon DEF StartRequests, StageOK
<1>2. arp' \in [table : SUBSET Peers, asked : SUBSET Peers]
  BY Zenon DEF StartRequests, EngineInv, EngineTypeOK
<1> QED
  BY <1>1, <1>2, IdleStep, Zenon DEF StartRequests

\* A peer answers.
LEMMA ArpReplyStep ==
  ASSUME EngineInv, NEW r \in Peers, ArpReply(r)
  PROVE  EngineInv'
<1>1. StageOK'
  BY Zenon DEF ArpReply, StageOK, EngineInv
<1>2. arp' \in [table : SUBSET Peers, asked : SUBSET Peers]
  BY Zenon DEF ArpReply, EngineInv, EngineTypeOK
<1> QED
  BY <1>1, <1>2, IdleStep, Zenon DEF ArpReply

\* A turn of HandleRTO.
LEMMA HandleRTOStep ==
  ASSUME EngineInv, PassiveFlowsDie = FALSE, NEW f, HandleRTO(f)
  PROVE  EngineInv'
<1>1. /\ stage = "rto" /\ f \in todo /\ todo' = todo \ {f} /\ stage' = stage
      /\ UNCHANGED <<lib, sq, toEnqueue, toDequeue, channels, pending, listeners, arp>>
  BY Zenon DEF HandleRTO
<1>2. f \in flows /\ StageOK
  BY <1>1, Zenon DEF EngineInv, StageOK
<1>3. CASE UNCHANGED <<cq, ports, flows>>
  <2>1. StageOK'
    BY <1>1, <1>2, <1>3, Zenon DEF StageOK
  <2>2. arp' \in [table : SUBSET Peers, asked : SUBSET Peers]
    BY <1>1, Zenon DEF EngineInv, EngineTypeOK
  <2> QED
    BY <1>1, <1>3, <2>1, <2>2, IdleStep, Zenon
<1>4. CASE (f.st = "CLOSED" \/ f.req # Passive) /\ RemoveFlow(f)
  <2>1. f \in FlowType /\ f.ch \in Channels /\ FlowOK(lib[f.ch], f)
    BY <1>2, Held, Zenon
  <2>2. Agree(flows, listeners, ports.used, ports.bound)
    BY Zenon DEF EngineInv
  <2>3. f.req # Passive
    BY <1>2, <1>4, <2>2, Zenon DEF Agree
  <2>4. flows' = flows \ {f} /\ ports' = SrcPortRelease(ports, {f.key.port})
    BY <1>4, Zenon DEF RemoveFlow
  <2>5. ports \in [used : SUBSET Ports, bound : SUBSET Ports] /\ EngineTypeOK
    BY Zenon DEF EngineInv, EngineTypeOK
  <2>6. /\ ports'.used = ports.used \ {f.key.port} /\ ports'.bound = ports.bound
        /\ ports' \in [used : SUBSET Ports, bound : SUBSET Ports]
    BY <2>4, <2>5, Zenon DEF SrcPortRelease
  <2>7. Agree(flows, listeners, ports.used, ports.bound)'
    <3>1. Agree(flows \ {f}, listeners, ports.used \ {f.key.port}, ports.bound)
      BY <1>2, <2>2, <2>3, AgreeRemoves, Zenon
    <3> QED
      BY <1>1, <2>4, <2>6, <3>1, Zenon
  <2>8. /\ cq' \in [Channels -> Seq(CqType)]
        /\ \A c \in Channels : \A resp \in Range(cq'[c]) :
             resp \in Range(cq[c]) \/ RespOK(lib[c], c, resp, listeners')
    <3>1. CASE EmitCompletion(f.ch, f.req, FALSE, f.key)
      <4> DEFINE e == Completion(f.req, FALSE, f.key)
      <4>1. f.req \in Ids /\ f.key \in Keys
        BY <2>1, <2>3, Zenon DEF FlowType, Ids, Passive
      <4>2. /\ cq' \in [Channels -> Seq(CqType)]
            /\ \A x \in Channels \ {f.ch} : cq'[x] = cq[x]
            /\ Range(cq'[f.ch]) \subseteq Range(cq[f.ch]) \cup {e}
        BY <2>1, <2>5, <3>1, <4>1, EmitFacts, Zenon
      <4>3. RespOK(lib[f.ch], f.ch, e, listeners')
        BY <2>1, Zenon DEF RespOK, FlowOK, Completion
      <4> HIDE DEF e
      <4> QED
        BY <4>2, <4>3, Zenon
    <3>2. CASE cq' = cq
      BY <2>5, <3>2, Zenon DEF EngineTypeOK
    <3> QED
      BY <1>4, <3>1, <3>2, Zenon DEF RemoveFlow
  <2>9. EngineTypeOK'
    BY <1>1, <2>4, <2>5, <2>6, <2>8, Zenon DEF EngineTypeOK
  <2>10. StageOK' /\ Pend' = Pend
    BY <1>1, <1>2, <2>4, Zenon DEF StageOK, Pend
  <2> QED
    BY <1>1, <2>4, <2>7, <2>8, <2>9, <2>10, Held, ServeStep, Zenon
<1> QED
  BY <1>3, <1>4, Zenon DEF HandleRTO

\* A packet for a flow.
LEMMA FlowInputStep ==
  ASSUME EngineInv, PassiveFlowsDie = FALSE, NEW f \in flows,
         NEW st \in {"UP", "CLOSED"}, FlowInput(f, st)
  PROVE  EngineInv'
<1> DEFINE g == [f EXCEPT !.st = st]
<1>1. /\ stage = "run" /\ flows' = (flows \ {f}) \cup {g}
      /\ UNCHANGED <<lib, sq, toEnqueue, toDequeue, stage, todo, channels, pending,
                     listeners, ports, arp>>
  BY Zenon DEF FlowInput
<1>2. /\ f \in FlowType /\ f.ch \in Channels /\ FlowOK(lib[f.ch], f)
      /\ f.ch \in Range(channels) \/ lib[f.ch].st = "cut"
  BY Held, Zenon
<1>3. Agree(flows, listeners, ports.used, ports.bound) /\ EngineTypeOK
  BY Zenon DEF EngineInv
<1>4. f.req # Passive
  BY <1>3, Zenon DEF FlowInput, Agree
<1>5. /\ g \in FlowType /\ g.proto = f.proto /\ g.key = f.key /\ g.ch = f.ch
      /\ g.req = f.req
  BY <1>2, Zenon DEF FlowType
<1> HIDE DEF g
<1>6. Agree(flows, listeners, ports.used, ports.bound)'
  <2>1. Agree((flows \ {f}) \cup {g}, listeners, ports.used, ports.bound)
    BY <1>3, <1>4, <1>5, AgreeInput, Zenon
  <2> QED
    BY <1>1, <2>1, Zenon
<1>7. /\ cq' \in [Channels -> Seq(CqType)]
      /\ \A c \in Channels : \A resp \in Range(cq'[c]) :
           resp \in Range(cq[c]) \/ RespOK(lib[c], c, resp, listeners')
  <2>1. CASE EmitCompletion(f.ch, f.req, TRUE, f.key)
    <3> DEFINE e == Completion(f.req, TRUE, f.key)
    <3>1. f.req \in Ids /\ f.key \in Keys
      BY <1>2, <1>4, Zenon DEF FlowType, Ids, Passive
    <3>2. /\ cq' \in [Channels -> Seq(CqType)]
          /\ \A x \in Channels \ {f.ch} : cq'[x] = cq[x]
          /\ Range(cq'[f.ch]) \subseteq Range(cq[f.ch]) \cup {e}
      BY <1>2, <1>3, <2>1, <3>1, EmitFacts, Zenon
    <3>3. RespOK(lib[f.ch], f.ch, e, listeners')
      BY <1>2, <1>4, <3>1, Zenon DEF RespOK, FlowOK, Completion
    <3> HIDE DEF e
    <3> QED
      BY <3>2, <3>3, Zenon
  <2>2. CASE cq' = cq
    BY <1>3, <2>2, Zenon DEF EngineTypeOK
  <2> QED
    BY <2>1, <2>2, Zenon DEF FlowInput
<1>8. EngineTypeOK'
  BY <1>1, <1>3, <1>5, <1>7, Zenon DEF EngineTypeOK
<1>9. StageOK' /\ Pend' = Pend
  BY <1>1, Zenon DEF EngineInv, StageOK, Pend
<1>10. FlowOK(lib[f.ch], g)
  BY <1>2, <1>5, Zenon DEF FlowOK
<1> QED
  BY <1>1, <1>2, <1>5, <1>6, <1>7, <1>8, <1>9, <1>10, Held, ServeStep, Zenon

\* A peer opens a flow.
LEMMA PassiveOpenStep ==
  ASSUME EngineInv, NEW proto \in Protos, NEW key \in Keys, PassiveOpen(proto, key)
  PROVE  EngineInv'
<1>1. PICK l \in ListenerAt(proto, key.port) :
        flows' = flows \cup {Flow(proto, key, l.ch, Passive, "UP", TRUE)}
  BY Zenon DEF PassiveOpen
<1> DEFINE g == Flow(proto, key, l.ch, Passive, "UP", TRUE)
<1>2. /\ stage = "run" /\ Mapped(proto, key) = {}
      /\ UNCHANGED <<lib, sq, cq, toEnqueue, toDequeue, stage, todo, channels,
                     pending, listeners, ports, arp>>
  BY Zenon DEF PassiveOpen
<1>3. l \in listeners /\ l.proto = proto /\ l.port = key.port /\ l \in ListenerType
  BY Zenon DEF ListenerAt, EngineInv, EngineTypeOK
<1>4. l.ch \in Channels /\ l = [proto |-> proto, port |-> key.port, ch |-> l.ch]
  BY <1>3, Zenon DEF ListenerType
<1>5. /\ g \in FlowType /\ g.proto = proto /\ g.key = key /\ g.ch = l.ch
      /\ g.req = Passive /\ g.st = "UP"
  BY <1>4, Zenon DEF Flow, FlowType, Passive
<1> HIDE DEF g
<1>6. Agree(flows, listeners, ports.used, ports.bound) /\ EngineTypeOK
  BY Zenon DEF EngineInv
<1>7. \A f \in flows : ~(f.proto = g.proto /\ f.key = g.key)
  BY <1>2, <1>5, Held, Zenon DEF Mapped, FlowType
<1>8. Agree(flows, listeners, ports.used, ports.bound)'
  <2>1. [proto |-> g.proto, port |-> g.key.port, ch |-> g.ch] \in listeners
    BY <1>3, <1>4, <1>5, Zenon
  <2>2. Agree(flows \cup {g}, listeners, ports.used, ports.bound)
    BY <1>5, <1>6, <1>7, <2>1, AgreeAccepts, Zenon
  <2> QED
    BY <1>1, <1>2, <2>2, Zenon DEF g
<1>9. EngineTypeOK'
  BY <1>1, <1>2, <1>5, <1>6, Zenon DEF EngineTypeOK, g
<1>10. StageOK' /\ Pend' = Pend
  BY <1>2, Zenon DEF EngineInv, StageOK, Pend
<1>11. FlowOK(lib[g.ch], g) /\ g.ch \in Range(channels)
  <2>1. lib[l.ch].next \in Ids
    BY <1>4, <1>6, Zenon DEF EngineTypeOK, LibType
  <2> QED
    BY <1>3, <1>5, <2>1, Held DEF FlowOK, Passive, Ids
<1> QED
  BY <1>1, <1>2, <1>8, <1>9, <1>10, <1>11, Held, ServeStep, Zenon DEF g

\* What the two kinds of request do: rings and ports stay right.
ControlOK(c) ==
  /\ cq' \in [Channels -> Seq(CqType)] /\ pending' \in Seq(PendingType)
  /\ listeners' \subseteq ListenerType /\ listeners \subseteq listeners'
  /\ ports' \in [used : SUBSET Ports, bound : SUBSET Ports]
  /\ Agree(flows, listeners', ports'.used, ports'.bound)
  /\ \A p \in Pend' : p \in Pend \/ (p.ch = c /\ p.r.isLocal
                                     /\ RequestOK(lib[c], p.id, p.r))
  /\ \A l \in listeners' : l \in listeners \/ l.ch = c
  /\ \A x \in Channels : \A resp \in Range(cq'[x]) :
       resp \in Range(cq[x]) \/ RespOK(lib[x], x, resp, listeners')

\* A request is answered with a failure: only the completion ring changes.
LEMMA RefusedOK ==
  ASSUME EngineInv, NEW c \in Channels, NEW e \in SqType,
         RequestOK(lib[c], e.id, e.r), EmitCompletion(c, e.id, FALSE, NoKey),
         UNCHANGED <<ports, listeners, pending>>
  PROVE  ControlOK(c)
<1> DEFINE d == Completion(e.id, FALSE, NoKey)
<1>1. EngineTypeOK /\ Agree(flows, listeners, ports.used, ports.bound)
  BY Zenon DEF EngineInv
<1>2. e.id \in Ids
  BY Zenon DEF SqType
<1>3. /\ cq' \in [Channels -> Seq(CqType)]
      /\ \A x \in Channels \ {c} : cq'[x] = cq[x]
      /\ Range(cq'[c]) \subseteq Range(cq[c]) \cup {d}
  BY <1>1, <1>2, EmitFacts, Zenon
<1>4. RespOK(lib[c], c, d, listeners')
  BY Zenon DEF RespOK, RequestOK, Completion
<1> HIDE DEF d
<1>5. \A x \in Channels : \A resp \in Range(cq'[x]) :
        resp \in Range(cq[x]) \/ RespOK(lib[x], x, resp, listeners')
  BY <1>3, <1>4, Zenon
<1> QED
  BY <1>1, <1>3, <1>5, Zenon DEF ControlOK, EngineTypeOK, Pend

\* A listen request takes its port, or fails.
LEMMA ListenControl ==
  ASSUME EngineInv, NEW c \in Channels, NEW e \in SqType, e.r \in Listens,
         RequestOK(lib[c], e.id, e.r), Listen(c, e.id, e.r)
  PROVE  ControlOK(c)
<1> DEFINE r == e.r
           l == [proto |-> r.proto, port |-> r.port, ch |-> c]
           d == Completion(e.id, TRUE, NoKey)
<1>1. CASE EmitCompletion(c, e.id, FALSE, NoKey) /\ UNCHANGED <<ports, listeners, pending>>
  BY <1>1, RefusedOK, Zenon
<1>2. CASE /\ MayListen(r) /\ RegisterListener(r.port)
           /\ listeners' = listeners \cup {l}
           /\ EmitCompletion(c, e.id, TRUE, NoKey) /\ UNCHANGED pending
  <2>1. EngineTypeOK /\ Agree(flows, listeners, ports.used, ports.bound)
    BY Zenon DEF EngineInv
  <2>2. /\ e.id \in Ids /\ l \in ListenerType /\ l.port = r.port /\ l.ch = c
        /\ r.port \in Ports /\ r.port \notin ports.used
    BY <1>2, Zenon DEF SqType, Listens, ListenerType, MayListen, Registers
  <2>3. /\ cq' \in [Channels -> Seq(CqType)]
        /\ \A x \in Channels \ {c} : cq'[x] = cq[x]
        /\ Range(cq'[c]) \subseteq Range(cq[c]) \cup {d}
    BY <1>2, <2>1, <2>2, EmitFacts, Zenon
  <2>4. RespOK(lib[c], c, d, listeners')
    BY <1>2, Zenon DEF RespOK, RequestOK, Completion
  <2> HIDE DEF d, l
  <2>5. \A x \in Channels : \A resp \in Range(cq'[x]) :
          resp \in Range(cq[x]) \/ RespOK(lib[x], x, resp, listeners')
    BY <2>3, <2>4, Zenon
  <2>6. /\ ports'.used = ports.used \cup {l.port} /\ ports'.bound = ports.bound \cup {l.port}
        /\ ports' \in [used : SUBSET Ports, bound : SUBSET Ports]
    BY <1>2, <2>1, <2>2, Zenon DEF RegisterListener, EngineTypeOK
  <2>7. Agree(flows, listeners', ports'.used, ports'.bound)
    <3>1. Agree(flows, listeners \cup {l}, ports.used \cup {l.port}, ports.bound \cup {l.port})
      BY <2>1, <2>2, AgreeListens, Zenon
    <3> QED
      BY <1>2, <2>6, <3>1, Zenon
  <2>8. /\ pending' \in Seq(PendingType) /\ Pend' = Pend
        /\ listeners' \subseteq ListenerType
    BY <1>2, <2>1, <2>2, Zenon DEF EngineTypeOK, Pend
  <2> QED
    BY <1>2, <2>2, <2>3, <2>5, <2>6, <2>7, <2>8, Zenon DEF ControlOK
<1> QED
  BY <1>1, <1>2, Zenon DEF Listen

\* A connect request becomes pending, or fails.
LEMMA ConnectControl ==
  ASSUME EngineInv, NEW c \in Channels, NEW e \in SqType, e.r \in Connects,
         RequestOK(lib[c], e.id, e.r), Connect(c, e.id, e.r)
  PROVE  ControlOK(c)
<1> DEFINE p == [age |-> 0, id |-> e.id, r |-> e.r, ch |-> c]
<1>1. CASE EmitCompletion(c, e.id, FALSE, NoKey) /\ UNCHANGED pending
  BY <1>1, RefusedOK, Zenon DEF Connect
<1>2. CASE e.r.isLocal /\ cq' = cq /\ pending' = Append(pending, p)
  <2>1. /\ EngineTypeOK /\ Agree(flows, listeners, ports.used, ports.bound)
        /\ UNCHANGED <<ports, listeners>> /\ pending \in Seq(PendingType)
    BY Zenon DEF EngineInv, Connect, EngineTypeOK
  <2>2. p \in PendingType /\ p.ch = c /\ p.r = e.r /\ p.id = e.id
    BY Zenon DEF PendingType, SqType
  <2> HIDE DEF p
  <2>3. pending' \in Seq(PendingType) /\ Pend' = Pend \cup {p}
    BY <1>2, <2>1, <2>2, ElementsOf DEF Pend
  <2> QED
    BY <1>2, <2>1, <2>2, <2>3, Zenon DEF ControlOK, EngineTypeOK
<1> QED
  BY <1>1, <1>2, Zenon DEF Connect

\* The next channel of the loop is one that is served.
LEMMA NextChannelFacts ==
  ASSUME EngineInv, stage = "ctrl", todo # {}
  PROVE  NextChannel \in Range(channels) /\ NextChannel \in Channels
<1> DEFINE S == {i \in DOMAIN channels : channels[i] \in todo}
<1>1. channels \in Seq(Channels) /\ todo \subseteq Range(channels)
  BY Zenon DEF EngineInv, EngineTypeOK, StageOK
<1>2. S \in SUBSET Nat /\ S # {}
  BY <1>1 DEF Range
<1>3. Min(S) \in S
  BY <1>2, MinFacts, Zenon
<1>4. NextChannel = channels[Min(S)]
  BY Zenon DEF NextChannel
<1> DEFINE k == Min(S)
<1>5. k \in DOMAIN channels
  BY <1>3, Zenon
<1> HIDE DEF k
<1>6. channels[k] \in Range(channels) /\ channels[k] \in Channels
  BY <1>1, <1>5 DEF Range
<1> QED
  BY <1>4, <1>6, Zenon DEF k

\* A turn of ProcessControlRequests.
LEMMA ControlStep ==
  ASSUME EngineInv, ProcessControlRequest
  PROVE  EngineInv'
<1> DEFINE c == NextChannel
           e == Head(sq[c])
<1>1. /\ stage = "ctrl" /\ todo # {} /\ todo' = todo \ {c}
      /\ UNCHANGED <<lib, toEnqueue, toDequeue, stage, channels, flows, arp>>
  BY Zenon DEF ProcessControlRequest
<1>2. c \in Range(channels) /\ c \in Channels
  BY <1>1, NextChannelFacts, Zenon
<1>3. StageOK'
  BY <1>1, Zenon DEF EngineInv, StageOK
<1>4. EngineTypeOK
  BY Zenon DEF EngineInv
<1>5. CASE UNCHANGED <<sq, cq, pending, listeners, ports>>
  <2>1. arp' \in [table : SUBSET Peers, asked : SUBSET Peers]
    BY <1>1, <1>4, Zenon DEF EngineTypeOK
  <2> QED
    BY <1>1, <1>3, <1>5, <2>1, IdleStep, Zenon
<1>6. CASE /\ sq[c] # <<>> /\ sq' = [sq EXCEPT ![c] = Tail(sq[c])]
           /\ \/ e.r.op = "listen" /\ Listen(c, e.id, e.r)
              \/ e.r.op = "connect" /\ Connect(c, e.id, e.r)
  <2> HIDE DEF c
  <2>1. sq[c] \in Seq(SqType) /\ Len(sq[c]) <= 1
    BY <1>2, <1>4, Held, Zenon DEF EngineTypeOK
  <2>2. e \in Range(sq[c]) /\ e \in SqType /\ Tail(sq[c]) = <<>>
    BY <1>6, <2>1 DEF Range
  <2> HIDE DEF e
  <2>3. RequestOK(lib[c], e.id, e.r) /\ lib[c].st \in AtWork
    BY <1>2, <1>6, <2>2, Zenon DEF EngineInv, IdsOK, IdsFor, WorkOK
  <2>4. /\ e.r \in Listens <=> e.r.op = "listen"
        /\ e.r \in Connects <=> e.r.op = "connect"
    BY <2>2, Zenon DEF SqType, Reqs, Listens, Connects
  <2>5. ControlOK(c)
    BY <1>2, <1>6, <2>2, <2>3, <2>4, ListenControl, ConnectControl, Zenon
  <2>6. /\ sq' \in [Channels -> Seq(SqType)] /\ sq'[c] = <<>>
        /\ \A x \in Channels \ {c} : sq'[x] = sq[x]
    BY <1>2, <1>4, <1>6, <2>2 DEF EngineTypeOK
  <2>7. EngineTypeOK'
    BY <1>1, <1>4, <2>5, <2>6, Zenon DEF EngineTypeOK, ControlOK
  <2>8. Agree(flows, listeners, ports.used, ports.bound)'
    BY <1>1, <2>5, Zenon DEF ControlOK
  <2>9. \A x \in Channels : /\ Len(sq'[x]) <= 1 /\ (sq'[x] # <<>> => sq[x] # <<>>)
                            /\ Range(sq'[x]) \subseteq Range(sq[x])
    <3>1. Len(<<>>) <= 1 /\ Range(<<>>) = {}
      BY DEF Range
    <3> QED
      BY <2>6, <3>1, Held, Zenon
  <2>10. \A p \in Pend' : lib[p.ch].st \in AtWork /\ p.r.isLocal
                          /\ RequestOK(lib[p.ch], p.id, p.r)
    BY <2>3, <2>5, Held, Zenon DEF ControlOK
  <2>11. /\ \A l \in listeners' : l.ch \in Range(channels)
         /\ \A x \in Channels : \A resp \in Range(cq'[x]) :
              resp \in Range(cq[x]) \/ RespOK(lib[x], x, resp, listeners')
         /\ listeners \subseteq listeners'
    BY <1>2, <2>5, Held, Zenon DEF ControlOK
  <2>12. \A f \in flows' : /\ f.ch \in Range(channels) \/ lib[f.ch].st = "cut"
                           /\ FlowOK(lib[f.ch], f)
    BY <1>1, Held, Zenon
  <2> QED
    BY <1>1, <1>3, <2>7, <2>8, <2>9, <2>10, <2>11, <2>12, ServeStep, Zenon
<1> QED
  BY <1>5, <1>6, Zenon DEF ProcessControlRequest

\* The two loops over the pending requests.
LEMMA PendingStep ==
  ASSUME EngineInv, ProcessPending
  PROVE  EngineInv'
<1> DEFINE s0 == [kept |-> <<>>, flows |-> flows, used |-> ports.used,
                  asked |-> arp.asked]
           s == TryAllPending(TryAllPending(s0, "udp"), "tcp")
<1>1. /\ stage = "ctrl" /\ todo = {} /\ stage' = "update"
      /\ pending' = s.kept /\ flows' = s.flows
      /\ ports' = [ports EXCEPT !.used = s.used]
      /\ arp' = [arp EXCEPT !.asked = s.asked]
      /\ UNCHANGED <<lib, sq, cq, toEnqueue, toDequeue, todo, channels, listeners>>
  BY Zenon DEF ProcessPending
<1>2. /\ EngineTypeOK /\ Agree(flows, listeners, ports.used, ports.bound)
      /\ pending \in Seq(PendingType)
  BY Zenon DEF EngineInv, EngineTypeOK
<1>3. Tries(s0)
  <2>1. TryRec(s0, <<>>, flows, ports.used, arp.asked)
    BY Zenon DEF TryRec
  <2>2. <<>> \in Seq(PendingType) /\ Range(<<>>) = {}
    BY DEF Range
  <2>3. TryOK(<<>>, flows, ports.used, arp.asked)
    BY <1>2, <2>2, Zenon DEF TryOK, EngineTypeOK
  <2> QED
    BY <2>1, <2>3, Zenon DEF Tries
<1> HIDE DEF s0
<1>4. Tries(s)
  BY <1>2, <1>3, TryAllFacts, Zenon
<1> HIDE DEF s
<1>5. PICK kept, fs, used, asked : TryRec(s, kept, fs, used, asked)
                                   /\ TryOK(kept, fs, used, asked)
  BY <1>4, Zenon DEF Tries
<1>6. /\ pending' = kept /\ flows' = fs
      /\ ports'.used = used /\ ports'.bound = ports.bound
      /\ ports' \in [used : SUBSET Ports, bound : SUBSET Ports]
      /\ arp' \in [table : SUBSET Peers, asked : SUBSET Peers]
  <2>1. s.kept = kept /\ s.flows = fs /\ s.used = used /\ s.asked = asked
        /\ used \subseteq Ports /\ asked \subseteq Peers
    BY <1>5, Zenon DEF TryRec, TryOK
  <2> QED
    BY <1>1, <1>2, <2>1, Zenon DEF EngineTypeOK
<1>7. EngineTypeOK'
  BY <1>1, <1>2, <1>5, <1>6, Zenon DEF EngineTypeOK, TryOK
<1>8. Agree(flows, listeners, ports.used, ports.bound)'
  BY <1>1, <1>5, <1>6, Zenon DEF TryOK
<1>9. StageOK'
  BY <1>1, Zenon DEF StageOK
<1>10. \A p \in Pend' : lib[p.ch].st \in AtWork /\ p.r.isLocal
                        /\ RequestOK(lib[p.ch], p.id, p.r)
  BY <1>5, <1>6, Held, Zenon DEF TryOK, Pend
<1>11. ASSUME NEW f \in flows'
       PROVE  /\ f.ch \in Range(channels) \/ lib[f.ch].st = "cut"
              /\ FlowOK(lib[f.ch], f)
  <2>1. CASE f \in flows
    BY <2>1, Held, Zenon
  <2>2. CASE f \notin flows
    <3>1. PICK p \in Pend : OpenedFor(f, p)
      BY <1>5, <1>6, <1>11, <2>2, Zenon DEF TryOK
    <3>2. /\ p \in PendingType /\ p.ch \in Channels /\ lib[p.ch].st \in AtWork
          /\ p.r.isLocal /\ RequestOK(lib[p.ch], p.id, p.r)
      BY Held, Zenon
    <3>3. f.ch = p.ch /\ f.req = p.id /\ f.key.peer = p.r.peer /\ p.r \in Connects
      BY <3>1, <3>2, Zenon DEF OpenedFor, PendingType
    <3>4. FlowOK(lib[f.ch], f)
      BY <3>2, <3>3, Zenon DEF FlowOK, RequestOK, Asks
    <3>5. LifeOK(p.ch)
      BY <3>2, Zenon DEF EngineInv
    <3> QED
      BY <3>2, <3>3, <3>4, <3>5, Zenon DEF LifeOK, AtWork
  <2> QED
    BY <2>1, <2>2, Zenon
<1> QED
  BY <1>1, <1>7, <1>8, <1>9, <1>10, <1>11, Held, ServeStep, Zenon

\* The channels of the two lists.
LEMMA MoveFacts ==
  ASSUME EngineInv
  PROVE  LET s == [channels |-> channels \o toEnqueue, flows |-> flows,
                   listeners |-> listeners, ports |-> ports]
         IN  /\ DropOK(s) /\ s.flows = flows /\ s.listeners = listeners
             /\ Range(s.channels) = Range(channels) \cup Range(toEnqueue)
<1> DEFINE cs == channels \o toEnqueue
           s == [channels |-> cs, flows |-> flows, listeners |-> listeners,
                 ports |-> ports]
<1>1. /\ channels \in Seq(Channels) /\ toEnqueue \in Seq(Channels)
      /\ Distinct(channels) /\ Distinct(toEnqueue)
      /\ flows \subseteq FlowType /\ listeners \subseteq ListenerType
      /\ ports \in [used : SUBSET Ports, bound : SUBSET Ports]
      /\ Agree(flows, listeners, ports.used, ports.bound)
  BY Zenon DEF EngineInv, EngineTypeOK
<1>2. cs \in Seq(Channels) /\ Range(cs) = Range(channels) \cup Range(toEnqueue)
  <2>1. cs \in Seq(Channels)
    BY <1>1
  <2>2. ASSUME NEW c \in Channels
        PROVE  Range(cs) = Range(channels) \cup Range(toEnqueue)
    BY <1>1, ElementsOf
  <2>3. CASE Channels = {}
    <3>1. channels = <<>> /\ toEnqueue = <<>>
      BY <1>1, <2>3
    <3> QED
      BY <2>1, <3>1 DEF Range
  <2> QED
    BY <2>1, <2>2, <2>3, Zenon
<1>3. ASSUME NEW i \in 1..Len(channels), NEW j \in 1..Len(toEnqueue)
      PROVE  channels[i] # toEnqueue[j]
  <2> DEFINE c == toEnqueue[j]
  <2>1. c \in Range(toEnqueue) /\ c \in Channels /\ channels[i] \in Range(channels)
    BY <1>1 DEF Range
  <2>2. LifeOK(c)
    BY <2>1, Zenon DEF EngineInv
  <2> QED
    BY <2>1, <2>2, Zenon DEF LifeOK
<1>4. Distinct(cs)
  <2>1. /\ Len(cs) = Len(channels) + Len(toEnqueue)
        /\ Len(channels) \in Nat /\ Len(toEnqueue) \in Nat
        /\ \A i \in 1..Len(channels) : cs[i] = channels[i]
        /\ \A i \in 1..Len(cs) : i > Len(channels) =>
             i - Len(channels) \in 1..Len(toEnqueue)
             /\ cs[i] = toEnqueue[i - Len(channels)]
    BY <1>1
  <2> SUFFICES ASSUME NEW i \in 1..Len(cs), NEW j \in 1..Len(cs), cs[i] = cs[j]
               PROVE  i = j
    BY Zenon DEF Distinct
  <2> HIDE DEF cs
  <2>2. CASE i <= Len(channels) /\ j <= Len(channels)
    BY <1>1, <2>1, <2>2 DEF Distinct
  <2>3. CASE i <= Len(channels) /\ j > Len(channels)
    BY <1>3, <2>1, <2>3
  <2>4. CASE i > Len(channels) /\ j <= Len(channels)
    BY <1>3, <2>1, <2>4
  <2>5. CASE i > Len(channels) /\ j > Len(channels)
    BY <1>1, <2>1, <2>5 DEF Distinct
  <2> QED
    BY <2>1, <2>2, <2>3, <2>4, <2>5
<1> HIDE DEF cs
<1>5. ports = [used |-> ports.used, bound |-> ports.bound]
  BY <1>1, Zenon
<1>6. DropOK(s)
  BY <1>1, <1>2, <1>4, <1>5, Zenon DEF DropOK
<1> QED
  BY <1>2, <1>6, Zenon DEF cs

\* Channels join and leave the engine.
LEMMA ChannelsUpdateStep ==
  ASSUME EngineInv, ChannelsUpdate
  PROVE  EngineInv'
<1> DEFINE s == [channels |-> channels \o toEnqueue, flows |-> flows,
                 listeners |-> listeners, ports |-> ports]
           d == DropChannels(s, toDequeue)
           had == Range(channels) \cup Range(toEnqueue)
           gone == Range(toDequeue)
           m(c) == IF c \in Range(toEnqueue) THEN [lib[c] EXCEPT !.st = "idle"]
                   ELSE lib[c]
<1>1. /\ stage = "update" /\ stage' = "run" /\ toEnqueue' = <<>> /\ toDequeue' = <<>>
      /\ channels' = d.channels /\ flows' = d.flows /\ listeners' = d.listeners
      /\ ports' = d.ports /\ lib' = [c \in Channels |-> m(c)]
      /\ UNCHANGED <<sq, cq, todo, pending, arp>>
  BY Zenon DEF ChannelsUpdate
<1>2. EngineTypeOK /\ toDequeue \in Seq(Channels) /\ StageOK /\ WorkOK
  BY Zenon DEF EngineInv, EngineTypeOK
<1>3. /\ DropOK(s) /\ s.flows = flows /\ s.listeners = listeners
      /\ Range(s.channels) = had
  BY MoveFacts, Zenon
<1> HIDE DEF s, had, gone
<1>4. Drops(s, d, gone)
  BY <1>2, <1>3, DropChannelsFacts, Zenon DEF gone
<1> HIDE DEF d
<1>5. /\ DropOK(d) /\ Range(channels') = had \ gone
      /\ flows' = Left(flows, had, gone) /\ listeners' = Left(listeners, had, gone)
  BY <1>1, <1>3, <1>4, Zenon DEF Drops
<1>6. /\ channels' \in Seq(Channels) /\ Distinct(channels')
      /\ flows' \subseteq FlowType /\ listeners' \subseteq ListenerType
      /\ Agree(flows, listeners, ports.used, ports.bound)'
  BY <1>1, <1>5, Zenon DEF DropOK
<1>7. ports' \in [used : SUBSET Ports, bound : SUBSET Ports]
  <2>1. ports'.used = PortsOf(listeners') \cup KeyPorts(Opened(flows'))
        /\ ports'.bound = PortsOf(listeners')
    BY <1>6, Zenon DEF Agree
  <2>2. PortsOf(listeners') \subseteq Ports
    BY <1>6, Zenon DEF PortsOf, ListenerType
  <2>3. KeyPorts(Opened(flows')) \subseteq Ports
    BY <1>6, Zenon DEF KeyPorts, Opened, FlowType, Keys
  <2>4. ports' = [used |-> ports'.used, bound |-> ports'.bound]
    BY <1>1, <1>5, Zenon DEF DropOK
  <2> QED
    BY <2>1, <2>2, <2>3, <2>4, Zenon
<1>8. ASSUME NEW c \in Channels
      PROVE  /\ lib'[c] = m(c) /\ m(c) \in LibType
             /\ m(c).st = IF c \in Range(toEnqueue) THEN "idle" ELSE lib[c].st
             /\ m(c).next = lib[c].next /\ m(c).call = lib[c].call
             /\ m(c).conns = lib[c].conns /\ m(c).lstns = lib[c].lstns
  <2>1. lib[c] \in LibType
    BY <1>2, RingTypes, Zenon
  <2> QED
    BY <1>1, <2>1, Zenon DEF LibType
<1> HIDE DEF m
<1>9. EngineTypeOK'
  <2>1. <<>> \in Seq(Channels) /\ Distinct(<<>>)
    BY DEF Distinct
  <2>2. lib' \in [Channels -> LibType]
    BY <1>1, <1>8, Zenon
  <2> QED
    BY <1>1, <1>2, <1>6, <1>7, <2>1, <2>2, Zenon DEF EngineTypeOK
<1>10. StageOK'
  BY <1>1, <1>2, Zenon DEF StageOK
<1>11. Range(toEnqueue') = {} /\ Range(toDequeue') = {} /\ Pend' = Pend
  BY <1>1 DEF Range, Pend
<1>12. ASSUME NEW c \in Channels
       PROVE  LifeOK(c)
  BY Zenon DEF EngineInv
<1>13. ASSUME NEW c \in Channels
       PROVE  LifeOK(c)'
  BY <1>5, <1>8, <1>11, <1>12 DEF LifeOK, had, gone
<1>14. WorkOK'
  <2>1. ASSUME NEW c \in Channels, lib[c].st \in AtWork
        PROVE  lib'[c].st \in AtWork
    BY <1>8, <2>1, Zenon DEF AtWork
  <2>2. ASSUME NEW f \in flows'
        PROVE  f.ch \in Range(channels') \/ lib'[f.ch].st = "cut"
    <3>1. f \in flows /\ ~(f.ch \in gone \cap had)
      BY <1>5, Zenon DEF Left
    <3>2. f.ch \in Channels /\ (f.ch \in Range(channels) \/ lib[f.ch].st = "cut")
      BY <3>1, Held, Zenon
    <3>3. CASE f.ch \in Range(channels)
      BY <1>5, <3>1, <3>3, Zenon DEF had
    <3>4. CASE lib[f.ch].st = "cut"
      BY <1>8, <1>12, <3>2, <3>4 DEF LifeOK
    <3> QED
      BY <3>2, <3>3, <3>4, Zenon
  <2>3. \A l \in listeners' : l.ch \in Range(channels')
    BY <1>2, <1>5, Zenon DEF WorkOK, Left, had
  <2>4. \A p \in Pend : p.ch \in Channels
    BY Held, Zenon
  <2> QED
    BY <1>1, <1>2, <1>11, <2>1, <2>2, <2>3, <2>4, Zenon DEF WorkOK
<1>15. ASSUME NEW c \in Channels, c \notin gone, NEW l \in listeners, l.ch = c
       PROVE  l \in listeners'
  BY <1>5, <1>15, Zenon DEF Left
<1>16. ASSUME NEW c \in Channels
       PROVE  IdsOK(c)'
  <2>1. IdsFor(lib[c], c, Range(sq[c]), Range(cq[c]), Pend, flows, listeners)
    BY Zenon DEF EngineInv, IdsOK
  <2>2. lib'[c].next = lib[c].next
        /\ (lib'[c].st = "wait" => lib[c].st = "wait" /\ lib'[c].call = lib[c].call)
    BY <1>8, Zenon
  <2>3. IdsFor(lib'[c], c, Range(sq[c]), Range(cq[c]), Pend, flows, listeners)
    BY <2>1, <2>2, CalmIds, Zenon
  <2>4. \A resp : RespOK(lib'[c], c, resp, listeners) => RespOK(lib'[c], c, resp, listeners')
    <3>1. lib'[c].st = "wait" => c \notin gone
      BY <1>12, <2>2, Zenon DEF LifeOK, gone
    <3> DEFINE l == [proto |-> lib'[c].call.proto, port |-> lib'[c].call.port, ch |-> c]
    <3>2. lib'[c].st = "wait" /\ l \in listeners => l \in listeners'
      BY <1>15, <3>1, Zenon
    <3> QED
      BY <3>2, Zenon DEF RespOK, Current
  <2>5. flows' \subseteq flows
    BY <1>5, Zenon DEF Left
  <2>6. IdsFor(lib'[c], c, Range(sq[c]), Range(cq[c]), Pend, flows', listeners')
    BY <2>3, <2>4, <2>5, Zenon DEF IdsFor
  <2> QED
    BY <1>1, <1>11, <2>6, Zenon DEF IdsOK
<1>17. ASSUME NEW c \in Channels
       PROVE  ReportsOK(c)'
  <2>1. ReportsOK(c)
    BY Zenon DEF EngineInv
  <2>2. lib'[c].conns = lib[c].conns /\ lib'[c].lstns = lib[c].lstns
    BY <1>8, Zenon
  <2>3. ASSUME c \in Range(channels'), NEW r \in lib[c].lstns
        PROVE  r \in Listens /\ [proto |-> r.proto, port |-> r.port, ch |-> c]
                                  \in listeners'
    <3> DEFINE l == [proto |-> r.proto, port |-> r.port, ch |-> c]
    <3>1. c \in had /\ c \notin gone
      BY <1>5, <2>3, Zenon
    <3>2. c \in Range(channels)
      BY <1>12, <3>1, Zenon DEF LifeOK, had
    <3>3. r \in Listens /\ l \in listeners /\ l.ch = c
      BY <2>1, <3>2, Zenon DEF ReportsOK
    <3> QED
      BY <1>15, <3>1, <3>3, Zenon
  <2> QED
    BY <2>1, <2>2, <2>3, Zenon DEF ReportsOK
<1> QED
  BY <1>6, <1>9, <1>10, <1>13, <1>14, <1>16, <1>17, Zenon DEF EngineInv

-----------------------------------------------------------------------------
(* The theorems.                                                           *)

\* An engine starts with no channel, no flow, no listener and no port in use.
LEMMA InitEngine == Init => EngineInv
<1> SUFFICES ASSUME Init PROVE EngineInv
  BY Zenon
<1> DEFINE l == [st |-> "out", call |-> NoCall, tries |-> 0, next |-> 1,
                 conns |-> {}, lstns |-> {}]
<1>1. l \in LibType
  BY DEF LibType, Ids
<1>2. /\ l.st = "out" /\ l.call = NoCall /\ l.next = 1 /\ l.conns = {} /\ l.lstns = {}
  BY Zenon
<1>3. lib = [c \in Channels |-> l]
  BY Zenon DEF Init
<1> HIDE DEF l
<1>4. Range(<<>>) = {} /\ Distinct(<<>>) /\ <<>> \in Seq(Channels)
      /\ <<>> \in Seq(PendingType) /\ Len(<<>>) <= 1
  BY DEF Range, Distinct
<1>5. EngineTypeOK
  <2>1. lib \in [Channels -> LibType]
    BY <1>1, <1>3, Zenon
  <2>2. sq \in [Channels -> Seq(SqType)] /\ cq \in [Channels -> Seq(CqType)]
    BY DEF Init
  <2>3. /\ channels \in Seq(Channels)
        /\ toEnqueue \in Seq(Channels) /\ toDequeue \in Seq(Channels)
        /\ Distinct(channels) /\ Distinct(toEnqueue)
        /\ pending \in Seq(PendingType)
    BY <1>4, Zenon DEF Init
  <2>4. flows \subseteq FlowType /\ listeners \subseteq ListenerType
    BY Zenon DEF Init
  <2>5. ports \in [used : SUBSET Ports, bound : SUBSET Ports]
    BY Zenon DEF Init
  <2>6. arp \in [table : SUBSET Peers, asked : SUBSET Peers]
    BY Zenon DEF Init
  <2> QED
    BY <2>1, <2>2, <2>3, <2>4, <2>5, <2>6, Zenon DEF EngineTypeOK
<1>6. Agree(flows, listeners, ports.used, ports.bound)
  BY Zenon DEF Init, Agree, PortsOf, KeyPorts, Opened
<1>7. StageOK
  BY Zenon DEF Init, StageOK
<1>8. Pend = {}
  BY <1>4, Zenon DEF Init, Pend
<1>9. WorkOK
  BY <1>4, <1>8, Zenon DEF Init, WorkOK
<1>10. ASSUME NEW c \in Channels
       PROVE  LifeOK(c) /\ IdsOK(c) /\ ReportsOK(c)
  <2>1. lib[c] = l /\ sq[c] = <<>> /\ cq[c] = <<>>
    BY <1>3, Zenon DEF Init
  <2>2. LifeOK(c)
    BY <1>2, <1>4, <2>1, Zenon DEF LifeOK, Init
  <2>3. IdsOK(c)
    BY <1>4, <1>8, <2>1, Zenon DEF IdsOK, IdsFor, Init
  <2>4. ReportsOK(c)
    BY <1>2, <2>1, Zenon DEF ReportsOK
  <2> QED
    BY <2>2, <2>3, <2>4, Zenon
<1> QED
  BY <1>5, <1>6, <1>7, <1>9, <1>10, Zenon DEF EngineInv

\* Each step of the engine, an application or the controller keeps EngineInv.
LEMMA NextEngine ==
  ASSUME PassiveFlowsDie = FALSE, EngineInv, [Next]_vars
  PROVE  EngineInv'
<1>1. CASE UNCHANGED vars
  <2>1. Pend' = Pend
    BY <1>1, Zenon DEF vars, engineVars, Pend
  <2>2. arp' \in [table : SUBSET Peers, asked : SUBSET Peers] /\ StageOK'
    BY <1>1, Zenon DEF EngineInv, EngineTypeOK, StageOK, vars, engineVars
  <2> QED
    BY <1>1, <2>2, IdleStep, Zenon DEF vars, engineVars
<1>2. ASSUME NEW c \in Channels, AddChannel(c) \/ RemoveChannel(c) \/ Poll(c)
      PROVE  EngineInv'
  BY <1>2, AddChannelStep, RemoveChannelStep, PollStep, Zenon
<1>3. ASSUME NEW c \in Channels, machnet_connect(c) \/ machnet_listen(c)
      PROVE  EngineInv'
  <2>1. PICK r \in Reqs : Submit(c, r)
    BY <1>3, Zenon DEF machnet_connect, machnet_listen, Reqs
  <2> QED
    BY <2>1, SubmitStep, Zenon
<1>4. CASE EngineStep
  BY <1>4, TickStep, HandleRTOStep, StartRequestsStep, ControlStep, PendingStep,
     ChannelsUpdateStep, Zenon DEF EngineStep
<1>5. ASSUME NEW f \in flows, NEW st \in {"UP", "CLOSED"}, FlowInput(f, st)
      PROVE  EngineInv'
  BY <1>5, FlowInputStep, Zenon
<1>6. ASSUME NEW p \in Protos, NEW k \in Keys, PassiveOpen(p, k)
      PROVE  EngineInv'
  BY <1>6, PassiveOpenStep, Zenon
<1>7. ASSUME NEW r \in Peers, ArpReply(r)
      PROVE  EngineInv'
  BY <1>7, ArpReplyStep, Zenon
<1> QED
  BY <1>1, <1>2, <1>3, <1>4, <1>5, <1>6, <1>7, Zenon DEF Next

\* The invariant of the engine, for any channels, ports, requests and numbers of
\* calls and tries.
THEOREM EngineInvariance ==
  ASSUME PassiveFlowsDie = FALSE
  PROVE  Spec => []EngineInv
<1>1. EngineInv /\ [Next]_vars => EngineInv'
  BY NextEngine, Zenon
<1> QED
  BY <1>1, InitEngine, PTL DEF Spec

\* The bitmap of ports is exact: the ports in use are those of the listeners and
\* of the flows that this host opened, each with one owner (SrcPortAlloc,
\* SrcPortRelease, HandleRTO, ChannelsUpdate).
THEOREM PortsStayExact ==
  ASSUME PassiveFlowsDie = FALSE
  PROVE  Spec => []PortsExact
<1>1. EngineInv => PortsExact
  BY Zenon DEF EngineInv, Agree, PortsExact, Active, Opened, PortsOf, KeyPorts
<1> QED
  BY <1>1, EngineInvariance, PTL

\* Flows in the maps belong to channels that the engine serves: ChannelsUpdate
\* leaves no iterator into the flows of a channel it has dropped, except those
\* of connects that outlive their channel.
THEOREM MappedFlowsServed ==
  ASSUME PassiveFlowsDie = FALSE
  PROVE  Spec => []FlowsServed
<1>1. EngineInv => FlowsServed
  BY Zenon DEF EngineInv, WorkOK, FlowsServed
<1> QED
  BY <1>1, EngineInvariance, PTL

\* process_msg finds every flow of the maps under its key, and no other flow,
\* although the maps of the two transports share the keys.
THEOREM RoutesStayUnique ==
  ASSUME PassiveFlowsDie = FALSE
  PROVE  Spec => []RouteUnique
<1>1. EngineInv => RouteUnique
  <2> SUFFICES ASSUME EngineInv, NEW f \in flows, f.mapped
               PROVE  Route(f.key) = {f}
    BY Zenon DEF RouteUnique
  <2>1. \A g \in flows : g.key = f.key => g = f
    BY Zenon DEF EngineInv, Agree
  <2>2. f.proto \in {"udp", "tcp"}
    BY Held, Zenon DEF FlowType, Protos
  <2>3. \A p : Mapped(p, f.key) = IF p = f.proto THEN {f} ELSE {}
    BY <2>1, Zenon DEF Mapped
  <2> QED
    BY <2>2, <2>3, Zenon DEF Route
<1> QED
  BY <1>1, EngineInvariance, PTL

\* A listen that returned 0 has its listener, and a connect that returned 0
\* names a flow to the peer it asked for, however late completions arrive.
THEOREM ReportsStayTrue ==
  ASSUME PassiveFlowsDie = FALSE
  PROVE  Spec => []SuccessIsReal
<1>1. EngineInv => SuccessIsReal
  BY Zenon DEF EngineInv, ReportsOK, SuccessIsReal
<1> QED
  BY <1>1, EngineInvariance, PTL

=============================================================================
