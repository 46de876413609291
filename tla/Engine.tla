------------------------------- MODULE Engine -------------------------------
(***************************************************************************)
(* The control plane of one Machnet engine (src/include/machnet_engine.h)  *)
(* with what it shares: the ports and the ARP table of the interface       *)
(* (MachnetEngineSharedState, src/include/arp.h), the channels with their  *)
(* flows and listeners (src/include/channel.h) and, on the other side of   *)
(* the control rings, machnet_connect and machnet_listen                   *)
(* (src/ext/machnet.c). The engine is one thread: a slow-timer tick runs   *)
(* HandleRTO, ProcessControlRequests and ChannelsUpdate in this order, and *)
(* packets are taken between ticks. Applications and the controller run    *)
(* beside it. A flow is reduced to what the engine sees of it: its key,    *)
(* its channel, the request it was made for and three states.              *)
(***************************************************************************)
EXTENDS Integers, Sequences, FiniteSets, FiniteSetsExt, Functions

CONSTANTS
  Channels,        \* channels that applications create
  Ports,           \* the ports of the local address, a set of numbers
  kSrcPortMin,     \* ports below it are never given to a flow
  Steered,         \* ports whose replies the NIC steers to this engine
  Peers,           \* remote endpoints
  Requests,        \* Requests[c]: what the application of channel c asks for
  kPendingRequestTimeoutSlowTicks, \* 3
  max_tries,       \* 10: how often a call looks again for its completion
  MaxCalls,        \* bound: MaxCalls[c] calls are made on channel c
  PassiveFlowsDie  \* whether flows opened by a peer may fail or be reset

ASSUME EngineAssumption ==
  /\ Ports \subseteq Nat /\ kSrcPortMin \in Nat
  /\ Steered \subseteq Ports /\ IsFiniteSet(Ports)
  /\ {kPendingRequestTimeoutSlowTicks, max_tries} \subseteq Nat
  /\ MaxCalls \in [Channels -> Nat]
  /\ PassiveFlowsDie \in BOOLEAN

VARIABLES
  lib,       \* lib[c]: the application of channel c, in or out of a call
  sq, cq,    \* sq[c], cq[c]: the control rings of channel c
  stage,     \* what the engine's thread is doing
  todo,      \* flows or channels this stage has still to visit
  channels,  \* channels_, the channels the engine serves
  toEnqueue, toDequeue, \* channels_to_enqueue_ and channels_to_dequeue_
  pending,   \* pending_requests_ and pending_tcp_requests_
  flows,     \* the flow objects; "mapped" when the engine's map has them
  listeners, \* listeners_ and tcp_listeners_
  ports,     \* used: ports whose bit ipv4_port_bitmap_ has cleared; bound:
             \* the ports in listeners_to_rxq
  arp        \* the ARP table, and the peers asked for their address

engineVars == <<stage, todo, channels, pending, flows, listeners, ports, arp>>
vars == <<lib, sq, cq, toEnqueue, toDequeue, engineVars>>

-----------------------------------------------------------------------------
(* Requests, completions and flows.                                        *)

MACHNET_CHANNEL_CTRL_SQ_SLOT_NR == 2

\* A jring of n slots holds n - 1 entries, so a control ring holds one.
CtrlRingCapacity == MACHNET_CHANNEL_CTRL_SQ_SLOT_NR - 1

Protos == {"udp", "tcp"}
Connects == [op : {"connect"}, proto : Protos, peer : Peers, isLocal : BOOLEAN]
Listens  == [op : {"listen"}, proto : Protos, port : Ports, isLocal : BOOLEAN]

ASSUME RequestsAssumption ==
  Requests \in [Channels -> SUBSET (Connects \cup Listens)]

Keys == [port : Ports, peer : Peers]
NoKey == [port |-> 0, peer |-> "none"]
NoCall == <<>>

\* jring_enqueue_bulk of one entry: a full ring refuses it.
Enqueue(ring, e) == IF Len(ring) < CtrlRingCapacity THEN Append(ring, e)
                    ELSE ring

Completion(id, success, key) == [id |-> id, ok |-> success, key |-> key]

\* The result of EnqueueCtrlCompletions is not looked at.
EmitCompletion(c, id, success, key) ==
  cq' = [cq EXCEPT ![c] = Enqueue(@, Completion(id, success, key))]

\* A flow made by a peer has no request: its callback is empty.
Passive == 0
Flow(proto, key, c, id, st, mapped) ==
  [proto |-> proto, key |-> key, ch |-> c, req |-> id, st |-> st,
   mapped |-> mapped]

\* active_flows_map_ and active_tcp_flows_map_.
Mapped(proto, key) == {f \in flows : f.mapped /\ f.proto = proto /\ f.key = key}

ListenerAt(proto, port) ==
  {l \in listeners : l.proto = proto /\ l.port = port}

Init ==
  /\ lib = [c \in Channels |-> [st |-> "out", call |-> NoCall, tries |-> 0,
                                next |-> 1, conns |-> {}, lstns |-> {}]]
  /\ sq = [c \in Channels |-> <<>>] /\ cq = [c \in Channels |-> <<>>]
  /\ stage = "run" /\ todo = {}
  /\ channels = <<>> /\ toEnqueue = <<>> /\ toDequeue = <<>>
  /\ pending = <<>> /\ flows = {} /\ listeners = {}
  /\ ports = [used |-> {}, bound |-> {}]
  /\ arp = [table |-> {}, asked |-> {}]

-----------------------------------------------------------------------------
(* The controller's calls, and the application's.                          *)

\* A new channel is handed to the engine.
AddChannel(c) ==
  /\ lib[c].st = "out"
  /\ lib' = [lib EXCEPT ![c].st = "added"]
  /\ toEnqueue' = Append(toEnqueue, c)
  /\ UNCHANGED <<sq, cq, toDequeue, engineVars>>

\* The engine has still to act on a request of the channel.
UnderWay(c) == sq[c] # <<>> \/ \E i \in DOMAIN pending : pending[i].ch = c

\* The application has gone, possibly in the middle of a call: "cut" when a
\* request of it is under way, which nothing takes back.
RemoveChannel(c) ==
  /\ lib[c].st \in {"idle", "wait"}
  /\ lib' = [lib EXCEPT ![c].st = IF UnderWay(c) THEN "cut" ELSE "gone",
                        ![c].call = NoCall, ![c].tries = 0]
  /\ toDequeue' = Append(toDequeue, c)
  /\ UNCHANGED <<sq, cq, toEnqueue, engineVars>>

\* A request is put on the submission ring: its identifier is used up whether
\* or not the ring takes it.
Submit(c, r) ==
  /\ lib[c].st = "idle" /\ lib[c].next <= MaxCalls[c]
  /\ IF Len(sq[c]) < CtrlRingCapacity
     THEN /\ sq' = [sq EXCEPT ![c] = Append(@, [id |-> lib[c].next, r |-> r])]
          /\ lib' = [lib EXCEPT ![c].st = "wait", ![c].call = r,
                                ![c].tries = max_tries, ![c].next = @ + 1]
     ELSE /\ lib' = [lib EXCEPT ![c].next = @ + 1]
          /\ UNCHANGED sq
  /\ UNCHANGED <<cq, toEnqueue, toDequeue, engineVars>>

\* The two calls of the library, up to the loop that waits.
machnet_connect(c) == \E r \in Requests[c] \cap Connects : Submit(c, r)

machnet_listen(c) == \E r \in Requests[c] \cap Listens : Submit(c, r)

\* What a call makes of the completion it takes from the ring: the id of the
\* call is the last one given out. (Mutation: the id is not compared.)
Accepts_any(c, resp) == resp.ok
Accepts(c, resp) == resp.id = lib[c].next - 1 /\ resp.ok

\* What the two calls make of it: the flow that the completion names, and the
\* listener that was asked for.
ConnectReturns(c, l, resp) ==
  IF Accepts(c, resp)
  THEN [l EXCEPT !.conns = @ \cup {[asked |-> lib[c].call, flow |-> resp.key]}]
  ELSE l

ListenReturns(c, l, resp) ==
  IF Accepts(c, resp) THEN [l EXCEPT !.lstns = @ \cup {lib[c].call}] ELSE l

\* One turn of the loop that waits for the completion, with what follows it.
Poll(c) ==
  /\ lib[c].st = "wait"
  /\ IF cq[c] # <<>>
     THEN /\ cq' = [cq EXCEPT ![c] = Tail(@)]
          /\ LET l == [lib[c] EXCEPT !.st = "idle", !.call = NoCall,
                                     !.tries = 0]
             IN lib' = [lib EXCEPT ![c] =
                  IF lib[c].call.op = "connect"
                  THEN ConnectReturns(c, l, Head(cq[c]))
                  ELSE ListenReturns(c, l, Head(cq[c]))]
     ELSE /\ lib' = [lib EXCEPT ![c] =
               IF lib[c].tries > 0 THEN [lib[c] EXCEPT !.tries = @ - 1]
               ELSE [lib[c] EXCEPT !.st = "idle", !.call = NoCall]]
          /\ UNCHANGED cq
  /\ UNCHANGED <<sq, toEnqueue, toDequeue, engineVars>>

-----------------------------------------------------------------------------
(* The slow timer.                                                         *)

\* PeriodicProcess begins: the age of a pending request is the difference of
\* periodic_ticks_ and its timestamp.
Tick ==
  /\ stage = "run"
  /\ stage' = "rto" /\ todo' = {f \in flows : f.mapped}
  /\ pending' = [i \in DOMAIN pending |-> [pending[i] EXCEPT !.age = @ + 1]]
  /\ UNCHANGED <<lib, sq, cq, toEnqueue, toDequeue, channels, flows, listeners,
                 ports, arp>>

\* SrcPortReleaseLocked sets the bit of a port, whoever had cleared it.
SrcPortRelease(p, released) == [p EXCEPT !.used = @ \ released]

\* PeriodicCheck says that the flow is at its end. A TCP flow reports it in
\* every state but CLOSED, a UDP flow while its handshake is under way.
Reports(f) == f.req # Passive /\ (f.st = "SYN_SENT" \/
                                  (f.proto = "tcp" /\ f.st # "CLOSED"))

\* HandleRTO removes a flow. (Mutation: its port is kept.)
RemoveFlow_keepport(f) ==
  /\ IF Reports(f) THEN EmitCompletion(f.ch, f.req, FALSE, f.key)
     ELSE UNCHANGED cq
  /\ flows' = flows \ {f}
  /\ UNCHANGED ports

RemoveFlow(f) ==
  /\ IF Reports(f) THEN EmitCompletion(f.ch, f.req, FALSE, f.key)
     ELSE UNCHANGED cq
  /\ ports' = SrcPortRelease(ports, {f.key.port})
  /\ flows' = flows \ {f}

\* One turn of the loops of HandleRTO. A flow that is CLOSED ends; another
\* one ends when its retransmissions are used up.
HandleRTO(f) ==
  /\ stage = "rto" /\ f \in todo
  /\ todo' = todo \ {f}
  /\ \/ /\ f.st = "CLOSED" \/ f.req # Passive \/ PassiveFlowsDie
        /\ RemoveFlow(f)
     \/ f.st # "CLOSED" /\ UNCHANGED <<cq, ports, flows>>
  /\ UNCHANGED <<lib, sq, toEnqueue, toDequeue, stage, channels, pending,
                 listeners, arp>>

\* ProcessControlRequests visits the channels in their order.
StartRequests ==
  /\ stage = "rto" /\ todo = {}
  /\ stage' = "ctrl" /\ todo' = Range(channels)
  /\ UNCHANGED <<lib, sq, cq, toEnqueue, toDequeue, channels, pending, flows,
                 listeners, ports, arp>>

NextChannel == channels[Min({i \in DOMAIN channels : channels[i] \in todo})]

\* RegisterListener.
Registers(port) == port \notin ports.used
RegisterListener(port) ==
  ports' = [used |-> ports.used \cup {port}, bound |-> ports.bound \cup {port}]

\* A listen request succeeds for a local address and a port that neither a
\* listener of this engine nor anything else on the interface uses.
\* (Mutation: the port is not looked up on the interface.)
MayListen_mapsonly(r) == r.isLocal /\ ListenerAt(r.proto, r.port) = {}
MayListen(r) ==
  r.isLocal /\ ListenerAt(r.proto, r.port) = {} /\ Registers(r.port)

Listen(c, id, r) ==
  \/ /\ MayListen(r)
     /\ RegisterListener(r.port)
     /\ listeners' = listeners \cup {[proto |-> r.proto, port |-> r.port,
                                      ch |-> c]}
     /\ EmitCompletion(c, id, TRUE, NoKey)
     /\ UNCHANGED pending
  \/ /\ ~MayListen(r)
     /\ EmitCompletion(c, id, FALSE, NoKey)
     /\ UNCHANGED <<ports, listeners, pending>>

\* A connect request waits in the pending list from now on.
Connect(c, id, r) ==
  /\ \/ r.isLocal /\ UNCHANGED cq
        /\ pending' = Append(pending, [age |-> 0, id |-> id, r |-> r, ch |-> c])
     \/ ~r.isLocal /\ EmitCompletion(c, id, FALSE, NoKey) /\ UNCHANGED pending
  /\ UNCHANGED <<ports, listeners>>

\* The next channel of the loop; its ring holds at most one request.
ProcessControlRequest ==
  /\ stage = "ctrl" /\ todo # {}
  /\ LET c == NextChannel IN
     /\ todo' = todo \ {c}
     /\ \/ /\ sq[c] = <<>>
           /\ UNCHANGED <<sq, cq, pending, listeners, ports>>
        \/ /\ sq[c] # <<>>
           /\ sq' = [sq EXCEPT ![c] = Tail(@)]
           /\ LET e == Head(sq[c])
              IN \/ e.r.op = "listen" /\ Listen(c, e.id, e.r)
                 \/ e.r.op = "connect" /\ Connect(c, e.id, e.r)
  /\ UNCHANGED <<lib, toEnqueue, toDequeue, stage, channels, flows, arp>>

\* SrcPortAlloc: the lowest free port that RSS steers here.
FreePorts(used) == {p \in Steered : p >= kSrcPortMin /\ p \notin used}

\* What one pending request does to the list that is kept, the flows, the
\* used ports and the peers asked for their address. A request that is too
\* old, or finds no port, is dropped without a completion.
Expired(p) == p.age > kPendingRequestTimeoutSlowTicks

\* GetL2Addr of the ARP handler: the cached address, or a who-has request.
Resolved(peer) == peer \in arp.table
RequestL2Addr(asked, peer) == asked \cup {peer}

TryPending(s, p) ==
  LET free == FreePorts(s.used)
      key == [port |-> Min(free), peer |-> p.r.peer]
      taken == \E f \in s.flows : f.mapped /\ f.proto = p.r.proto /\ f.key = key
  IN CASE Expired(p) -> s
       [] ~Expired(p) /\ ~Resolved(p.r.peer) ->
            [s EXCEPT !.kept = Append(@, p),
                      !.asked = RequestL2Addr(@, p.r.peer)]
       [] ~Expired(p) /\ Resolved(p.r.peer) /\ free = {} -> s
       [] OTHER ->
            [s EXCEPT !.used = @ \cup {key.port},
                      !.flows = @ \cup {Flow(p.r.proto, key, p.ch, p.id,
                                              "SYN_SENT", ~taken)}]

\* The loop over the pending requests of one transport.
TryAllPending(s, proto) ==
  LET after[i \in 0..Len(pending)] ==
        IF i = 0 THEN s
        ELSE IF pending[i].r.proto = proto
          THEN TryPending(after[i - 1], pending[i])
        ELSE after[i - 1]
  IN  after[Len(pending)]

\* The two loops, UDP before TCP.
ProcessPending ==
  /\ stage = "ctrl" /\ todo = {}
  /\ LET s == TryAllPending(
                TryAllPending([kept |-> <<>>, flows |-> flows,
                               used |-> ports.used, asked |-> arp.asked],
                              "udp"), "tcp")
     IN /\ pending' = s.kept /\ flows' = s.flows
        /\ ports' = [ports EXCEPT !.used = s.used]
        /\ arp' = [arp EXCEPT !.asked = s.asked]
  /\ stage' = "update"
  /\ UNCHANGED <<lib, sq, cq, toEnqueue, toDequeue, todo, channels, listeners>>

\* UnregisterListener for the ports ps: those that are registered are released.
UnregisterListener(p, ps) == [used |-> p.used \ (ps \cap p.bound),
                              bound |-> p.bound \ ps]

\* ChannelsUpdate takes the listeners of a channel away: at each of its ports
\* the UDP listener, or else the TCP listener, is erased and unregistered.
\* (Mutation: only UDP listeners are looked for.)
DropListeners_udponly(s, c) ==
  LET ls == {l \in s.listeners : l.ch = c /\ l.proto = "udp"}
  IN [s EXCEPT !.listeners = @ \ ls,
               !.ports = [used |-> @.used \ {l.port : l \in ls},
                          bound |-> @.bound \ {l.port : l \in ls}]]

DropListeners(s, c) ==
  LET ps == {l.port : l \in {x \in s.listeners : x.ch = c}}
      hasUdp(p) == \E x \in s.listeners : x.proto = "udp" /\ x.port = p
  IN [s EXCEPT
        !.listeners = {l \in @ : ~(l.port \in ps /\
                                  (l.proto = "udp" \/ ~hasUdp(l.port)))},
        !.ports = UnregisterListener(@, ps)]

\* It takes the channel's flows out of the maps, by their keys, and releases
\* their ports. (Mutation: only the flows of the UDP list are taken out.)
DropFlows_udponly(s, c) ==
  LET own == {f \in s.flows : f.ch = c /\ f.proto = "udp"}
  IN [s EXCEPT !.flows = @ \ own,
               !.ports.used = @ \ {f.key.port : f \in own}]

DropFlows(s, c) ==
  LET own(f) == \E x \in s.flows : x.ch = c /\ x.proto = f.proto
                                           /\ x.key = f.key
  IN [s EXCEPT
        !.flows = {[f EXCEPT !.mapped = @ /\ ~own(f)] :
                     f \in {x \in s.flows : x.ch # c}},
        !.ports = SrcPortRelease(@, {f.key.port : f \in {x \in s.flows :
                                                           x.mapped /\ own(x)}})]

\* channels_.erase(it)
RemoveAt(q, it) == SubSeq(q, 1, it - 1) \o SubSeq(q, it + 1, Len(q))

DropChannel(s, c) ==
  IF c \notin Range(s.channels) THEN s
  ELSE LET t == DropFlows(DropListeners(s, c), c)
           it == Min({i \in DOMAIN s.channels : s.channels[i] = c})
       IN [t EXCEPT !.channels = RemoveAt(@, it)]

\* The loop over channels_to_dequeue_.
DropChannels(s, cs) ==
  LET after[i \in 0..Len(cs)] == IF i = 0 THEN s
                                 ELSE DropChannel(after[i - 1], cs[i])
  IN  after[Len(cs)]

\* ChannelsUpdate, under the engine's mutex. The promise that the controller
\* waits for is set when the channel joins the list.
ChannelsUpdate ==
  /\ stage = "update"
  /\ LET s == DropChannels([channels |-> channels \o toEnqueue, flows |-> flows,
                            listeners |-> listeners, ports |-> ports],
                           toDequeue)
     IN /\ channels' = s.channels /\ flows' = s.flows
        /\ listeners' = s.listeners /\ ports' = s.ports
  /\ lib' = [c \in Channels |-> IF c \in Range(toEnqueue)
                               THEN [lib[c] EXCEPT !.st = "idle"] ELSE lib[c]]
  /\ toEnqueue' = <<>> /\ toDequeue' = <<>>
  /\ stage' = "run"
  /\ UNCHANGED <<sq, cq, todo, pending, arp>>

-----------------------------------------------------------------------------
(* Packets, between two ticks.                                             *)

\* InputPacket of a flow in the map, as far as the engine sees it.
FlowInput(f, st) ==
  /\ stage = "run" /\ f.mapped
  /\ \/ /\ f.st = "SYN_SENT" /\ st = "UP"
        /\ EmitCompletion(f.ch, f.req, TRUE, f.key)
     \/ \* Simultaneous open, and a reset: the callback is not called.
        /\ \/ f.st = "SYN_SENT" /\ st = "UP" /\ f.proto = "tcp"
           \/ f.st # "CLOSED" /\ st = "CLOSED"
        /\ f.req # Passive \/ PassiveFlowsDie
        /\ UNCHANGED cq
     \/ \* A SYN opens a UDP flow that is CLOSED.
        /\ f.st = "CLOSED" /\ st = "UP" /\ f.proto = "udp"
        /\ UNCHANGED cq
  /\ flows' = (flows \ {f}) \cup {[f EXCEPT !.st = st]}
  /\ UNCHANGED <<lib, sq, toEnqueue, toDequeue, stage, todo, channels, pending,
                 listeners, ports, arp>>

\* process_rx_ipv4: a SYN that belongs to no flow, at a port that is listened
\* on, makes a flow on the listener's channel.
PassiveOpen(proto, key) ==
  /\ stage = "run"
  /\ Mapped(proto, key) = {}
  /\ \E l \in ListenerAt(proto, key.port) :
       flows' = flows \cup {Flow(proto, key, l.ch, Passive, "UP", TRUE)}
  /\ UNCHANGED <<lib, sq, cq, toEnqueue, toDequeue, stage, todo, channels,
                 pending, listeners, ports, arp>>

\* ProcessArpPacket: the reply of a peer that was asked. (A request for the
\* local address is answered and changes nothing here.)
ArpReply(r) ==
  /\ stage = "run" /\ r \in arp.asked \ arp.table
  /\ arp' = [arp EXCEPT !.table = @ \cup {r}]
  /\ UNCHANGED <<lib, sq, cq, toEnqueue, toDequeue, stage, todo, channels,
                 pending, flows, listeners, ports>>

\* process_msg: the flows that a message with this key is given to. The UDP
\* map is searched first.
Route(key) == IF Mapped("udp", key) # {} THEN Mapped("udp", key)
              ELSE Mapped("tcp", key)

EngineStep == Tick \/ (\E f \in todo : HandleRTO(f)) \/ StartRequests
              \/ ProcessControlRequest \/ ProcessPending \/ ChannelsUpdate

Next ==
  \/ \E c \in Channels : AddChannel(c) \/ RemoveChannel(c) \/ Poll(c)
  \/ \E c \in Channels : machnet_connect(c) \/ machnet_listen(c)
  \/ EngineStep
  \/ \E f \in flows, st \in {"UP", "CLOSED"} : FlowInput(f, st)
  \/ \E p \in Protos, k \in Keys : PassiveOpen(p, k)
  \/ \E r \in Peers : ArpReply(r)

Spec == Init /\ [][Next]_vars

\* The engine's thread runs for as long as the process does.
FairSpec == Spec /\ WF_vars(EngineStep)

-----------------------------------------------------------------------------
(* Properties.                                                             *)

Active == {f \in flows : f.req # Passive}

\* The bitmap is exact: a port is marked as used if and only if a listener or
\* a flow that this host opened has it, and no two of these share a port. A
\* leak would use up the ports; a port released too early (HandleRTO,
\* ChannelsUpdate) is given to a second owner.
PortsExact ==
  /\ ports.used = {l.port : l \in listeners} \cup {f.key.port : f \in Active}
  /\ \A f \in Active : /\ ~\E l \in listeners : l.port = f.key.port
                       /\ \A g \in Active \ {f} : g.key.port # f.key.port
  /\ \A l, m \in listeners : l.port = m.port => l = m

\* A port that is listened on is marked as used, so that RegisterListener and
\* SrcPortAlloc do not give it out again.
ListenerKeepsPort == \A l \in listeners : l.port \in ports.used

\* Flows in the engine's maps belong to channels that it serves: the map
\* holds iterators into a list that the channel owns (ChannelsUpdate). The one
\* exception is a connect that was under way when its channel was removed:
\* ProcessControlRequests carries it out afterwards all the same.
FlowsServed ==
  \A f \in flows : f.mapped => f.ch \in Range(channels) \/ lib[f.ch].st = "cut"

\* A message reaches the flow it is meant for: process_msg finds each flow of
\* the maps, and only it, under its key, although that key has no protocol and
\* the map of UDP flows is searched first.
RouteUnique == \A f \in flows : f.mapped => Route(f.key) = {f}

\* What a call reports is true, late completions of earlier calls that gave
\* up notwithstanding: a listen that returned 0 has its listener, and a
\* connect that returned 0 names a flow to the peer it asked for.
SuccessIsReal ==
  \A c \in Channels :
    /\ \A r \in lib[c].conns : r.flow.peer = r.asked.peer /\ r.asked.isLocal
    /\ c \in Range(channels) =>
         \A r \in lib[c].lstns : [proto |-> r.proto, port |-> r.port, ch |-> c]
                                   \in listeners

\* A channel that the controller removes is let go of: the engine stops
\* serving it, and keeps no listener and no flow of it (ChannelsUpdate).
RemovalCompletes ==
  \A c \in Channels :
    lib[c].st = "gone" ~> /\ c \notin Range(channels) \cup Range(toDequeue)
                          /\ \A x \in flows \cup listeners : x.ch # c

=============================================================================
