----------------------------- MODULE Controller -----------------------------
(***************************************************************************)
(* The Machnet process around its engines: the controller (core/           *)
(* machnet_controller.cc) with its socket server (core/ud_socket.cc), the  *)
(* ChannelManager (include/channel.h), the worker threads that run the     *)
(* engines (include/worker.h), and the library calls with which an         *)
(* application registers and attaches (ext/machnet.c).                     *)
(*                                                                         *)
(* An application has a control connection, open as long as it lives, and  *)
(* one connection for each attach; the controller is single-threaded and   *)
(* blocks until an engine has taken a new channel. The rest of an engine   *)
(* is in module Engine.                                                    *)
(***************************************************************************)
EXTENDS Naturals, FiniteSets

CONSTANTS
  Apps,           \* application processes
  Engines,        \* engines, each with its worker thread
  Hash,           \* Hash[c]: the engine that the name of channel c hashes to
  kMaxChannelNr,  \* channels that the ChannelManager holds
  MaxAttach,      \* bound: MaxAttach[a] calls of machnet_attach in application a
  BusyExit        \* may an application exit while it waits for an answer?

\* Every attach asks for a channel with a new UUID.
Channels == UNION {{a} \X (1..MaxAttach[a]) : a \in Apps}

ASSUME ControllerAssumption ==
  /\ Hash \in [Channels -> Engines]
  /\ kMaxChannelNr \in Nat /\ MaxAttach \in [Apps -> Nat] /\ BusyExit \in BOOLEAN

VARIABLES
  app,      \* app[a]: the library's state in application a
  conn,     \* conn[a][k]: the control ("ctl") and attach ("req") connections
  registry, \* applications_registered_: [apps, owned]
  manager,  \* channels of the ChannelManager
  engine,   \* engine[e]: the channel lists of engine e
  worker,   \* worker[e]: state and position of the thread that runs e
  ctl       \* the controller thread

vars == <<app, conn, registry, manager, engine, worker, ctl>>

Kinds == {"ctl", "req"}
NoEngine == "none"
NoReq == <<>>
Register == <<"register">>

NoConn == [st |-> "none", req |-> NoReq, resp |-> "none", up |-> FALSE,
           registered |-> FALSE]

Init ==
  /\ app = [a \in Apps |-> [pc |-> "idle", uuid |-> FALSE, init |-> "no",
                            calls |-> 0, held |-> {}]]
  /\ conn = [a \in Apps |-> [k \in Kinds |-> NoConn]]
  /\ registry = [apps |-> {}, owned |-> [a \in Apps |-> {}]]
  /\ manager = {}
  /\ engine = [e \in Engines |-> [channels |-> {}, enq |-> {}, deq |-> {}]]
  /\ worker = [e \in Engines |-> [state |-> "STOPPED", pc |-> "none"]]
  /\ ctl = [pc |-> "down", keep_running |-> FALSE, app |-> "none", chan |-> NoReq,
            promise |-> FALSE, left |-> {}, addIndex |-> NoEngine,
            removeIndex |-> NoEngine]

\* The process is gone: its sockets are closed, its threads have ended.
Gone == ctl.pc \in {"down", "exited", "crashed"}
Listening == ~Gone /\ ctl.pc # "launching"

-----------------------------------------------------------------------------
(* The application.                                                        *)

Connection(req) == [NoConn EXCEPT !.st = "backlog", !.req = req, !.up = TRUE]

\* machnet_init registers once; the UUID says that it did.
machnet_init(a) ==
  /\ app[a].pc = "idle"
  /\ \/ /\ app[a].uuid /\ app[a].init # "ok"
        /\ app' = [app EXCEPT ![a].init = "ok"]
        /\ UNCHANGED conn
     \/ /\ ~app[a].uuid /\ ~Listening
        /\ app' = [app EXCEPT ![a].uuid = TRUE, ![a].init = "failed"]
        /\ UNCHANGED conn
     \/ /\ ~app[a].uuid /\ Listening
        /\ app' = [app EXCEPT ![a].uuid = TRUE, ![a].pc = "init"]
        /\ conn' = [conn EXCEPT ![a]["ctl"] = Connection(Register)]
  /\ UNCHANGED <<registry, manager, engine, worker, ctl>>

InitReturns(a) ==
  /\ app[a].pc = "init"
  /\ conn[a]["ctl"].resp # "none" \/ Gone
  /\ app' = [app EXCEPT ![a].pc = "idle",
                        ![a].init = IF conn[a]["ctl"].resp = "ok" THEN "ok"
                                    ELSE "failed"]
  /\ UNCHANGED <<conn, registry, manager, engine, worker, ctl>>

\* machnet_attach: _machnet_ctrl_request opens a connection of its own.
machnet_attach(a) ==
  /\ app[a].pc = "idle" /\ app[a].init = "ok" /\ app[a].calls < MaxAttach[a]
  /\ app' = [app EXCEPT ![a].calls = @ + 1,
                        ![a].pc = IF Listening THEN "attach" ELSE "idle"]
  /\ conn' = IF Listening
             THEN [conn EXCEPT ![a]["req"] = Connection(<<a, app[a].calls + 1>>)]
             ELSE conn
  /\ UNCHANGED <<registry, manager, engine, worker, ctl>>

\* What machnet_attach makes of the response: the channel, when the controller
\* granted it and machnet_bind maps it.
Attached(a, bound) ==
  IF bound /\ conn[a]["req"].resp = "ok" THEN {<<a, app[a].calls>>} ELSE {}

\* The answer, or the end of the connection. machnet_bind may fail to map.
AttachReturns(a) ==
  /\ app[a].pc = "attach"
  /\ conn[a]["req"].resp # "none" \/ Gone
  /\ \E bound \in BOOLEAN :
       app' = [app EXCEPT ![a].pc = "idle", ![a].held = @ \cup Attached(a, bound)]
  /\ UNCHANGED <<conn, registry, manager, engine, worker, ctl>>

\* The application ends, and the system closes its sockets.
Exit(a) ==
  /\ app[a].pc = "idle" \/ (BusyExit /\ app[a].pc \in {"init", "attach"})
  /\ app' = [app EXCEPT ![a].pc = "exited", ![a].held = {}]
  /\ conn' = [conn EXCEPT ![a] = [k \in Kinds |-> [@[k] EXCEPT !.up = FALSE]]]
  /\ UNCHANGED <<registry, manager, engine, worker, ctl>>

-----------------------------------------------------------------------------
(* The controller's callbacks.                                             *)

\* The connection c of kind k after its request was answered.
Answered(c, k, status) ==
  [c EXCEPT !.resp = status, !.req = NoReq, !.registered = @ \/ k = "ctl"]

\* SendMsg to a client that has gone fails, and CHECK ends the process.
Respond(a, k, status, pc) ==
  IF conn[a][k].up
  THEN /\ conn' = [conn EXCEPT ![a][k] = Answered(@, k, status)]
       /\ ctl' = [ctl EXCEPT !.pc = pc, !.app = "none", !.chan = NoReq]
  ELSE ctl' = [ctl EXCEPT !.pc = "crashed"] /\ UNCHANGED conn

\* UDServer::Run accepts, and HandleNewConnection makes a client context; a
\* connection that it cannot have one for is closed.
AllocateUserData(c, ok) == IF ok THEN [c EXCEPT !.st = "open", !.registered = FALSE]
                           ELSE [NoConn EXCEPT !.resp = "closed"]
HandleNewConnection(a, k) ==
  /\ ctl.pc = "serving" /\ conn[a][k].st = "backlog"
  /\ \E ok \in BOOLEAN : conn' = [conn EXCEPT ![a][k] = AllocateUserData(@, ok)]
  /\ UNCHANGED <<app, registry, manager, engine, worker, ctl>>

Readable(a, k) == ctl.pc = "serving" /\ conn[a][k].st = "open"

\* What a read of the connection gets: a request, or nothing.
RecvMsgWithFd(a, k) == conn[a][k].req

RegisterApplication(a) ==
  /\ Readable(a, "ctl") /\ RecvMsgWithFd(a, "ctl") = Register
  /\ registry' = [registry EXCEPT !.apps = @ \cup {a},
                                  !.owned[a] = IF a \in registry.apps THEN @ ELSE {}]
  /\ Respond(a, "ctl", IF a \in registry.apps THEN "fail" ELSE "ok", "serving")
  /\ UNCHANGED <<app, manager, engine, worker>>

\* ChannelManager::AddChannel may also fail to get the memory.
MayAdd(c) == Cardinality(manager) < kMaxChannelNr /\ c \notin manager
DestroyChannels(cs) == manager' = manager \ cs

\* The engine of the first channel serves all of them.
Index(index, cs) == IF index # NoEngine THEN {index} ELSE {Hash[c] : c \in cs}

\* CreateChannel, up to the wait for the engine's promise.
CreateChannel_nowait(a) ==
  /\ Readable(a, "req") /\ RecvMsgWithFd(a, "req") # NoReq
  /\ LET c == RecvMsgWithFd(a, "req")
     IN \/ /\ a \in registry.apps /\ c \notin registry.owned[a] /\ MayAdd(c)
           /\ manager' = manager \cup {c}
           /\ registry' = [registry EXCEPT !.owned[a] = @ \cup {c}]
           /\ \E e \in Index(ctl.addIndex, {c}) :
                engine' = [engine EXCEPT ![e].enq = @ \cup {c}]
           /\ Respond(a, "req", "ok", "serving")
        \/ /\ Respond(a, "req", "fail", "serving")
           /\ UNCHANGED <<registry, manager, engine>>
  /\ UNCHANGED <<app, worker>>

CreateChannel(a) ==
  /\ Readable(a, "req") /\ RecvMsgWithFd(a, "req") # NoReq
  /\ LET c == RecvMsgWithFd(a, "req")
     IN \/ /\ a \in registry.apps /\ c \notin registry.owned[a] /\ MayAdd(c)
           /\ manager' = manager \cup {c}
           /\ registry' = [registry EXCEPT !.owned[a] = @ \cup {c}]
           /\ \E e \in Index(ctl.addIndex, {c}) :
                /\ engine' = [engine EXCEPT ![e].enq = @ \cup {c}]
                /\ ctl' = [ctl EXCEPT !.pc = "waiting", !.app = a, !.chan = c,
                                      !.promise = FALSE, !.addIndex = e]
           /\ UNCHANGED conn
        \/ /\ Respond(a, "req", "fail", "serving")
           /\ UNCHANGED <<registry, manager, engine>>
  /\ UNCHANGED <<app, worker>>

\* The promise is kept: the client gets the descriptor of the channel.
ChannelCreated ==
  /\ ctl.pc = "waiting" /\ ctl.promise
  /\ Respond(ctl.app, "req", "ok", "serving")
  /\ UNCHANGED <<app, registry, manager, engine, worker>>

HandleNewMessage(a) == RegisterApplication(a) \/ CreateChannel(a)

\* UnregisterApplication for the applications as, one after the other; next
\* is what the controller does then. (Mutation: the engine keeps the channels.)
UnregisterApplication_engine(as, next) ==
  /\ registry' = [apps |-> registry.apps \ as,
                  owned |-> [a \in Apps |-> IF a \in as THEN {}
                                            ELSE registry.owned[a]]]
  /\ DestroyChannels(UNION {registry.owned[a] : a \in as})
  /\ ctl' = next
  /\ UNCHANGED engine

UnregisterApplication(as, next) ==
  LET cs == UNION {registry.owned[a] : a \in as}
  IN /\ registry' = [apps |-> registry.apps \ as,
                     owned |-> [a \in Apps |-> IF a \in as THEN {}
                                               ELSE registry.owned[a]]]
     /\ DestroyChannels(cs)
     /\ \/ cs = {} /\ ctl' = next /\ UNCHANGED engine
        \/ /\ cs # {}
           /\ \E i \in Index(ctl.removeIndex, cs) :
                /\ engine' = [engine EXCEPT ![i].deq = @ \cup cs]
                /\ ctl' = [next EXCEPT !.removeIndex = i]

Leaving(a) == conn[a]["ctl"].registered /\ a \in registry.apps

\* End of file on a connection.
HandlePassiveClose(a, k) ==
  /\ Readable(a, k) /\ ~conn[a][k].up /\ RecvMsgWithFd(a, k) = NoReq
  /\ conn' = [conn EXCEPT ![a][k] = NoConn]
  /\ UnregisterApplication({b \in {a} : k = "ctl" /\ Leaving(b)}, ctl)
  /\ UNCHANGED <<app, worker>>

\* The server's loop ends, and every client that it knows is closed.
StopServing ==
  /\ ctl.pc = "serving" /\ ~ctl.keep_running
  /\ UnregisterApplication({a \in Apps : conn[a]["ctl"].st = "open" /\ Leaving(a)},
                           [ctl EXCEPT !.pc = "pausing", !.left = Engines])
  /\ conn' = [a \in Apps |-> [k \in Kinds |->
                [conn[a][k] EXCEPT !.registered = FALSE]]]
  /\ UNCHANGED <<app, worker>>

-----------------------------------------------------------------------------
(* Start and end of the process, and its workers.                          *)

\* WorkerPool::Init makes the workers and runs their threads.
InitWorkers == worker' = [e \in Engines |-> [worker[e] EXCEPT !.pc = "loop"]]

\* MachnetController::Run: the threads start, before they are launched. Without
\* an interface, or a port of the device for it, Run returns at once.
Start ==
  /\ ctl.pc = "down"
  /\ \/ ctl' = [ctl EXCEPT !.pc = "exited"] /\ UNCHANGED worker
     \/ ctl' = [ctl EXCEPT !.pc = "launching"] /\ InitWorkers
  /\ UNCHANGED <<app, conn, registry, manager, engine>>

\* Worker::start, Worker::stop and Worker::quit: the new state of worker w.
start(w) == [w EXCEPT !.state = IF @ = "STOPPED" THEN "RUNNING" ELSE @]
stop(w) == [w EXCEPT !.state = IF @ = "RUNNING" THEN "STOPPING" ELSE @]
quit(w) == [w EXCEPT !.state = "FINISHED"]
isStopped(w) == w.state = "STOPPED"
shouldStop(w) == w.state = "STOPPING"
shouldQuit(w) == w.state = "FINISHED"

\* UDSocket::Listen; the server's constructor ends the process if it fails.
Listen(ok) == ctl' = [ctl EXCEPT !.pc = IF ok THEN "created" ELSE "crashed"]

\* Launch, and RunController makes the server.
Launch ==
  /\ ctl.pc = "launching"
  /\ worker' = [e \in Engines |-> start(worker[e])]
  /\ \E ok \in BOOLEAN : Listen(ok)
  /\ UNCHANGED <<app, conn, registry, manager, engine>>

ServerRun ==
  /\ ctl.pc = "created"
  /\ ctl' = [ctl EXCEPT !.pc = "serving", !.keep_running = TRUE]
  /\ UNCHANGED <<app, conn, registry, manager, engine, worker>>

\* UDServer::Stop; what it writes before Run is overwritten.
StopServer == [ctl EXCEPT !.keep_running = FALSE]

\* MachnetController::Stop wants a server.
StopController == IF ctl.pc = "launching" THEN [ctl EXCEPT !.pc = "crashed"]
                  ELSE StopServer

\* SIGINT.
Stop ==
  /\ ~Gone
  /\ ctl' = StopController
  /\ UNCHANGED <<app, conn, registry, manager, engine, worker>>

\* WorkerPool::Pause spins on stop for each worker.
Pause(e) ==
  /\ ctl.pc = "pausing" /\ e \in ctl.left
  /\ worker[e].state \in {"STOPPED", "RUNNING"}
  /\ worker' = [worker EXCEPT ![e] = stop(@)]
  /\ ctl' = IF ctl.left = {e}
            THEN [ctl EXCEPT !.pc = "terminating", !.left = Engines]
            ELSE [ctl EXCEPT !.left = @ \ {e}]
  /\ UNCHANGED <<app, conn, registry, manager, engine>>

\* WorkerPool::Terminate waits until a worker is stopped, then lets it quit.
Terminate(e) ==
  /\ ctl.pc = "terminating" /\ e \in ctl.left /\ isStopped(worker[e])
  /\ worker' = [worker EXCEPT ![e] = quit(@)]
  /\ ctl' = [ctl EXCEPT !.left = @ \ {e}]
  /\ UNCHANGED <<app, conn, registry, manager, engine>>

\* The workers have a second to quit.
End ==
  /\ ctl.pc = "terminating" /\ ctl.left = {}
  /\ ctl' = [ctl EXCEPT !.pc = "exited"]
  /\ UNCHANGED <<app, conn, registry, manager, engine, worker>>

\* Worker::loop looks at its state now and then; idle stops it.
\* (Mutation: only quit is looked at.)
WorkerChecks_quitonly(e) ==
  /\ ~Gone /\ worker[e].pc \in {"loop", "idle"} /\ shouldQuit(worker[e])
  /\ worker' = [worker EXCEPT ![e].pc = "done"]
  /\ UNCHANGED <<app, conn, registry, manager, engine, ctl>>

WorkerChecks(e) ==
  /\ ~Gone
  /\ \/ /\ worker[e].pc = "loop" /\ shouldStop(worker[e])
        /\ worker' = [worker EXCEPT ![e].state = "STOPPED", ![e].pc = "idle"]
     \/ /\ worker[e].pc \in {"loop", "idle"} /\ shouldQuit(worker[e])
        /\ worker' = [worker EXCEPT ![e].pc = "done"]
  /\ UNCHANGED <<app, conn, registry, manager, engine, ctl>>

\* A cycle begins: every 2^16th only when the worker may go on.
WorkerCycle(e) ==
  /\ ~Gone /\ worker[e].pc = "loop"
  /\ worker' = [worker EXCEPT ![e].pc = "run"]
  /\ UNCHANGED <<app, conn, registry, manager, engine, ctl>>

\* The engine runs; its slow tick brings its channels up to date.
\* (Mutation: nobody keeps the promise.)
ChannelsUpdate_broken(e) ==
  /\ ~Gone /\ worker[e].pc = "run"
  /\ worker' = [worker EXCEPT ![e].pc = "loop"]
  /\ engine' = [engine EXCEPT ![e] =
       [channels |-> (@.channels \cup @.enq) \ @.deq, enq |-> {}, deq |-> {}]]
  /\ UNCHANGED <<app, conn, registry, manager, ctl>>

ChannelsUpdate(e) ==
  /\ ~Gone /\ worker[e].pc = "run"
  /\ worker' = [worker EXCEPT ![e].pc = "loop"]
  /\ engine' = [engine EXCEPT ![e] =
       [channels |-> (@.channels \cup @.enq) \ @.deq, enq |-> {}, deq |-> {}]]
  /\ ctl' = IF ctl.chan \in engine[e].enq THEN [ctl EXCEPT !.promise = TRUE]
            ELSE ctl
  /\ UNCHANGED <<app, conn, registry, manager>>

-----------------------------------------------------------------------------
AppStep(a) == InitReturns(a) \/ AttachReturns(a)

ServerStep ==
  \/ \E a \in Apps, k \in Kinds : HandleNewConnection(a, k) \/ HandlePassiveClose(a, k)
  \/ \E a \in Apps : HandleNewMessage(a)
  \/ ChannelCreated \/ StopServing \/ Launch \/ ServerRun \/ End
  \/ \E e \in Engines : Pause(e) \/ Terminate(e)

WorkerStep(e) == WorkerCycle(e) \/ ChannelsUpdate(e)

Next ==
  \/ \E a \in Apps : machnet_init(a) \/ machnet_attach(a) \/ Exit(a) \/ AppStep(a)
  \/ Start \/ Stop \/ ServerStep
  \/ \E e \in Engines : WorkerStep(e) \/ WorkerChecks(e)

Spec == Init /\ [][Next]_vars

\* The threads of the process run, the applications take their answers, and a
\* worker looks at its state again and again (cycles_ & kAccountingMask_).
FairSpec ==
  /\ Spec /\ WF_vars(ServerStep) /\ \A a \in Apps : WF_vars(AppStep(a))
  /\ \A e \in Engines : WF_vars(WorkerStep(e)) /\ SF_vars(WorkerChecks(e))

-----------------------------------------------------------------------------
(* Properties.                                                             *)

\* A channel that an application has bound is served by an engine as long as
\* both processes live (CreateChannel waits for the engine, and only the end of
\* the application takes the channel away).
BoundIsServed ==
  ctl.pc \in {"serving", "waiting"} =>
    \A a \in Apps : \A c \in app[a].held :
      /\ a \in registry.apps /\ c \in registry.owned[a] /\ c \in manager
      /\ \E e \in Engines : c \in engine[e].channels /\ c \notin engine[e].deq

\* UnregisterApplication takes the channels of an application from the engine
\* that serves them: an engine keeps no channel that the manager has dropped.
EnginesRelease ==
  \A e \in Engines :
    (engine[e].channels \cup engine[e].enq) \ engine[e].deq \subseteq manager

\* machnet_init and machnet_attach return, also when the controller stops or
\* dies meanwhile, and when another application dies.
CallsReturn ==
  \A a \in Apps : app[a].pc \in {"init", "attach"} ~> app[a].pc \in {"idle", "exited"}

\* The channels of an application that has ended leave the manager and the
\* engines, unless the process ends.
ExitReleases ==
  \A a \in Apps :
    app[a].pc = "exited" ~>
      \/ Gone
      \/ \A c \in {a} \X (1..MaxAttach[a]) :
           c \notin manager /\ \A e \in Engines : c \notin engine[e].channels

\* A server that was told to stop ends the process: no worker and no client
\* keeps it.
StopEnds == (ctl.pc = "serving" /\ ~ctl.keep_running) ~> Gone

=============================================================================
