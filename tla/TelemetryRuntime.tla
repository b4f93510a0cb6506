-------------------------- MODULE TelemetryRuntime --------------------------
(***************************************************************************)
(* telemetry_runtime.rs: TelemetryRuntimeManager starts, stops and restarts *)
(* the UDP receiver (forza_udp_receiver.rs), the connection heartbeat and   *)
(* the mock generator, under one async mutex.  Callers are main, the HTTP   *)
(* handlers and the Ctrl+C handler; axum drops a handler, at an await, when *)
(* its client goes away.                                                    *)
(*                                                                          *)
(* Every successful start is a generation: it has a stop channel, a set of  *)
(* tasks and a bound port.  A configuration is a record with the fields     *)
(* that matter here: `port` for what is bound, `mock`, and `live` for the   *)
(* broadcast rate and the timeout, which are applied without a restart.  A  *)
(* UDP host that is no address (UDP_HOST of an environment that config.json *)
(* does not overrule: load_config does not check it) is the port NoAddress; *)
(* a configuration with it may be what the process begins with, and is      *)
(* never saved.                                                             *)
(***************************************************************************)
EXTENDS Integers

CONSTANTS
    Callers,        \* who calls start(), stop() and restart()
    Configs,        \* configurations that may be in force
    NoAddress,      \* the port of those whose UDP host does not parse
    BusyPorts,      \* ports another program may hold
    MaxCalls,       \* bound on the number of calls
    MayCancel,      \* a caller may be dropped while it awaits
    MaySocketError, \* recv_from may fail
    None            \* no caller, no configuration

ASSUME ConfigsAssumption ==
    \A cfg \in Configs :
        /\ DOMAIN cfg = {"port", "mock", "live"}
        /\ cfg.mock \in BOOLEAN
ASSUME NoneAssumption == None \notin Callers /\ None \notin Configs
ASSUME BoundsAssumption == MaxCalls \in Nat
ASSUME SwitchesAssumption == MayCancel \in BOOLEAN /\ MaySocketError \in BOOLEAN

VARIABLES
    config,       \* the AppConfig behind the RwLock
    liveHz,       \* what the broadcaster works with
    liveTimeout,  \* what the store works with
    lock,         \* holder of the mutex around RuntimeInner
    running,      \* inner.stop_tx.is_some()
    active,       \* the address, buffer and mock fields of inner
    generation,   \* the generation inner.stop_tx and the handles belong to
    signalled,    \* generations whose stop channel was sent to and dropped
    live,         \* tasks that have not ended: <<kind, generation>>
    bound,        \* ports the live receivers have bound: <<generation, port>>
    busy,         \* tasks between reading or updating the store and requesting
    latest,       \* store.latest: "none", "connected" or "disconnected"
    slot,         \* the snapshot last given to request_broadcast
    op,           \* progress of each caller
    calls         \* number of calls, bounded

inner == <<running, active, generation>>
tasks == <<signalled, live, bound, busy>>
data  == <<latest, slot>>
vars == <<config, liveHz, liveTimeout, lock, inner, tasks, data, op, calls>>

Kinds(cfg) == {"udp", "heartbeat"} \cup (IF cfg.mock THEN {"mock"} ELSE {})

IdleOp == [pc |-> "idle", goal |-> "stop", cfg |-> None, seen |-> {}]

Init ==
    /\ config \in Configs
    /\ liveHz = config.live
    /\ liveTimeout = config.live
    /\ lock = None
    /\ running = FALSE
    /\ active = None
    /\ generation = 0
    /\ signalled = {}
    /\ live = {}
    /\ bound = {}
    /\ busy = {}
    /\ latest = "none"
    /\ slot = "none"
    /\ op = [c \in Callers |-> IdleOp]
    /\ calls = 0

\* Caller c moves from one point of its call to another.
At(c, pc) == op[c].pc = pc
Goto(c, pc) == op' = [op EXCEPT ![c].pc = pc]
Return(c) == op' = [op EXCEPT ![c] = IdleOp]

-----------------------------------------------------------------------------
\* Mutant: restart() relies on start() alone.
CallRestartWithoutStop(c, goal) ==
    /\ At(c, "idle")
    /\ calls < MaxCalls
    /\ calls' = calls + 1
    /\ op' = [op EXCEPT ![c] =
                [pc |-> IF goal = "stop" THEN "stopLock" ELSE "startLock",
                 goal |-> goal, cfg |-> None, seen |-> {config}]]
    /\ UNCHANGED <<config, liveHz, liveTimeout, lock, inner, tasks, data>>

\* A call begins; `seen` collects the configurations in force while it lasts.
Call(c, goal) ==
    /\ At(c, "idle")
    /\ calls < MaxCalls
    /\ calls' = calls + 1
    /\ op' = [op EXCEPT ![c] =
                [pc |-> IF goal = "start" THEN "startLock" ELSE "stopLock",
                 goal |-> goal, cfg |-> None, seen |-> {config}]]
    /\ UNCHANGED <<config, liveHz, liveTimeout, lock, inner, tasks, data>>

\* stop() is over: restart() goes on with start(), having let go of the lock.
AfterStop(c) ==
    IF op[c].goal = "restart" THEN Goto(c, "startLock") ELSE Return(c)

-----------------------------------------------------------------------------
\* stop()

StopNotRunning(c) ==
    /\ At(c, "stopLock")
    /\ lock = None
    /\ ~running
    /\ AfterStop(c)
    /\ UNCHANGED <<config, liveHz, liveTimeout, lock, inner, tasks, data, calls>>

\* Mutant: stop_tx is sent to and left in its place.
StopSignalKept(c) ==
    /\ At(c, "stopLock")
    /\ lock = None
    /\ running
    /\ lock' = c
    /\ signalled' = signalled \cup {generation}
    /\ Goto(c, "stopAwait")
    /\ UNCHANGED <<config, liveHz, liveTimeout, inner, live, bound, busy, data,
                   calls>>

\* With the lock: take stop_tx, send, and take the handles.
StopSignal(c) ==
    /\ At(c, "stopLock")
    /\ lock = None
    /\ running
    /\ lock' = c
    /\ running' = FALSE
    /\ signalled' = signalled \cup {generation}
    /\ Goto(c, "stopAwait")
    /\ UNCHANGED <<config, liveHz, liveTimeout, active, generation, live, bound,
                   busy, data, calls>>

\* Mutant: only the receiver's handle is awaited.
ReceiverEnded == <<"udp", generation>> \notin live

\* Every handle taken has been awaited, so every task of the generation ended.
TasksEnded == \A task \in live : task[2] # generation

StopTasksEnded(c) ==
    /\ At(c, "stopAwait")
    /\ TasksEnded
    /\ active' = None
    /\ Goto(c, "stopMark")
    /\ UNCHANGED <<config, liveHz, liveTimeout, lock, running, generation, tasks,
                   data, calls>>

\* mark_disconnected(): nothing to mark, and to announce, before any packet.
StopMark(c) ==
    /\ At(c, "stopMark")
    /\ latest # "none"
    /\ latest' = "disconnected"
    /\ Goto(c, "stopRequest")
    /\ UNCHANGED <<config, liveHz, liveTimeout, lock, inner, tasks, slot, calls>>

StopNothingToMark(c) ==
    /\ At(c, "stopMark")
    /\ latest = "none"
    /\ lock' = None
    /\ AfterStop(c)
    /\ UNCHANGED <<config, liveHz, liveTimeout, inner, tasks, data, calls>>

\* Mutant: the disconnected snapshot is stored and not requested.
StopWithoutRequest(c) ==
    /\ At(c, "stopRequest")
    /\ lock' = None
    /\ AfterStop(c)
    /\ UNCHANGED <<config, liveHz, liveTimeout, inner, tasks, data, calls>>

StopRequest(c) ==
    /\ At(c, "stopRequest")
    /\ slot' = "disconnected"
    /\ lock' = None
    /\ AfterStop(c)
    /\ UNCHANGED <<config, liveHz, liveTimeout, inner, tasks, latest, calls>>

-----------------------------------------------------------------------------
\* start()

StartAlreadyRunning(c) ==
    /\ At(c, "startLock")
    /\ lock = None
    /\ running
    /\ Return(c)
    /\ UNCHANGED <<config, liveHz, liveTimeout, lock, inner, tasks, data, calls>>

\* Mutant: is_running() not asked.
StartLockUnchecked(c) ==
    /\ At(c, "startLock")
    /\ lock = None
    /\ lock' = c
    /\ Goto(c, "startConfig")
    /\ UNCHANGED <<config, liveHz, liveTimeout, inner, tasks, data, calls>>

StartLock(c) ==
    /\ At(c, "startLock")
    /\ lock = None
    /\ ~running
    /\ lock' = c
    /\ Goto(c, "startConfig")
    /\ UNCHANGED <<config, liveHz, liveTimeout, inner, tasks, data, calls>>

\* udp_socket_addr() fails: the call ends before anything is set.
StartBadHost(c) ==
    /\ At(c, "startConfig")
    /\ config.port = NoAddress
    /\ lock' = None
    /\ Return(c)
    /\ UNCHANGED <<config, liveHz, liveTimeout, inner, tasks, data, calls>>

StartReadConfig(c) ==
    /\ At(c, "startConfig")
    /\ config.port # NoAddress
    /\ op' = [op EXCEPT ![c].pc = "startTimeout", ![c].cfg = config]
    /\ UNCHANGED <<config, liveHz, liveTimeout, lock, inner, tasks, data, calls>>

StartSetTimeout(c) ==
    /\ At(c, "startTimeout")
    /\ liveTimeout' = op[c].cfg.live
    /\ Goto(c, "startHz")
    /\ UNCHANGED <<config, liveHz, lock, inner, tasks, data, calls>>

StartSetHz(c) ==
    /\ At(c, "startHz")
    /\ liveHz' = op[c].cfg.live
    /\ Goto(c, "startBind")
    /\ UNCHANGED <<config, liveTimeout, lock, inner, tasks, data, calls>>

\* A port is free unless a receiver of this program still has it.
PortFree(port) == \A b \in bound : b[2] # port

\* Bind, spawn the tasks and fill in RuntimeInner.
StartSpawn(c) ==
    LET cfg == op[c].cfg
        next == generation + 1
    IN  /\ At(c, "startBind")
        /\ PortFree(cfg.port)
        /\ generation' = next
        /\ bound' = bound \cup {<<next, cfg.port>>}
        /\ live' = live \cup {<<kind, next>> : kind \in Kinds(cfg)}
        /\ running' = TRUE
        /\ active' = cfg
        /\ lock' = None
        /\ Return(c)
        /\ UNCHANGED <<config, liveHz, liveTimeout, signalled, busy, data, calls>>

\* The error is returned, and the runtime stays stopped.
StartBindFails(c) ==
    /\ At(c, "startBind")
    /\ op[c].cfg.port \in BusyPorts \/ ~PortFree(op[c].cfg.port)
    /\ lock' = None
    /\ Return(c)
    /\ UNCHANGED <<config, liveHz, liveTimeout, inner, tasks, data, calls>>

-----------------------------------------------------------------------------
\* The handler's future is dropped at one of its awaits; the mutex guard and
\* the join handles are dropped with it, the tasks are not.
Cancel(c) ==
    /\ MayCancel
    /\ op[c].pc \in {"stopLock", "stopAwait", "stopMark", "startLock",
                     "startConfig"}
    /\ lock' = IF lock = c THEN None ELSE lock
    /\ Return(c)
    /\ UNCHANGED <<config, liveHz, liveTimeout, inner, tasks, data, calls>>

-----------------------------------------------------------------------------
\* The tasks.  Each loops over a select! between the stop channel and its work;
\* once it has begun to work it finishes before it looks at the channel again.

\* The receiver and the mock update the store, the heartbeat finds the snapshot
\* too old; then each requests a broadcast.
TaskWorks(kind, g) ==
    /\ <<kind, g>> \in live \ busy
    /\ IF kind = "heartbeat"
       THEN latest # "none" /\ UNCHANGED latest
       ELSE latest' = "connected"
    /\ busy' = busy \cup {<<kind, g>>}
    /\ UNCHANGED <<config, liveHz, liveTimeout, lock, inner, signalled, live,
                   bound, slot, op, calls>>

TaskRequests(kind, g) ==
    /\ <<kind, g>> \in busy
    /\ slot' = IF kind = "heartbeat" THEN "disconnected" ELSE "connected"
    /\ busy' = busy \ {<<kind, g>>}
    /\ UNCHANGED <<config, liveHz, liveTimeout, lock, inner, signalled, live,
                   bound, latest, op, calls>>

\* Mutant: something else keeps the socket.
TaskEndsKeepingPort(kind, g) ==
    /\ <<kind, g>> \in live \ busy
    /\ live' = live \ {<<kind, g>>}
    /\ UNCHANGED <<config, liveHz, liveTimeout, lock, inner, signalled, bound,
                   busy, data, op, calls>>

\* A task ends; with the receiver goes its socket.
TaskEnds(kind, g) ==
    /\ <<kind, g>> \in live \ busy
    /\ live' = live \ {<<kind, g>>}
    /\ bound' = IF kind = "udp" THEN {b \in bound : b[1] # g} ELSE bound
    /\ UNCHANGED <<config, liveHz, liveTimeout, lock, inner, signalled, busy,
                   data, op, calls>>

\* Mutant: the mock does not look at the stop channel.
TaskStopsUnlessMock(kind, g) ==
    kind # "mock" /\ g \in signalled /\ TaskEnds(kind, g)

TaskStops(kind, g) == g \in signalled /\ TaskEnds(kind, g)

\* recv_from failed: the receiver is gone and nobody is told.
SocketError(g) == MaySocketError /\ TaskEnds("udp", g)

-----------------------------------------------------------------------------
\* PUT /api/config, seen from here: the configuration, the rate and the timeout
\* are written one after the other.  RuntimeControl has the handler itself.

SaveConfig ==
    /\ config' \in Configs
    /\ config'.port # NoAddress
    /\ op' = [c \in Callers |->
                 IF At(c, "idle") THEN op[c]
                 ELSE [op[c] EXCEPT !.seen = @ \cup {config'}]]
    /\ UNCHANGED <<liveHz, liveTimeout, lock, inner, tasks, data, calls>>

ApplyHz ==
    /\ liveHz' \in {cfg.live : cfg \in Configs}
    /\ UNCHANGED <<config, liveTimeout, lock, inner, tasks, data, op, calls>>

ApplyTimeout ==
    /\ liveTimeout' \in {cfg.live : cfg \in Configs}
    /\ UNCHANGED <<config, liveHz, lock, inner, tasks, data, op, calls>>

-----------------------------------------------------------------------------
StopStep(c) == StopNotRunning(c) \/ StopSignal(c) \/ StopTasksEnded(c)
                 \/ StopMark(c) \/ StopNothingToMark(c) \/ StopRequest(c)

StartStep(c) == StartAlreadyRunning(c) \/ StartLock(c) \/ StartBadHost(c)
                  \/ StartReadConfig(c) \/ StartSetTimeout(c) \/ StartSetHz(c)
                  \/ StartSpawn(c) \/ StartBindFails(c)

CallStep(c) ==
    \/ \E goal \in {"start", "stop", "restart"} : Call(c, goal)
    \/ StopStep(c)
    \/ StartStep(c)
    \/ Cancel(c)

TaskStep(kind, g) ==
    \/ TaskWorks(kind, g)
    \/ TaskRequests(kind, g)
    \/ TaskStops(kind, g)

RuntimeNext ==
    \/ \E c \in Callers : CallStep(c)
    \/ \E task \in live : TaskStep(task[1], task[2])
    \/ \E task \in live : SocketError(task[2])

Next == RuntimeNext \/ SaveConfig \/ ApplyHz \/ ApplyTimeout

Spec == Init /\ [][Next]_vars

\* The mutex is fair (first come, first served); select! polls its branches in
\* random order, so a receiver that always has a packet still sees the stop.
\* Calls and stopping tasks take finitely many steps, so one strong fairness
\* for all of them is one for each.
Fairness ==
    /\ SF_vars(\E c \in Callers : StopStep(c) \/ StartStep(c))
    /\ SF_vars(\E task \in live : TaskStops(task[1], task[2]))
    /\ \A kind \in {"udp", "heartbeat", "mock"}, g \in 1 .. MaxCalls :
          WF_vars(TaskRequests(kind, g))

FairSpec == Spec /\ Fairness

-----------------------------------------------------------------------------
(***************************************************************************)
(* Properties                                                               *)
(***************************************************************************)

TaskKinds == {"udp", "heartbeat", "mock"}
Generations == 1 .. generation

Goals == {"start", "stop", "restart"}
Points == {"idle", "stopLock", "stopAwait", "stopMark", "stopRequest",
           "startLock", "startConfig", "startTimeout", "startHz", "startBind"}
Ops == [pc : Points, goal : Goals, cfg : Configs \cup {None},
        seen : SUBSET Configs]

\* Type invariant: tasks belong to a generation that was started, a task at
\* work is alive, and a port is bound as long as its receiver lives.
TypeOK ==
    /\ config \in Configs
    /\ liveHz \in {cfg.live : cfg \in Configs}
    /\ liveTimeout \in {cfg.live : cfg \in Configs}
    /\ lock \in Callers \cup {None}
    /\ running \in BOOLEAN
    /\ active \in Configs \cup {None}
    /\ generation \in Nat
    /\ signalled \subseteq Generations
    /\ live \subseteq TaskKinds \X Generations
    /\ busy \subseteq live
    /\ \A b \in bound : <<"udp", b[1]>> \in live
    /\ latest \in {"none", "connected", "disconnected"}
    /\ slot \in {"none", "connected", "disconnected"}
    /\ op \in [Callers -> Ops]
    /\ calls \in Nat

\* recv_from may end the receiver: nothing else does while the runtime runs.
Unreliable == IF MaySocketError THEN {"udp"} ELSE {}

\* A runtime that calls itself running (is_running) has every task of its
\* configuration alive, its receiver on the configured port, and none of them
\* told to stop, even when callers are dropped half-way.  A receiver that
\* recv_from has ended is not missed.
RunningMeansServing ==
    running =>
        /\ active # None
        /\ (Kinds(active) \ Unreliable) \X {generation} \subseteq live
        /\ <<"udp", generation>> \in live => <<generation, active.port>> \in bound
        /\ generation \notin signalled

\* Unless a caller is dropped half-way, the last snapshot stop() leaves in the
\* request channel says "disconnected": no task requests another one after it.
StopIsAnnounced ==
    ~running /\ lock = None =>
        latest # "connected" /\ (latest = "none" \/ slot = "disconnected")

\* A task whose stop channel nobody holds any more was told to stop: a stop or a
\* restart that is dropped at any await, and a start after it, leak no task that
\* would work, and keep its port, for ever.
NoTaskLeaks ==
    \A task \in live : task[2] \in signalled \/ (running /\ task[2] = generation)

\* Points of stop() between the signal and the return.
Stopping == {"stopAwait", "stopMark", "stopRequest"}

Service == INSTANCE TelemetryService WITH
    serving <- active,
    ending <- \E c \in Callers : op[c].pc \in Stopping,
    workers <- {task[1] : task \in live},
    listening <- {b[2] : b \in bound},
    told <- slot,
    MayLoseReceiver <- MaySocketError

\* Unless a caller is dropped half-way, the manager is one service that is begun
\* and ended as a whole, whatever the order of the callers' steps: receivers
\* never overlap, no task outlives the stop, and clients hear nothing from a
\* stopped runtime but that it has stopped.
ImplementsService == Service!Spec

\* README-WINDOWS.md: POST /api/runtime/restart restarts the runtime with the
\* saved settings.  A restart that succeeds, even one that finds another
\* caller's start ahead of it, leaves a runtime whose configuration was in force
\* at some time since the restart was called.
RestartServesSaved ==
    [][\A c \in Callers :
          op[c].goal = "restart" /\ (StartAlreadyRunning(c) \/ StartSpawn(c))
            => active' \in op[c].seen]_vars

\* Every start, stop and restart returns: nobody waits for ever on the mutex or
\* on a task.
EveryCallReturns == \A c \in Callers : op[c].pc # "idle" ~> op[c].pc = "idle"

\* The tasks of a stopped generation end and let go of the port, even when the
\* stop() that signalled them was dropped and nobody awaits them.
SignalledTasksEnd ==
    \A g \in 1 .. MaxCalls :
        g \in signalled ~> \A task \in live : task[2] # g
=============================================================================
