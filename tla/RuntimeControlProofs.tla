------------------------ MODULE RuntimeControlProofs ------------------------
(***************************************************************************)
(* Proofs about RuntimeControl: it is one environment of TelemetryRuntime,  *)
(* whose theorems therefore hold in it; what pages are told of outdated     *)
(* settings; and when the settings saved are the ones in force.  The last   *)
(* two hold of requests that do not overlap, which is all they need.        *)
(***************************************************************************)
EXTENDS RuntimeControl, TelemetryRuntimeProofs

USE SavesAssumption, NoneAssumption

-----------------------------------------------------------------------------
(***************************************************************************)
(* The composition                                                          *)
(***************************************************************************)

\* The handler's writes are the ones TelemetryRuntime allows its environment.
LEMMA ControlStepImplements == [ControlNext]_controlVars => [Next]_vars
<1> SUFFICES ASSUME [ControlNext]_controlVars PROVE [Next]_vars
  OBVIOUS
<1>1. CASE UNCHANGED controlVars
  BY <1>1 DEF controlVars
<1>2. CASE RuntimeStep
  BY <1>2 DEF RuntimeStep, Next
<1>3. ASSUME NEW b \in Browsers, PutStep(b) PROVE [Next]_vars
  BY <1>3 DEF PutStep, PutSavesFile, PutSaveFails, PutDropped,
              PutReplacesConfig, PutSetsHz, PutSetsTimeout, Next
<1>4. ASSUME NEW b \in Browsers, NEW new \in Configs, PutReadsOld(b, new)
      PROVE  [Next]_vars
  BY <1>4 DEF PutReadsOld
<1>5. QED
  BY <1>1, <1>2, <1>3, <1>4 DEF ControlNext

\* PUT /api/config beside the runtime manager is a behaviour of TelemetryRuntime,
\* so every theorem about that module holds of the composition.
THEOREM ControlImplementsRuntime == ControlSpec => Spec
<1>1. ControlInit => Init
  BY DEF ControlInit
<1>2. QED
  BY <1>1, ControlStepImplements, PTL DEF ControlSpec, Spec

\* Beside PUT /api/config, too, the manager is one service that begins and ends
\* as a whole.
THEOREM ControlIsAService ==
    ASSUME ~MayCancel PROVE ControlSpec => ImplementsService
  BY ControlImplementsRuntime, RuntimeIsAService, PTL

LEMMA TypeInvInControl == ControlSpec => []TypeInv
  BY ControlImplementsRuntime, TypeInvAlways, PTL

-----------------------------------------------------------------------------
(***************************************************************************)
(* Typing                                                                   *)
(***************************************************************************)
Puts == {IdlePut} \cup
          [pc : {"save", "write", "hz", "timeout"}, old : Configs, new : Configs]

HandlerOK ==
    /\ put \in [Browsers -> Puts]
    /\ saves \in Nat
    /\ owed \in BOOLEAN

\* The browser b goes on with its PUT.
LEMMA PutGotoMoves ==
    ASSUME HandlerOK, NEW b \in Browsers, put[b].pc # "idle",
           NEW pc \in {"save", "write", "hz", "timeout"}, PutGoto(b, pc)
    PROVE  /\ put' \in [Browsers -> Puts]
           /\ put'[b].pc = pc /\ put'[b].old = put[b].old
           /\ put'[b].new = put[b].new
           /\ \A a \in Browsers \ {b} : put'[a] = put[a]
<1>1. put[b] \in [pc : {"save", "write", "hz", "timeout"},
                  old : Configs, new : Configs]
  BY DEF HandlerOK, Puts, IdlePut
<1>2. put' = [put EXCEPT ![b] = [put[b] EXCEPT !.pc = pc]]
  BY DEF PutGoto, HandlerOK
<1>3. [put[b] EXCEPT !.pc = pc] \in Puts
  BY <1>1 DEF Puts
<1>4. put'[b] = [put[b] EXCEPT !.pc = pc]
  BY <1>2 DEF HandlerOK
<1>5. QED
  BY <1>1, <1>2, <1>3, <1>4 DEF HandlerOK

LEMMA HandlerOKNext ==
    TypeInv /\ HandlerOK /\ [ControlNext]_controlVars => HandlerOK'
<1> SUFFICES ASSUME TypeInv, HandlerOK, [ControlNext]_controlVars
             PROVE  HandlerOK'
  OBVIOUS
<1>1. CASE UNCHANGED controlVars
  BY <1>1 DEF controlVars, HandlerOK
<1>2. CASE RuntimeStep
  BY <1>2 DEF RuntimeStep, HandlerOK
<1>3. ASSUME NEW b \in Browsers, NEW new \in Configs, PutReadsOld(b, new)
      PROVE  HandlerOK'
  BY <1>3 DEF PutReadsOld, HandlerOK, Puts, TypeInv, TypeOK
<1>4. ASSUME NEW b \in Browsers, PutStep(b) PROVE HandlerOK'
  <2>1. CASE PutSavesFile(b)
    <3>1. put[b].new \in Configs
      BY <2>1 DEF PutSavesFile, HandlerOK, Puts, IdlePut
    <3>2. QED
      BY <2>1, <3>1, PutGotoMoves DEF PutSavesFile, HandlerOK
  <2>2. CASE PutReplacesConfig(b) \/ PutSetsHz(b)
    BY <2>2, PutGotoMoves DEF PutReplacesConfig, PutSetsHz, HandlerOK
  <2>3. CASE PutSaveFails(b) \/ PutDropped(b) \/ PutSetsTimeout(b)
    BY <2>3 DEF PutSaveFails, PutDropped, PutSetsTimeout, HandlerOK, Puts
  <2>4. QED
    BY <1>4, <2>1, <2>2, <2>3 DEF PutStep
<1>5. QED
  BY <1>1, <1>2, <1>3, <1>4 DEF ControlNext

LEMMA HandlerAlways == ControlSpec => [](TypeInv /\ HandlerOK)
<1>1. ControlInit => HandlerOK
  <2> SUFFICES ASSUME ControlInit PROVE HandlerOK
    OBVIOUS
  <2>1. IdlePut \in Puts
    BY DEF Puts
  <2>2. put \in [Browsers -> Puts]
    BY <2>1 DEF ControlInit
  <2>3. QED
    BY <2>2 DEF ControlInit, Init, HandlerOK
<1>2. QED
  BY <1>1, TypeInvInControl, HandlerOKNext, PTL DEF ControlSpec

\* The handler and the runtime keep their types together, with any number of
\* pages saving.
THEOREM ControlTypeCorrect == ControlSpec => []ControlTypeOK
<1>1. TypeInv /\ HandlerOK => ControlTypeOK
  BY DEF TypeInv, HandlerOK, Puts, ControlTypeOK
<1>2. QED
  BY <1>1, HandlerAlways, PTL

-----------------------------------------------------------------------------
(***************************************************************************)
(* Requests that do not overlap                                             *)
(***************************************************************************)

\* At most one request is between reading the old configuration and replacing
\* it.  So it is when one page saves; and when any number of them do, one at a
\* time.
ComparesAlone ==
    \A a, b \in Browsers :
        put[a].pc \in {"save", "write"} /\ put[b].pc \in {"save", "write"} => a = b

\* Nobody else replaces the configuration the handler has read.
PutInv ==
    \A b \in Browsers : put[b].pc \in {"save", "write"} => put[b].old = config

LEMMA RuntimeStepKeepsConfig == RuntimeNext => config' = config
  BY DEF RuntimeNext, CallStep, StopStep, StartStep, TaskStep, Call,
         StopNotRunning, StopSignal, StopTasksEnded, StopMark,
         StopNothingToMark, StopRequest, StartAlreadyRunning, StartLock,
         StartReadConfig, StartSetTimeout, StartSetHz, StartSpawn,
         StartBadHost, StartBindFails, Cancel, TaskWorks, TaskRequests, TaskStops,
         SocketError, TaskEnds

\* What a request does to the progress of all of them.
LEMMA PutStepMoves ==
    ASSUME HandlerOK, NEW b \in Browsers, PutStep(b)
    PROVE  /\ \A a \in Browsers \ {b} : put'[a] = put[a]
           /\ \/ put'[b].pc = "idle"
              \/ put'[b].old = put[b].old /\ put'[b].new = put[b].new
<1>1. CASE PutSavesFile(b) \/ PutReplacesConfig(b) \/ PutSetsHz(b)
  BY <1>1, PutGotoMoves DEF PutSavesFile, PutReplacesConfig, PutSetsHz
<1>2. CASE PutSaveFails(b) \/ PutDropped(b) \/ PutSetsTimeout(b)
  BY <1>2 DEF PutSaveFails, PutDropped, PutSetsTimeout, HandlerOK, IdlePut
<1>3. QED
  BY <1>1, <1>2 DEF PutStep

LEMMA PutInvNext ==
    HandlerOK /\ ComparesAlone /\ PutInv /\ [ControlNext]_controlVars => PutInv'
<1> SUFFICES ASSUME HandlerOK, ComparesAlone, PutInv, [ControlNext]_controlVars
             PROVE  PutInv'
  OBVIOUS
<1>1. CASE UNCHANGED controlVars
  BY <1>1 DEF controlVars, vars, PutInv
<1>2. CASE RuntimeStep
  BY <1>2, RuntimeStepKeepsConfig DEF RuntimeStep, PutInv
<1>3. ASSUME NEW b \in Browsers, NEW new \in Configs, PutReadsOld(b, new)
      PROVE  PutInv'
  <2>1. /\ put' = [put EXCEPT ![b] = [pc |-> "save", old |-> config, new |-> new]]
        /\ UNCHANGED config
    BY <1>3 DEF PutReadsOld, vars
  <2>2. put'[b].old = config /\ \A a \in Browsers \ {b} : put'[a] = put[a]
    BY <2>1 DEF HandlerOK
  <2>3. QED
    BY <2>1, <2>2 DEF PutInv
<1>4. ASSUME NEW b \in Browsers, PutStep(b) PROVE PutInv'
  <2>1. CASE PutReplacesConfig(b)
    <3>1. put'[b].pc = "hz" /\ \A a \in Browsers \ {b} : put'[a] = put[a]
      BY <2>1, PutGotoMoves DEF PutReplacesConfig
    <3>2. \A a \in Browsers \ {b} : put[a].pc \notin {"save", "write"}
      BY <2>1 DEF PutReplacesConfig, ComparesAlone
    <3>3. QED
      BY <3>1, <3>2 DEF PutInv
  <2>2. CASE PutSavesFile(b) \/ PutSaveFails(b) \/ PutDropped(b)
    <3>1. put[b].pc \in {"save", "write"} /\ config' = config
      BY <2>2 DEF PutSavesFile, PutSaveFails, PutDropped, vars
    <3>2. QED
      BY <1>4, <3>1, PutStepMoves DEF PutInv
  <2>3. CASE PutSetsHz(b) \/ PutSetsTimeout(b)
    <3>1. put'[b].pc \in {"timeout", "idle"} /\ config' = config
      BY <2>3, PutGotoMoves
         DEF PutSetsHz, PutSetsTimeout, ApplyHz, ApplyTimeout, HandlerOK, IdlePut
    <3>2. QED
      BY <1>4, <3>1, PutStepMoves DEF PutInv
  <2>4. QED
    BY <1>4, <2>1, <2>2, <2>3 DEF PutStep
<1>5. QED
  BY <1>1, <1>2, <1>3, <1>4 DEF ControlNext

LEMMA PutInvAlways ==
    ControlSpec /\ []ComparesAlone => [](TypeInv /\ HandlerOK /\ PutInv)
<1>1. ControlInit => PutInv
  BY DEF ControlInit, PutInv, IdlePut
<1>2. QED
  BY <1>1, HandlerAlways, PutInvNext, PTL DEF ControlSpec

-----------------------------------------------------------------------------
(***************************************************************************)
(* What the page is told                                                    *)
(***************************************************************************)

\* A runtime that is out of date, and a start() that is about to make one, were
\* reported to the page.
OwedInv ==
    /\ running /\ RequiresTelemetryRestart(active, config) => owed
    /\ \A c \in Callers :
          op[c].pc \in Copied /\ RequiresTelemetryRestart(op[c].cfg, config)
            => owed

OwedSettled == owed' = (owed /\ ~\E c \in Callers : At(c, "startConfig")
                                                      /\ op'[c].pc = "startTimeout")

\* A caller that does not read the configuration, nor starts anything.
LEMMA OwedInvElsewhere ==
    ASSUME OwedInv, OwedSettled, NEW c \in Callers, OthersStay(c),
           op'[c].pc = "startTimeout" => op[c].pc # "startConfig",
           op'[c].pc \in Copied => op[c].pc \in Copied /\ op'[c].cfg = op[c].cfg,
           running' => running /\ active' = active, config' = config
    PROVE  OwedInv'
<1>1. owed => owed'
  BY DEF OwedSettled, OwedInv, OthersStay, At
<1>2. QED
  BY <1>1 DEF OwedInv, OthersStay

LEMMA CallerStepOwedInv ==
    ASSUME TypeInv, OwedInv, OwedSettled, NEW c \in Callers, CallStep(c)
    PROVE  OwedInv'
<1>0. TypeOK /\ MutexInv /\ LockedInv
  BY DEF TypeInv
<1> USE <1>0
<1> USE DEF inner, tasks, data
<1>1. ASSUME NEW goal \in Goals, Call(c, goal) PROVE OwedInv'
  <2>1. /\ OthersStay(c)
        /\ op'[c].pc \in {"startLock", "stopLock"}
        /\ UNCHANGED <<config, running, active>>
    BY <1>1 DEF Call, TypeOK, OthersStay
  <2>2. QED
    BY <2>1, OwedInvElsewhere DEF Copied
<1>2. CASE StopNotRunning(c) \/ StopNothingToMark(c) \/ StopRequest(c)
  <2>1. AfterStop(c) /\ UNCHANGED <<config, running, active>>
    BY <1>2 DEF StopNotRunning, StopNothingToMark, StopRequest
  <2>2. OthersStay(c) /\ op'[c].pc \in {"idle", "startLock"}
    BY <2>1, AfterStopMoves DEF MovesTo, Returns, IdleOp
  <2>3. QED
    BY <2>1, <2>2, OwedInvElsewhere DEF Copied
<1>3. CASE StopSignal(c) \/ StopMark(c) \/ StartLock(c)
  <2>1. \E pc \in {"stopAwait", "stopRequest", "startConfig"} : MovesTo(c, pc)
    BY <1>3, GotoMoves DEF StopSignal, StopMark, StartLock, Points
  <2>2. UNCHANGED <<config, active>> /\ (running' => running)
    BY <1>3 DEF StopSignal, StopMark, StartLock
  <2>3. QED
    BY <2>1, <2>2, OwedInvElsewhere DEF Copied, MovesTo
<1>4. CASE StopTasksEnded(c)
  <2>1. MovesTo(c, "stopMark") /\ op[c].pc = "stopAwait"
    BY <1>4, GotoMoves DEF StopTasksEnded, At, Points
  <2>2. ~running' /\ config' = config
    BY <1>4, <2>1 DEF StopTasksEnded, MutexInv, LockedInv, Holding
  <2>3. QED
    BY <2>1, <2>2, OwedInvElsewhere DEF Copied, MovesTo
<1>5. CASE StartAlreadyRunning(c) \/ StartBadHost(c) \/ StartBindFails(c) \/ Cancel(c)
  <2>1. Returns(c) /\ UNCHANGED <<config, active, running>>
    BY <1>5, ReturnReturns DEF StartAlreadyRunning, StartBadHost, StartBindFails, Cancel
  <2>2. QED
    BY <2>1, OwedInvElsewhere DEF Copied, Returns, IdleOp
<1>6. CASE StartSetTimeout(c) \/ StartSetHz(c)
  <2>1. /\ \E pc \in {"startHz", "startBind"} : MovesTo(c, pc)
        /\ op[c].pc \in Copied
        /\ UNCHANGED <<config, active, running>>
    BY <1>6, GotoMoves DEF StartSetTimeout, StartSetHz, At, Points, Copied
  <2>2. QED
    BY <2>1, OwedInvElsewhere DEF MovesTo
<1>7. CASE StartReadConfig(c)
  <2>1. op[c] \in Ops /\ op[c].pc = "startConfig"
    BY <1>7 DEF StartReadConfig, At, TypeOK
  <2>2. op'[c] = [op[c] EXCEPT !.pc = "startTimeout", !.cfg = config]
    BY <1>7 DEF StartReadConfig, TypeOK
  <2>3. op'[c].cfg = config /\ OthersStay(c)
    BY <1>7, <2>1, <2>2 DEF StartReadConfig, TypeOK, OthersStay, Ops
  <2>4. lock = c /\ ~running
    BY <2>1 DEF MutexInv, LockedInv, Holding
  <2>5. \A d \in Callers \ {c} : op'[d].pc \notin Copied
    BY <2>1, <2>3, <2>4, OneHolder DEF Holding, Copied, OthersStay
  <2>6. UNCHANGED <<config, running>>
    BY <1>7 DEF StartReadConfig
  <2>7. QED
    BY <2>3, <2>4, <2>5, <2>6 DEF OwedInv, RequiresTelemetryRestart
<1>8. CASE StartSpawn(c)
  <2>1. Returns(c) /\ op[c].pc = "startBind"
    BY <1>8, ReturnReturns DEF StartSpawn, At
  <2>2. active' = op[c].cfg /\ config' = config
    BY <1>8 DEF StartSpawn
  <2>3. owed => owed'
    BY <2>1 DEF OwedSettled, OwedInv, Returns, OthersStay, IdleOp, At
  <2>4. QED
    BY <2>1, <2>2, <2>3
       DEF OwedInv, Returns, OthersStay, IdleOp, Copied
<1>9. QED
  BY <1>1, <1>2, <1>3, <1>4, <1>5, <1>6, <1>7, <1>8
     DEF CallStep, StopStep, StartStep, Goals

\* The handler compares its two configurations while the old one is in force:
\* whatever agreed with it agrees with the new one, or the page is told.
LEMMA PutReplacesOwedInv ==
    ASSUME TypeInv, HandlerOK, PutInv, OwedInv, NEW b \in Browsers,
           PutReplacesConfig(b)
    PROVE  OwedInv'
<1>1. /\ put[b].old = config /\ config' = put[b].new
      /\ owed' = (owed \/ RequiresTelemetryRestart(config, config'))
      /\ UNCHANGED <<running, active>>
  BY DEF PutReplacesConfig, PutInv, SaveConfig, inner
<1>2. \A c \in Callers : op'[c].pc = op[c].pc /\ op'[c].cfg = op[c].cfg
  BY SaveConfigKeeps DEF PutReplacesConfig, TypeInv
<1>3. QED
  BY <1>1, <1>2 DEF OwedInv, RequiresTelemetryRestart

LEMMA OwedInvNext ==
    TypeInv /\ HandlerOK /\ PutInv /\ OwedInv /\ [ControlNext]_controlVars
      => OwedInv'
<1> SUFFICES ASSUME TypeInv, HandlerOK, PutInv, OwedInv, [ControlNext]_controlVars
             PROVE  OwedInv'
  OBVIOUS
<1>1. CASE UNCHANGED <<vars, owed>>
  BY <1>1 DEF vars, inner, OwedInv
<1>2. CASE RuntimeStep
  <2>1. OwedSettled
    BY <1>2 DEF RuntimeStep, OwedSettled
  <2>2. ASSUME UNCHANGED <<config, running, active, op>> PROVE OwedInv'
    BY <2>1, <2>2 DEF OwedSettled, OwedInv, At
  <2>3. QED
    BY <1>2, <2>1, <2>2, CallerStepOwedInv
       DEF RuntimeStep, RuntimeNext, TaskStep, TaskWorks, TaskRequests,
           TaskStops, SocketError, TaskEnds, inner
<1>3. ASSUME NEW b \in Browsers, PutSetsHz(b) \/ PutSetsTimeout(b) PROVE OwedInv'
  BY <1>3 DEF PutSetsHz, PutSetsTimeout, ApplyHz, ApplyTimeout, inner, OwedInv
<1>4. QED
  BY <1>1, <1>2, <1>3, PutReplacesOwedInv
     DEF ControlNext, PutStep, PutReadsOld, PutSavesFile, PutSaveFails,
         PutDropped, controlVars

\* Unless two requests compare configurations at the same time, a page that saved
\* settings a running receiver, or one about to run, does not follow was told to
\* restart the telemetry, and nothing but a start that reads the configuration
\* settles it.
THEOREM OutdatedIsReported ==
    ControlSpec /\ []ComparesAlone => []OutdatedRuntimeIsReported
<1>1. ControlInit => OwedInv
  BY DEF ControlInit, Init, OwedInv, IdleOp, Copied
<1>2. OwedInv => OutdatedRuntimeIsReported
  BY DEF OwedInv, OutdatedRuntimeIsReported, RequiresTelemetryRestart
<1>3. QED
  BY <1>1, <1>2, PutInvAlways, OwedInvNext, PTL DEF ControlSpec

-----------------------------------------------------------------------------
(***************************************************************************)
(* What is in force                                                         *)
(***************************************************************************)

\* Somebody has a configuration whose rate or timeout is still to be set.
Applying ==
    \/ \E b \in Browsers : put[b].pc \in {"hz", "timeout"}
    \/ \E c \in Callers : op[c].pc \in {"startTimeout", "startHz"}

\* Who is applying a configuration applies the one in force, and the rate and
\* the timeout are those in force or about to be.
ApplyInv ==
    /\ \A b \in Browsers : put[b].pc \in {"hz", "timeout"} => put[b].new = config
    /\ \A c \in Callers :
          op[c].pc \in {"startTimeout", "startHz"} => op[c].cfg = config
    /\ liveHz = config.live \/ \E b \in Browsers : put[b].pc = "hz"
    /\ \/ liveTimeout = config.live
       \/ \E b \in Browsers : put[b].pc \in {"hz", "timeout"}

LEMMA CallerStepApplyInv ==
    ASSUME TypeInv, ApplyInv, NEW c \in Callers, CallStep(c), UNCHANGED put
    PROVE  ApplyInv'
<1>0. TypeOK /\ config' = config
  BY RuntimeStepKeepsConfig DEF TypeInv, RuntimeNext
<1> USE <1>0
<1> USE DEF inner, tasks, data
<1>1. CASE StartReadConfig(c)
  <2>1. op[c] \in Ops
    BY DEF TypeOK
  <2>2. op'[c] = [op[c] EXCEPT !.pc = "startTimeout", !.cfg = config]
    BY <1>1 DEF StartReadConfig, TypeOK
  <2>3. op'[c].cfg = config /\ OthersStay(c)
    BY <1>1, <2>1, <2>2 DEF StartReadConfig, TypeOK, OthersStay, Ops
  <2>4. UNCHANGED <<liveHz, liveTimeout>>
    BY <1>1 DEF StartReadConfig
  <2>5. QED
    BY <2>3, <2>4 DEF ApplyInv, OthersStay
<1>2. CASE StartSetTimeout(c)
  <2>1. MovesTo(c, "startHz") /\ op[c].cfg = config
    BY <1>2, GotoMoves DEF StartSetTimeout, At, Points, ApplyInv
  <2>2. liveTimeout' = config.live /\ liveHz' = liveHz
    BY <1>2, <2>1 DEF StartSetTimeout
  <2>3. QED
    BY <2>1, <2>2 DEF ApplyInv, MovesTo, OthersStay
<1>3. CASE StartSetHz(c)
  <2>1. MovesTo(c, "startBind") /\ op[c].cfg = config
    BY <1>3, GotoMoves DEF StartSetHz, At, Points, ApplyInv
  <2>2. liveHz' = config.live /\ liveTimeout' = liveTimeout
    BY <1>3, <2>1 DEF StartSetHz
  <2>3. QED
    BY <2>1, <2>2 DEF ApplyInv, MovesTo, OthersStay
<1>4. ASSUME OthersStay(c), op'[c].pc \notin {"startTimeout", "startHz"},
             UNCHANGED <<liveHz, liveTimeout>>
      PROVE  ApplyInv'
  BY <1>4 DEF ApplyInv, OthersStay
<1>5. ASSUME NEW goal \in Goals, Call(c, goal) PROVE ApplyInv'
  <2>1. op'[c].pc \in {"startLock", "stopLock"} /\ OthersStay(c)
    BY <1>5 DEF Call, TypeOK, OthersStay
  <2>2. QED
    BY <1>4, <1>5, <2>1 DEF Call
<1>6. CASE StopNotRunning(c) \/ StopNothingToMark(c) \/ StopRequest(c)
  <2>1. OthersStay(c) /\ op'[c].pc \in {"idle", "startLock"}
    BY <1>6, AfterStopMoves
       DEF StopNotRunning, StopNothingToMark, StopRequest, MovesTo, Returns, IdleOp
  <2>2. QED
    BY <1>4, <1>6, <2>1 DEF StopNotRunning, StopNothingToMark, StopRequest
<1>7. CASE StopSignal(c) \/ StopTasksEnded(c) \/ StopMark(c) \/ StartLock(c)
  <2>1. \E pc \in {"stopAwait", "stopMark", "stopRequest", "startConfig"} :
            MovesTo(c, pc)
    BY <1>7, GotoMoves DEF StopSignal, StopTasksEnded, StopMark, StartLock, Points
  <2>2. QED
    BY <1>4, <1>7, <2>1
       DEF StopSignal, StopTasksEnded, StopMark, StartLock, MovesTo
<1>8. CASE StartAlreadyRunning(c) \/ StartSpawn(c) \/ StartBadHost(c) \/ StartBindFails(c) \/ Cancel(c)
  <2>1. Returns(c)
    BY <1>8, ReturnReturns
       DEF StartAlreadyRunning, StartSpawn, StartBadHost, StartBindFails, Cancel
  <2>2. QED
    BY <1>4, <1>8, <2>1
       DEF StartAlreadyRunning, StartSpawn, StartBadHost, StartBindFails, Cancel, Returns, IdleOp
<1>9. QED
  BY <1>1, <1>2, <1>3, <1>5, <1>6, <1>7, <1>8
     DEF CallStep, StopStep, StartStep, Goals

LEMMA PutStepApplyInv ==
    ASSUME TypeInv, HandlerOK, ApplyInv, NEW b \in Browsers, PutStep(b),
           config' # config => ~Applying
    PROVE  ApplyInv'
<1>0. \A a \in Browsers \ {b} : put'[a] = put[a]
  BY PutStepMoves
<1>1. CASE PutReplacesConfig(b)
  <2>1. put'[b].pc = "hz" /\ put'[b].new = put[b].new
    BY <1>1, PutGotoMoves DEF PutReplacesConfig
  <2>2. /\ config' = put[b].new /\ UNCHANGED <<liveHz, liveTimeout>>
        /\ \A c \in Callers : op'[c].pc = op[c].pc /\ op'[c].cfg = op[c].cfg
    BY <1>1, SaveConfigKeeps DEF PutReplacesConfig, SaveConfig, TypeInv
  <2>3. ASSUME config' # config PROVE ApplyInv'
    BY <1>0, <2>1, <2>2, <2>3 DEF Applying, ApplyInv
  <2>4. ASSUME config' = config PROVE ApplyInv'
    BY <1>0, <2>1, <2>2, <2>4 DEF ApplyInv
  <2>5. QED
    BY <2>3, <2>4
<1>2. CASE PutSetsHz(b)
  <2>1. /\ put'[b].pc = "timeout" /\ put'[b].new = put[b].new
        /\ put[b].new = config
    BY <1>2, PutGotoMoves DEF PutSetsHz, ApplyInv
  <2>2. liveHz' = config.live /\ UNCHANGED <<config, liveTimeout, op>>
    BY <1>2, <2>1 DEF PutSetsHz, ApplyHz
  <2>3. QED
    BY <1>0, <2>1, <2>2 DEF ApplyInv
<1>3. CASE PutSetsTimeout(b)
  <2>1. put'[b].pc = "idle" /\ put[b].pc = "timeout" /\ put[b].new = config
    BY <1>3 DEF PutSetsTimeout, HandlerOK, IdlePut, ApplyInv
  <2>2. liveTimeout' = config.live /\ UNCHANGED <<config, liveHz, op>>
    BY <1>3, <2>1 DEF PutSetsTimeout, ApplyTimeout
  <2>3. QED
    BY <1>0, <2>1, <2>2 DEF ApplyInv
<1>4. CASE PutSavesFile(b) \/ PutSaveFails(b) \/ PutDropped(b)
  <2>1. /\ put[b].pc \in {"save", "write"} /\ put'[b].pc \in {"write", "idle"}
        /\ UNCHANGED <<config, liveHz, liveTimeout, op>>
    BY <1>4, PutGotoMoves
       DEF PutSavesFile, PutSaveFails, PutDropped, HandlerOK, IdlePut, vars
  <2>2. QED
    BY <1>0, <2>1 DEF ApplyInv
<1>5. QED
  BY <1>1, <1>2, <1>3, <1>4 DEF PutStep

\* "Broadcast Hz" and "Connection Timeout" apply as soon as they are saved, and
\* stay applied, if no save replaces the configuration while a start or another
\* save is applying an older one.
THEOREM SettingsApply ==
    ControlSpec /\ [][config' # config => ~Applying]_controlVars
        => []SettingsApplyAtOnce
<1>1. ControlInit => ApplyInv
  BY DEF ControlInit, Init, ApplyInv, IdlePut, IdleOp
<1>2. TypeInv /\ HandlerOK /\ ApplyInv /\ [ControlNext]_controlVars
        /\ [config' # config => ~Applying]_controlVars => ApplyInv'
  <2> SUFFICES ASSUME TypeInv, HandlerOK, ApplyInv, [ControlNext]_controlVars,
                      [config' # config => ~Applying]_controlVars
               PROVE  ApplyInv'
    OBVIOUS
  <2>1. ASSUME UNCHANGED <<config, liveHz, liveTimeout, op, put>> PROVE ApplyInv'
    BY <2>1 DEF ApplyInv
  <2>2. CASE UNCHANGED controlVars
    BY <2>1, <2>2 DEF controlVars, vars
  <2>3. CASE RuntimeStep
    BY <2>1, <2>3, CallerStepApplyInv
       DEF RuntimeStep, RuntimeNext, TaskStep, TaskWorks, TaskRequests,
           TaskStops, SocketError, TaskEnds
  <2>4. ASSUME NEW b \in Browsers, NEW new \in Configs, PutReadsOld(b, new)
        PROVE  ApplyInv'
    <3>1. /\ put' = [put EXCEPT ![b] = [pc |-> "save", old |-> config, new |-> new]]
          /\ UNCHANGED <<config, liveHz, liveTimeout, op>>
          /\ put[b].pc = "idle"
      BY <2>4 DEF PutReadsOld, vars
    <3>2. put'[b].pc = "save" /\ \A a \in Browsers \ {b} : put'[a] = put[a]
      BY <3>1 DEF HandlerOK
    <3>3. QED
      BY <3>1, <3>2 DEF ApplyInv
  <2>5. ASSUME NEW b \in Browsers, PutStep(b), ~(UNCHANGED controlVars)
        PROVE  ApplyInv'
    BY <2>5, PutStepApplyInv
  <2>6. QED
    BY <2>2, <2>3, <2>4, <2>5 DEF ControlNext
<1>3. ApplyInv => SettingsApplyAtOnce
  BY DEF ApplyInv, SettingsApplyAtOnce, Saving
<1>4. QED
  BY <1>1, <1>2, <1>3, HandlerAlways, PTL DEF ControlSpec
=============================================================================
