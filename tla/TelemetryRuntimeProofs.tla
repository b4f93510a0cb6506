----------------------- MODULE TelemetryRuntimeProofs -----------------------
(***************************************************************************)
(* Proofs about TelemetryRuntime, for all callers, configurations, ports    *)
(* and numbers of calls.  Typing and RunningMeansServing hold whoever is    *)
(* dropped and whatever socket fails; what is said of a stopped runtime     *)
(* assumes that no caller is dropped half-way.                              *)
(***************************************************************************)
EXTENDS TelemetryRuntime, TLAPS

USE ConfigsAssumption, NoneAssumption, BoundsAssumption, SwitchesAssumption

-----------------------------------------------------------------------------
(***************************************************************************)
(* How a caller moves                                                       *)
(***************************************************************************)
OthersStay(c) == \A d \in Callers \ {c} : op'[d] = op[d]

\* Caller c is at another point of the same call.
MovesTo(c, pc) ==
    /\ op' \in [Callers -> Ops]
    /\ op'[c].pc = pc
    /\ op'[c].goal = op[c].goal
    /\ op'[c].cfg = op[c].cfg
    /\ op'[c].seen = op[c].seen
    /\ OthersStay(c)

Returns(c) ==
    /\ op' \in [Callers -> Ops]
    /\ op'[c] = IdleOp
    /\ OthersStay(c)

LEMMA IdleOpType == IdleOp \in Ops
  BY DEF IdleOp, Ops, Points, Goals

LEMMA GotoMoves ==
    ASSUME TypeOK, NEW c \in Callers, NEW pc \in Points, Goto(c, pc)
    PROVE  MovesTo(c, pc)
<1>1. op \in [Callers -> Ops] /\ op' = [op EXCEPT ![c].pc = pc]
  BY DEF TypeOK, Goto
<1>2. [op[c] EXCEPT !.pc = pc] \in Ops
  BY <1>1 DEF Ops
<1>3. op' = [op EXCEPT ![c] = [op[c] EXCEPT !.pc = pc]]
  BY <1>1
<1>4. op' \in [Callers -> Ops] /\ op'[c] = [op[c] EXCEPT !.pc = pc]
  BY <1>1, <1>2, <1>3
<1>5. op[c] \in Ops
  BY <1>1
<1>6. /\ op'[c].pc = pc
      /\ op'[c].goal = op[c].goal
      /\ op'[c].cfg = op[c].cfg
      /\ op'[c].seen = op[c].seen
  BY <1>4, <1>5 DEF Ops
<1>7. QED
  BY <1>1, <1>3, <1>4, <1>6 DEF MovesTo, OthersStay

LEMMA ReturnReturns ==
    ASSUME TypeOK, NEW c \in Callers, Return(c)
    PROVE  Returns(c)
<1>1. op \in [Callers -> Ops] /\ op' = [op EXCEPT ![c] = IdleOp]
  BY DEF TypeOK, Return
<1>2. QED
  BY <1>1, IdleOpType DEF Returns, OthersStay

LEMMA AfterStopMoves ==
    ASSUME TypeOK, NEW c \in Callers, AfterStop(c)
    PROVE  \/ op[c].goal = "restart" /\ MovesTo(c, "startLock")
           \/ Returns(c)
  BY GotoMoves, ReturnReturns DEF AfterStop, Points

-----------------------------------------------------------------------------
(***************************************************************************)
(* The mutex                                                                *)
(***************************************************************************)

\* Points of start() and stop() with the mutex held.
Holding == {"stopAwait", "stopMark", "stopRequest", "startConfig",
            "startTimeout", "startHz", "startBind"}

\* Points of start() that have a copy of the configuration.
Copied == {"startTimeout", "startHz", "startBind"}

MutexInv == \A c \in Callers : op[c].pc \in Holding <=> lock = c

CopyInv == \A c \in Callers : op[c].pc \in Copied => op[c].cfg \in Configs

\* start() and stop() set or leave inner.stop_tx empty while they hold the lock.
LockedInv == lock # None => ~running

TypeInv == TypeOK /\ MutexInv /\ CopyInv /\ LockedInv /\ RunningMeansServing

LEMMA TypeInvInit == Init => TypeInv
<1> SUFFICES ASSUME Init PROVE TypeInv
  OBVIOUS
<1> USE DEF Init
<1>1. op \in [Callers -> Ops]
  BY IdleOpType
<1>2. \A c \in Callers : op[c].pc = "idle"
  BY DEF IdleOp
<1>3. TypeOK
  BY <1>1 DEF TypeOK, TaskKinds, Generations
<1>4. QED
  BY <1>2, <1>3 DEF TypeInv, MutexInv, CopyInv, LockedInv,
                    RunningMeansServing, Holding, Copied

\* What a caller does to the mutex: it takes it when it is free, keeps it, or
\* lets go of it.
LEMMA MutexKept ==
    ASSUME TypeOK, MutexInv, NEW c \in Callers, OthersStay(c),
           op' \in [Callers -> Ops],
           \/ op'[c].pc \in Holding /\ lock \in {None, c} /\ lock' = c
           \/ /\ op'[c].pc \notin Holding
              /\ lock' = IF lock = c THEN None ELSE lock
    PROVE  MutexInv'
  BY DEF MutexInv, OthersStay, TypeOK

\* Something that runs has been started.
LEMMA RunningGeneration ==
    ASSUME TypeOK, RunningMeansServing, running
    PROVE  generation \in Generations
<1>1. "heartbeat" \in Kinds(active) \ Unreliable
  BY DEF Kinds, Unreliable
<1>2. <<"heartbeat", generation>> \in live
  BY <1>1 DEF RunningMeansServing
<1>3. QED
  BY <1>2 DEF TypeOK

LEMMA CallerStepType ==
    ASSUME TypeInv, NEW c \in Callers, CallStep(c)
    PROVE  TypeInv'
<1>0. TypeOK /\ MutexInv /\ CopyInv /\ LockedInv /\ RunningMeansServing
  BY DEF TypeInv
<1> USE <1>0
<1> USE DEF inner, tasks, data
<1>1. CASE \E goal \in {"start", "stop", "restart"} : Call(c, goal)
  <2>1. OthersStay(c) /\ op' \in [Callers -> Ops] /\ op'[c].pc \notin Holding
    BY <1>1 DEF Call, OthersStay, TypeOK, Ops, Points, Goals, Holding
  <2>2. TypeOK'
    BY <1>1, <2>1 DEF Call, At, TypeOK, Generations
  <2>3. MutexInv'
    BY <1>1, <2>1, MutexKept DEF Call, At, MovesTo, MutexInv, Holding
  <2>4. CopyInv'
    BY <1>1, <2>1 DEF Call, At, MovesTo, OthersStay, CopyInv, Copied, Holding, TypeOK
  <2>5. LockedInv' /\ RunningMeansServing'
    BY <1>1, <2>1 DEF Call, At, TypeOK, Generations, MutexInv, Holding, LockedInv, RunningMeansServing
  <2>6. QED
    BY <2>2, <2>3, <2>4, <2>5 DEF TypeInv
<1>2. CASE StopNotRunning(c)
  <2>1. OthersStay(c) /\ op' \in [Callers -> Ops] /\ op'[c].pc \notin Holding
    BY <1>2, AfterStopMoves DEF StopNotRunning, MovesTo, Returns, IdleOp, Holding
  <2>2. TypeOK'
    BY <1>2, <2>1 DEF StopNotRunning, At, TypeOK, Generations
  <2>3. MutexInv'
    BY <1>2, <2>1, MutexKept DEF StopNotRunning, At, MovesTo, MutexInv, Holding
  <2>4. CopyInv'
    BY <1>2, <2>1 DEF StopNotRunning, At, MovesTo, OthersStay, CopyInv, Copied, Holding, TypeOK
  <2>5. LockedInv' /\ RunningMeansServing'
    BY <1>2, <2>1 DEF StopNotRunning, At, TypeOK, Generations, MutexInv, Holding, LockedInv, RunningMeansServing
  <2>6. QED
    BY <2>2, <2>3, <2>4, <2>5 DEF TypeInv
<1>3. CASE StopSignal(c)
  <2>1. MovesTo(c, "stopAwait") /\ OthersStay(c) /\ op' \in [Callers -> Ops]
    BY <1>3, GotoMoves DEF StopSignal, MovesTo, Points
  <2>2. TypeOK'
    BY <1>3, <2>1, RunningGeneration DEF StopSignal, At, TypeOK, Generations
  <2>3. MutexInv'
    BY <1>3, <2>1, MutexKept DEF StopSignal, At, MovesTo, MutexInv, Holding
  <2>4. CopyInv'
    BY <1>3, <2>1 DEF StopSignal, At, MovesTo, OthersStay, CopyInv, Copied, Holding, TypeOK
  <2>5. LockedInv' /\ RunningMeansServing'
    BY <1>3, <2>1 DEF StopSignal, At, TypeOK, Generations, MutexInv, Holding, LockedInv, RunningMeansServing
  <2>6. QED
    BY <2>2, <2>3, <2>4, <2>5 DEF TypeInv
<1>4. CASE StopTasksEnded(c)
  <2>1. MovesTo(c, "stopMark") /\ OthersStay(c) /\ op' \in [Callers -> Ops]
    BY <1>4, GotoMoves DEF StopTasksEnded, MovesTo, Points
  <2>2. TypeOK'
    BY <1>4, <2>1 DEF StopTasksEnded, At, TypeOK, Generations
  <2>3. MutexInv'
    BY <1>4, <2>1, MutexKept DEF StopTasksEnded, At, MovesTo, MutexInv, Holding
  <2>4. CopyInv'
    BY <1>4, <2>1 DEF StopTasksEnded, At, MovesTo, OthersStay, CopyInv, Copied, Holding, TypeOK
  <2>5. LockedInv' /\ RunningMeansServing'
    BY <1>4, <2>1 DEF StopTasksEnded, At, TypeOK, Generations, MutexInv, Holding, LockedInv, RunningMeansServing
  <2>6. QED
    BY <2>2, <2>3, <2>4, <2>5 DEF TypeInv
<1>5. CASE StopMark(c)
  <2>1. MovesTo(c, "stopRequest") /\ OthersStay(c) /\ op' \in [Callers -> Ops]
    BY <1>5, GotoMoves DEF StopMark, MovesTo, Points
  <2>2. TypeOK'
    BY <1>5, <2>1 DEF StopMark, At, TypeOK, Generations
  <2>3. MutexInv'
    BY <1>5, <2>1, MutexKept DEF StopMark, At, MovesTo, MutexInv, Holding
  <2>4. CopyInv'
    BY <1>5, <2>1 DEF StopMark, At, MovesTo, OthersStay, CopyInv, Copied, Holding, TypeOK
  <2>5. LockedInv' /\ RunningMeansServing'
    BY <1>5, <2>1 DEF StopMark, At, TypeOK, Generations, MutexInv, Holding, LockedInv, RunningMeansServing
  <2>6. QED
    BY <2>2, <2>3, <2>4, <2>5 DEF TypeInv
<1>6. CASE StopNothingToMark(c)
  <2>1. OthersStay(c) /\ op' \in [Callers -> Ops] /\ op'[c].pc \notin Holding
    BY <1>6, AfterStopMoves DEF StopNothingToMark, MovesTo, Returns, IdleOp, Holding
  <2>2. TypeOK'
    BY <1>6, <2>1 DEF StopNothingToMark, At, TypeOK, Generations
  <2>3. MutexInv'
    BY <1>6, <2>1, MutexKept DEF StopNothingToMark, At, MovesTo, MutexInv, Holding
  <2>4. CopyInv'
    BY <1>6, <2>1 DEF StopNothingToMark, At, MovesTo, OthersStay, CopyInv, Copied, Holding, TypeOK
  <2>5. LockedInv' /\ RunningMeansServing'
    BY <1>6, <2>1 DEF StopNothingToMark, At, TypeOK, Generations, MutexInv, Holding, LockedInv, RunningMeansServing
  <2>6. QED
    BY <2>2, <2>3, <2>4, <2>5 DEF TypeInv
<1>7. CASE StopRequest(c)
  <2>1. OthersStay(c) /\ op' \in [Callers -> Ops] /\ op'[c].pc \notin Holding
    BY <1>7, AfterStopMoves DEF StopRequest, MovesTo, Returns, IdleOp, Holding
  <2>2. TypeOK'
    BY <1>7, <2>1 DEF StopRequest, At, TypeOK, Generations
  <2>3. MutexInv'
    BY <1>7, <2>1, MutexKept DEF StopRequest, At, MovesTo, MutexInv, Holding
  <2>4. CopyInv'
    BY <1>7, <2>1 DEF StopRequest, At, MovesTo, OthersStay, CopyInv, Copied, Holding, TypeOK
  <2>5. LockedInv' /\ RunningMeansServing'
    BY <1>7, <2>1 DEF StopRequest, At, TypeOK, Generations, MutexInv, Holding, LockedInv, RunningMeansServing
  <2>6. QED
    BY <2>2, <2>3, <2>4, <2>5 DEF TypeInv
<1>8. CASE StartAlreadyRunning(c)
  <2>1. OthersStay(c) /\ op' \in [Callers -> Ops] /\ op'[c].pc \notin Holding
    BY <1>8, ReturnReturns DEF StartAlreadyRunning, Returns, IdleOp, Holding
  <2>2. TypeOK'
    BY <1>8, <2>1 DEF StartAlreadyRunning, At, TypeOK, Generations
  <2>3. MutexInv'
    BY <1>8, <2>1, MutexKept DEF StartAlreadyRunning, At, MovesTo, MutexInv, Holding
  <2>4. CopyInv'
    BY <1>8, <2>1 DEF StartAlreadyRunning, At, MovesTo, OthersStay, CopyInv, Copied, Holding, TypeOK
  <2>5. LockedInv' /\ RunningMeansServing'
    BY <1>8, <2>1 DEF StartAlreadyRunning, At, TypeOK, Generations, MutexInv, Holding, LockedInv, RunningMeansServing
  <2>6. QED
    BY <2>2, <2>3, <2>4, <2>5 DEF TypeInv
<1>9. CASE StartLock(c)
  <2>1. MovesTo(c, "startConfig") /\ OthersStay(c) /\ op' \in [Callers -> Ops]
    BY <1>9, GotoMoves DEF StartLock, MovesTo, Points
  <2>2. TypeOK'
    BY <1>9, <2>1 DEF StartLock, At, TypeOK, Generations
  <2>3. MutexInv'
    BY <1>9, <2>1, MutexKept DEF StartLock, At, MovesTo, MutexInv, Holding
  <2>4. CopyInv'
    BY <1>9, <2>1 DEF StartLock, At, MovesTo, OthersStay, CopyInv, Copied, Holding, TypeOK
  <2>5. LockedInv' /\ RunningMeansServing'
    BY <1>9, <2>1 DEF StartLock, At, TypeOK, Generations, MutexInv, Holding, LockedInv, RunningMeansServing
  <2>6. QED
    BY <2>2, <2>3, <2>4, <2>5 DEF TypeInv
<1>10. CASE StartReadConfig(c)
  <2>1. /\ OthersStay(c) /\ op' \in [Callers -> Ops]
        /\ op'[c].pc = "startTimeout" /\ op'[c].cfg = config
    <3>1. /\ op \in [Callers -> Ops] /\ config \in Configs
          /\ op' = [op EXCEPT ![c] = [op[c] EXCEPT !.pc = "startTimeout",
                                                   !.cfg = config]]
      BY <1>10 DEF StartReadConfig, TypeOK
    <3>2. op[c] \in Ops
      BY <3>1
    <3>3. [op[c] EXCEPT !.pc = "startTimeout", !.cfg = config] \in Ops
      BY <3>1, <3>2 DEF Ops, Points
    <3>4. op'[c] = [op[c] EXCEPT !.pc = "startTimeout", !.cfg = config]
      BY <3>1
    <3>5. op'[c].pc = "startTimeout" /\ op'[c].cfg = config
      BY <3>2, <3>4 DEF Ops
    <3>6. QED
      BY <3>1, <3>3, <3>5 DEF OthersStay
  <2>2. TypeOK'
    BY <1>10, <2>1 DEF StartReadConfig, At, TypeOK, Generations
  <2>3. MutexInv'
    BY <1>10, <2>1, MutexKept DEF StartReadConfig, At, MovesTo, MutexInv, Holding
  <2>4. CopyInv'
    BY <1>10, <2>1 DEF StartReadConfig, At, MovesTo, OthersStay, CopyInv, Copied, Holding, TypeOK
  <2>5. LockedInv' /\ RunningMeansServing'
    BY <1>10, <2>1 DEF StartReadConfig, At, TypeOK, Generations, MutexInv, Holding, LockedInv, RunningMeansServing
  <2>6. QED
    BY <2>2, <2>3, <2>4, <2>5 DEF TypeInv
<1>11. CASE StartSetTimeout(c)
  <2>1. MovesTo(c, "startHz") /\ OthersStay(c) /\ op' \in [Callers -> Ops]
    BY <1>11, GotoMoves DEF StartSetTimeout, MovesTo, Points
  <2>2. TypeOK'
    <3>1. op[c].cfg \in Configs
      BY <1>11 DEF StartSetTimeout, At, CopyInv, Copied
    <3>2. QED
      BY <1>11, <2>1, <3>1 DEF StartSetTimeout, TypeOK, Generations
  <2>3. MutexInv'
    BY <1>11, <2>1, MutexKept DEF StartSetTimeout, At, MovesTo, MutexInv, Holding
  <2>4. CopyInv'
    BY <1>11, <2>1 DEF StartSetTimeout, At, MovesTo, OthersStay, CopyInv, Copied, Holding, TypeOK
  <2>5. LockedInv' /\ RunningMeansServing'
    BY <1>11, <2>1 DEF StartSetTimeout, At, TypeOK, Generations, MutexInv, Holding, LockedInv, RunningMeansServing
  <2>6. QED
    BY <2>2, <2>3, <2>4, <2>5 DEF TypeInv
<1>12. CASE StartSetHz(c)
  <2>1. MovesTo(c, "startBind") /\ OthersStay(c) /\ op' \in [Callers -> Ops]
    BY <1>12, GotoMoves DEF StartSetHz, MovesTo, Points
  <2>2. TypeOK'
    <3>1. op[c].cfg \in Configs
      BY <1>12 DEF StartSetHz, At, CopyInv, Copied
    <3>2. QED
      BY <1>12, <2>1, <3>1 DEF StartSetHz, TypeOK, Generations
  <2>3. MutexInv'
    BY <1>12, <2>1, MutexKept DEF StartSetHz, At, MovesTo, MutexInv, Holding
  <2>4. CopyInv'
    BY <1>12, <2>1 DEF StartSetHz, At, MovesTo, OthersStay, CopyInv, Copied, Holding, TypeOK
  <2>5. LockedInv' /\ RunningMeansServing'
    BY <1>12, <2>1 DEF StartSetHz, At, TypeOK, Generations, MutexInv, Holding, LockedInv, RunningMeansServing
  <2>6. QED
    BY <2>2, <2>3, <2>4, <2>5 DEF TypeInv
<1>13. CASE StartSpawn(c)
  <2>1. OthersStay(c) /\ op' \in [Callers -> Ops] /\ op'[c].pc \notin Holding
    BY <1>13, ReturnReturns DEF StartSpawn, Returns, IdleOp, Holding
  <2> DEFINE cfg == op[c].cfg
             next == generation + 1
             spawned == {<<kind, next>> : kind \in Kinds(cfg)}
  <2>a. /\ cfg \in Configs
        /\ generation' = next /\ next \in Nat \ {0}
        /\ bound' = bound \cup {<<next, cfg.port>>}
        /\ live' = live \cup spawned
        /\ running' = TRUE /\ active' = cfg /\ lock' = None
        /\ UNCHANGED <<config, liveHz, liveTimeout, signalled, busy, latest,
                       slot, calls>>
    BY <1>13 DEF StartSpawn, At, CopyInv, Copied, TypeOK
  <2>b. spawned \subseteq TaskKinds \X Generations'
    BY <2>a DEF Kinds, TaskKinds, Generations
  <2>c. <<"udp", next>> \in spawned
    BY DEF Kinds
  <2>2. TypeOK'
    <3>1. Generations \subseteq Generations'
      BY <2>a DEF Generations, TypeOK
    <3>2. live' \subseteq TaskKinds \X Generations' /\ signalled' \subseteq Generations'
      BY <2>a, <2>b, <3>1 DEF TypeOK
    <3>3. ASSUME NEW b \in bound' PROVE <<"udp", b[1]>> \in live'
      <4>1. CASE b \in bound
        BY <2>a, <4>1 DEF TypeOK
      <4>2. CASE b = <<next, cfg.port>>
        BY <2>a, <2>c, <4>2
      <4>3. QED
        BY <2>a, <4>1, <4>2
    <3>4. QED
      BY <2>1, <2>a, <3>2, <3>3 DEF TypeOK
  <2>3. MutexInv'
    BY <1>13, <2>1, MutexKept DEF StartSpawn, At, MovesTo, MutexInv, Holding
  <2>4. CopyInv'
    BY <1>13, <2>1 DEF StartSpawn, At, MovesTo, OthersStay, CopyInv, Copied, Holding, TypeOK
  <2>5. LockedInv' /\ RunningMeansServing'
    <3>1. Kinds(active') \X {generation'} \subseteq live'
      <4>1. \A kind \in Kinds(cfg) : <<kind, next>> \in live'
        BY <2>a
      <4>2. Kinds(active') = Kinds(cfg) /\ generation' = next
        BY <2>a DEF Kinds
      <4>3. QED
        BY <4>1, <4>2
    <3>2. generation' \notin signalled'
      BY <2>a DEF TypeOK, Generations
    <3>3. <<generation', active'.port>> \in bound' /\ active' # None
      BY <2>a
    <3>4. QED
      BY <2>a, <3>1, <3>2, <3>3 DEF LockedInv, RunningMeansServing, Unreliable
  <2>6. QED
    BY <2>2, <2>3, <2>4, <2>5 DEF TypeInv
<1>14. CASE StartBadHost(c) \/ StartBindFails(c)
  <2>1. OthersStay(c) /\ op' \in [Callers -> Ops] /\ op'[c].pc \notin Holding
    BY <1>14, ReturnReturns DEF StartBadHost, StartBindFails, Returns, IdleOp, Holding
  <2>2. TypeOK'
    BY <1>14, <2>1 DEF StartBadHost, StartBindFails, At, TypeOK, Generations
  <2>3. MutexInv'
    BY <1>14, <2>1, MutexKept DEF StartBadHost, StartBindFails, At, MovesTo, MutexInv, Holding
  <2>4. CopyInv'
    BY <1>14, <2>1 DEF StartBadHost, StartBindFails, At, MovesTo, OthersStay, CopyInv, Copied, Holding, TypeOK
  <2>5. LockedInv' /\ RunningMeansServing'
    BY <1>14, <2>1 DEF StartBadHost, StartBindFails, At, TypeOK, Generations, MutexInv, Holding, LockedInv, RunningMeansServing
  <2>6. QED
    BY <2>2, <2>3, <2>4, <2>5 DEF TypeInv
<1>15. CASE Cancel(c)
  <2>1. OthersStay(c) /\ op' \in [Callers -> Ops] /\ op'[c].pc \notin Holding
    BY <1>15, ReturnReturns DEF Cancel, Returns, IdleOp, Holding
  <2>2. TypeOK'
    BY <1>15, <2>1 DEF Cancel, At, TypeOK, Generations
  <2>3. MutexInv'
    BY <1>15, <2>1, MutexKept DEF Cancel, At, MovesTo, MutexInv, Holding
  <2>4. CopyInv'
    BY <1>15, <2>1 DEF Cancel, At, MovesTo, OthersStay, CopyInv, Copied, Holding, TypeOK
  <2>5. LockedInv' /\ RunningMeansServing'
    BY <1>15, <2>1 DEF Cancel, At, TypeOK, Generations, MutexInv, Holding, LockedInv, RunningMeansServing
  <2>6. QED
    BY <2>2, <2>3, <2>4, <2>5 DEF TypeInv
<1>16. QED
  BY <1>1, <1>2, <1>3, <1>4, <1>5, <1>6, <1>7, <1>8, <1>9, <1>10, <1>11, <1>12, <1>13, <1>14, <1>15 DEF CallStep, StopStep, StartStep

-----------------------------------------------------------------------------
(***************************************************************************)
(* Tasks and settings leave the callers alone                               *)
(***************************************************************************)

\* A task that ends takes nothing but its own entry, and its port, with it.
LEMMA TaskEndsType ==
    ASSUME TypeInv, NEW kind, NEW g, TaskEnds(kind, g),
           running => g # generation \/ kind \in Unreliable
    PROVE  TypeInv'
<1>0. TypeOK /\ MutexInv /\ CopyInv /\ LockedInv /\ RunningMeansServing
  BY DEF TypeInv
<1> USE <1>0
<1>1. /\ <<kind, g>> \in live \ busy
      /\ live' = live \ {<<kind, g>>}
      /\ bound' = IF kind = "udp" THEN {b \in bound : b[1] # g} ELSE bound
      /\ UNCHANGED <<config, liveHz, liveTimeout, lock, running, active,
                     generation, signalled, busy, latest, slot, op, calls>>
  BY DEF TaskEnds, inner, data
<1>2. TypeOK'
  <2>1. busy' \subseteq live' /\ live' \subseteq TaskKinds \X Generations'
    BY <1>1 DEF TypeOK, Generations
  <2>2. ASSUME NEW b \in bound' PROVE <<"udp", b[1]>> \in live'
    BY <1>1 DEF TypeOK
  <2>3. QED
    BY <1>1, <2>1, <2>2 DEF TypeOK, Generations
<1>3. RunningMeansServing'
  <2>1. SUFFICES ASSUME running PROVE RunningMeansServing'
    BY <1>1 DEF RunningMeansServing
  <2>2. (Kinds(active') \ Unreliable) \X {generation} \subseteq live'
    <3>1. (Kinds(active) \ Unreliable) \X {generation} \subseteq live
      BY <2>1 DEF RunningMeansServing
    <3>2. <<kind, g>> \notin (Kinds(active) \ Unreliable) \X {generation}
      BY <2>1
    <3>3. QED
      BY <1>1, <3>1, <3>2 DEF Kinds
  <2>3. ASSUME <<"udp", generation>> \in live'
        PROVE  <<generation, active.port>> \in bound'
    <3>1. <<generation, active.port>> \in bound
      BY <1>1, <2>1, <2>3 DEF RunningMeansServing
    <3>2. kind # "udp" \/ g # generation
      BY <1>1, <2>3
    <3>3. QED
      BY <1>1, <3>1, <3>2
  <2>4. QED
    BY <1>1, <2>1, <2>2, <2>3 DEF RunningMeansServing
<1>4. QED
  BY <1>1, <1>2, <1>3 DEF TypeInv, MutexInv, CopyInv, LockedInv

LEMMA TaskStepType ==
    ASSUME TypeInv, NEW kind, NEW g, TaskStep(kind, g)
    PROVE  TypeInv'
<1>0. TypeOK /\ MutexInv /\ CopyInv /\ LockedInv /\ RunningMeansServing
  BY DEF TypeInv
<1> USE <1>0
<1>1. CASE TaskWorks(kind, g) \/ TaskRequests(kind, g)
  <2>1. /\ UNCHANGED <<config, liveHz, liveTimeout, lock, running, active,
                       generation, signalled, live, bound, op, calls>>
        /\ busy' \subseteq live
        /\ latest' \in {"none", "connected", "disconnected"}
        /\ slot' \in {"none", "connected", "disconnected"}
    BY <1>1 DEF TaskWorks, TaskRequests, inner, TypeOK
  <2>2. QED
    BY <2>1 DEF TypeInv, TypeOK, MutexInv, CopyInv, LockedInv,
                RunningMeansServing, Kinds, Generations
<1>2. CASE TaskStops(kind, g)
  BY <1>2, TaskEndsType DEF TaskStops, RunningMeansServing
<1>3. QED
  BY <1>1, <1>2 DEF TaskStep

LEMMA SocketErrorType ==
    ASSUME TypeInv, NEW g, SocketError(g)
    PROVE  TypeInv'
  BY TaskEndsType DEF SocketError, Unreliable

\* A save changes the configuration and what callers have seen of it.
LEMMA SaveConfigKeeps ==
    ASSUME TypeOK, SaveConfig
    PROVE  /\ config' \in Configs
           /\ op' \in [Callers -> Ops]
           /\ \A c \in Callers :
                 /\ op'[c].pc = op[c].pc
                 /\ op'[c].goal = op[c].goal
                 /\ op'[c].cfg = op[c].cfg
                 /\ op[c].seen \subseteq op'[c].seen
                 /\ op[c].pc # "idle" => config' \in op'[c].seen
<1>1. /\ config' \in Configs /\ op \in [Callers -> Ops]
      /\ op' = [c \in Callers |->
                   IF At(c, "idle") THEN op[c]
                   ELSE [op[c] EXCEPT !.seen = @ \cup {config'}]]
  BY DEF SaveConfig, TypeOK
<1>2. ASSUME NEW c \in Callers
      PROVE  /\ op'[c] \in Ops
             /\ op'[c].pc = op[c].pc
             /\ op'[c].goal = op[c].goal
             /\ op'[c].cfg = op[c].cfg
             /\ op[c].seen \subseteq op'[c].seen
             /\ op[c].pc # "idle" => config' \in op'[c].seen
  <2>0. op[c] \in Ops
    BY <1>1
  <2>1. CASE At(c, "idle")
    BY <1>1, <2>0, <2>1 DEF At
  <2>2. CASE ~At(c, "idle")
    <3>1. op'[c] = [op[c] EXCEPT !.seen = @ \cup {config'}]
      BY <1>1, <2>2
    <3>2. QED
      BY <1>1, <2>0, <3>1 DEF Ops
  <2>3. QED
    BY <2>1, <2>2
<1>3. op' \in [Callers -> Ops]
  BY <1>1, <1>2
<1>4. QED
  BY <1>1, <1>2, <1>3

LEMMA SettingsType ==
    ASSUME TypeInv, SaveConfig \/ ApplyHz \/ ApplyTimeout
    PROVE  TypeInv'
<1>0. TypeOK /\ MutexInv /\ CopyInv /\ LockedInv /\ RunningMeansServing
  BY DEF TypeInv
<1> USE <1>0
<1> USE DEF inner, tasks, data
<1>1. CASE SaveConfig
  <2>1. UNCHANGED <<liveHz, liveTimeout, lock, inner, tasks, data, calls>>
    BY <1>1 DEF SaveConfig
  <2>2. TypeOK'
    BY <1>1, <2>1, SaveConfigKeeps DEF TypeOK, Generations
  <2>3. MutexInv' /\ CopyInv'
    BY <1>1, <2>1, SaveConfigKeeps DEF MutexInv, CopyInv
  <2>4. LockedInv' /\ RunningMeansServing'
    BY <2>1 DEF LockedInv, RunningMeansServing, Kinds
  <2>5. QED
    BY <2>2, <2>3, <2>4 DEF TypeInv
<1>2. CASE ApplyHz
  BY <1>2 DEF ApplyHz, TypeInv, TypeOK, MutexInv, CopyInv, LockedInv,
              RunningMeansServing, Kinds, Generations
<1>3. CASE ApplyTimeout
  BY <1>3 DEF ApplyTimeout, TypeInv, TypeOK, MutexInv, CopyInv, LockedInv,
              RunningMeansServing, Kinds, Generations
<1>4. QED
  BY <1>1, <1>2, <1>3

LEMMA TypeInvNext == TypeInv /\ [Next]_vars => TypeInv'
<1> SUFFICES ASSUME TypeInv, [Next]_vars PROVE TypeInv'
  OBVIOUS
<1>1. CASE UNCHANGED vars
  BY <1>1 DEF vars, inner, tasks, data, TypeInv, TypeOK, MutexInv, CopyInv,
              LockedInv, RunningMeansServing, Kinds, Generations
<1>2. ASSUME NEW c \in Callers, CallStep(c) PROVE TypeInv'
  BY <1>2, CallerStepType
<1>3. ASSUME NEW task \in live, TaskStep(task[1], task[2]) PROVE TypeInv'
  BY <1>3, TaskStepType
<1>4. ASSUME NEW task \in live, SocketError(task[2]) PROVE TypeInv'
  BY <1>4, SocketErrorType
<1>5. CASE SaveConfig \/ ApplyHz \/ ApplyTimeout
  BY <1>5, SettingsType
<1>6. QED
  BY <1>1, <1>2, <1>3, <1>4, <1>5 DEF Next, RuntimeNext

LEMMA TypeInvAlways == Spec => []TypeInv
  BY TypeInvInit, TypeInvNext, PTL DEF Spec

\* Callers, tasks, channels and the store keep their types, and a port is bound
\* no longer than its receiver lives, however often anyone starts and stops.
THEOREM TypeCorrect == Spec => []TypeOK
<1>1. TypeInv => TypeOK
  BY DEF TypeInv
<1>2. QED
  BY <1>1, TypeInvAlways, PTL

\* A runtime that calls itself running has its tasks, whoever was dropped in the
\* middle of start() or stop().
THEOREM RunningServes == Spec => []RunningMeansServing
<1>1. TypeInv => RunningMeansServing
  BY DEF TypeInv
<1>2. QED
  BY <1>1, TypeInvAlways, PTL

\* Whoever is dropped, a task that nobody can signal any more was signalled: the
\* stop channel is sent to in the step that lets go of it, and start() replaces
\* it only when there is none.
THEOREM NothingLeaks == Spec => []NoTaskLeaks
<1>1. Init => NoTaskLeaks
  BY DEF Init, NoTaskLeaks
<1>2. TypeInv /\ NoTaskLeaks /\ [Next]_vars => NoTaskLeaks'
  <2> SUFFICES ASSUME TypeInv, NoTaskLeaks, [Next]_vars PROVE NoTaskLeaks'
    OBVIOUS
  <2> USE DEF inner, tasks, data
  <2>1. ASSUME live' \subseteq live, UNCHANGED <<running, generation, signalled>>
        PROVE  NoTaskLeaks'
    BY <2>1 DEF NoTaskLeaks
  <2>2. ASSUME NEW c \in Callers, StopSignal(c) PROVE NoTaskLeaks'
    BY <2>2 DEF StopSignal, NoTaskLeaks
  <2>3. ASSUME NEW c \in Callers, StartSpawn(c) PROVE NoTaskLeaks'
    <3>1. ~running
      BY <2>3 DEF StartSpawn, At, TypeInv, TypeOK, MutexInv, LockedInv, Holding
    <3>2. \A task \in live : task[2] \in signalled
      BY <3>1 DEF NoTaskLeaks
    <3>3. /\ \A task \in live' : task \in live \/ task[2] = generation'
          /\ running' /\ signalled' = signalled
      BY <2>3 DEF StartSpawn
    <3>4. QED
      BY <3>2, <3>3 DEF NoTaskLeaks
  <2>4. ASSUME NEW c \in Callers, CallStep(c), ~StopSignal(c), ~StartSpawn(c)
        PROVE  NoTaskLeaks'
    BY <2>1, <2>4
       DEF CallStep, StopStep, StartStep, Call, StopNotRunning, StopTasksEnded,
           StopMark, StopNothingToMark, StopRequest, StartAlreadyRunning,
           StartLock, StartReadConfig, StartSetTimeout, StartSetHz,
           StartBadHost, StartBindFails, Cancel
  <2>5. ASSUME NEW kind, NEW g, TaskStep(kind, g) \/ SocketError(g)
        PROVE  NoTaskLeaks'
    BY <2>1, <2>5 DEF TaskStep, TaskWorks, TaskRequests, TaskStops, SocketError,
                      TaskEnds
  <2>6. CASE SaveConfig \/ ApplyHz \/ ApplyTimeout \/ UNCHANGED vars
    BY <2>1, <2>6 DEF SaveConfig, ApplyHz, ApplyTimeout, vars
  <2>7. QED
    BY <2>2, <2>3, <2>4, <2>5, <2>6 DEF Next, RuntimeNext
<1>3. QED
  BY <1>1, <1>2, TypeInvAlways, PTL DEF Spec

-----------------------------------------------------------------------------
(***************************************************************************)
(* A stopped runtime, when no caller is dropped half-way                    *)
(***************************************************************************)
Announced == latest # "connected" /\ (latest = "none" \/ slot = "disconnected")

\* Every task belongs to the latest start.
OnlyCurrent == \A task \in live : task[2] = generation

\* Once the stop that awaits the tasks has gone on, there are none.
AwaitedEnd ==
    ~running /\ (\A c \in Callers : op[c].pc # "stopAwait")
        => live = {} /\ active = None

\* Once stop() is over, the clients have been told, and between marking and
\* requesting the snapshot is the disconnected one.
AnnounceInv ==
    /\ ~running /\ (\A c \in Callers : op[c].pc \notin Stopping) => Announced
    /\ \A c \in Callers : op[c].pc = "stopRequest" => latest = "disconnected"

StopInv == OnlyCurrent /\ AwaitedEnd /\ AnnounceInv

\* Only the holder of the mutex is in the middle of a stop.
LEMMA OneHolder ==
    ASSUME MutexInv, NoneAssumption, NEW c \in Callers, lock \in {None, c}
    PROVE  \A d \in Callers \ {c} : op[d].pc \notin Holding
  BY DEF MutexInv

\* A caller that is not in the middle of a stop, and does not start anything.
LEMMA StopInvElsewhere ==
    ASSUME StopInv, NEW c \in Callers, OthersStay(c),
           op[c].pc \notin Stopping, op'[c].pc \notin Stopping,
           UNCHANGED <<running, active, generation, live, latest, slot>>
    PROVE  StopInv'
  BY DEF StopInv, OnlyCurrent, AwaitedEnd, AnnounceInv, Announced, OthersStay,
         Stopping

LEMMA CallerStepStopInv ==
    ASSUME ~MayCancel, TypeInv, StopInv, NEW c \in Callers, CallStep(c)
    PROVE  StopInv'
<1>0. TypeOK /\ MutexInv /\ CopyInv /\ LockedInv
  BY DEF TypeInv
<1> USE <1>0
<1> USE DEF inner, tasks, data
<1>1. ASSUME NEW goal \in Goals, Call(c, goal) PROVE StopInv'
  <2>1. /\ OthersStay(c)
        /\ op[c].pc \notin Stopping /\ op'[c].pc \notin Stopping
        /\ UNCHANGED <<running, active, generation, live, latest, slot>>
    BY <1>1 DEF Call, At, TypeOK, OthersStay, Stopping
  <2>2. QED
    BY <2>1, StopInvElsewhere
<1>2. CASE StopNotRunning(c)
  <2>1. /\ OthersStay(c)
        /\ op[c].pc \notin Stopping /\ op'[c].pc \notin Stopping
        /\ UNCHANGED <<running, active, generation, live, latest, slot>>
    BY <1>2, AfterStopMoves
       DEF StopNotRunning, At, MovesTo, Returns, IdleOp, Stopping
  <2>2. QED
    BY <2>1, StopInvElsewhere
<1>3. CASE StopSignal(c)
  <2>1. OthersStay(c) /\ op'[c].pc = "stopAwait"
    BY <1>3, GotoMoves DEF StopSignal, MovesTo, Points
  <2>2. \A d \in Callers \ {c} : op[d].pc \notin Holding
    BY <1>3, OneHolder DEF StopSignal
  <2>3. UNCHANGED <<active, generation, live, latest, slot>>
    BY <1>3 DEF StopSignal
  <2>4. QED
    BY <2>1, <2>2, <2>3 DEF StopInv, OnlyCurrent, AwaitedEnd, AnnounceInv,
                            OthersStay, Stopping, Holding
<1>4. CASE StopTasksEnded(c)
  <2>1. OthersStay(c) /\ op'[c].pc = "stopMark"
    BY <1>4, GotoMoves DEF StopTasksEnded, MovesTo, Points
  <2>2. op[c].pc \in Holding /\ lock = c
    BY <1>4 DEF StopTasksEnded, At, Holding, MutexInv
  <2>3. \A d \in Callers \ {c} : op[d].pc \notin Holding
    BY <2>2, OneHolder
  <2>4. live = {}
    BY <1>4 DEF StopTasksEnded, TasksEnded, StopInv, OnlyCurrent
  <2>5. active' = None /\ UNCHANGED <<running, generation, live, latest, slot>>
    BY <1>4 DEF StopTasksEnded
  <2>6. QED
    BY <2>1, <2>3, <2>4, <2>5
       DEF StopInv, OnlyCurrent, AwaitedEnd, AnnounceInv, OthersStay, Stopping,
           Holding
<1>5. CASE StopMark(c)
  <2>1. OthersStay(c) /\ op'[c].pc = "stopRequest" /\ op[c].pc = "stopMark"
    BY <1>5, GotoMoves DEF StopMark, At, MovesTo, Points
  <2>2. op[c].pc \in Holding /\ lock = c
    BY <2>1 DEF Holding, MutexInv
  <2>3. \A d \in Callers \ {c} : op[d].pc \notin Holding
    BY <2>2, OneHolder
  <2>4. /\ latest' = "disconnected"
        /\ UNCHANGED <<running, active, generation, live>>
    BY <1>5 DEF StopMark
  <2>5. QED
    BY <2>1, <2>3, <2>4
       DEF StopInv, OnlyCurrent, AwaitedEnd, AnnounceInv, OthersStay, Stopping,
           Holding
<1>6. CASE StopNothingToMark(c)
  <2>1. OthersStay(c) /\ op[c].pc = "stopMark" /\ op'[c].pc \in {"idle", "startLock"}
    BY <1>6, AfterStopMoves DEF StopNothingToMark, At, MovesTo, Returns, IdleOp
  <2>2. op[c].pc \in Holding /\ lock = c
    BY <2>1 DEF Holding, MutexInv
  <2>3. \A d \in Callers \ {c} : op[d].pc \notin Holding
    BY <2>2, OneHolder
  <2>4. /\ latest = "none"
        /\ UNCHANGED <<running, active, generation, live, latest, slot>>
    BY <1>6 DEF StopNothingToMark
  <2>5. QED
    BY <2>1, <2>3, <2>4
       DEF StopInv, OnlyCurrent, AwaitedEnd, AnnounceInv, Announced, OthersStay,
           Stopping, Holding
<1>7. CASE StopRequest(c)
  <2>1. OthersStay(c) /\ op[c].pc = "stopRequest" /\ op'[c].pc \in {"idle", "startLock"}
    BY <1>7, AfterStopMoves DEF StopRequest, At, MovesTo, Returns, IdleOp
  <2>2. op[c].pc \in Holding /\ lock = c
    BY <2>1 DEF Holding, MutexInv
  <2>3. \A d \in Callers \ {c} : op[d].pc \notin Holding
    BY <2>2, OneHolder
  <2>4. /\ latest = "disconnected" /\ slot' = "disconnected"
        /\ UNCHANGED <<running, active, generation, live, latest>>
    BY <1>7, <2>1 DEF StopRequest, StopInv, AnnounceInv
  <2>5. QED
    BY <2>1, <2>3, <2>4
       DEF StopInv, OnlyCurrent, AwaitedEnd, AnnounceInv, Announced, OthersStay,
           Stopping, Holding
<1>8. CASE StartAlreadyRunning(c) \/ StartBadHost(c) \/ StartBindFails(c)
  <2>1. /\ OthersStay(c)
        /\ op[c].pc \notin Stopping /\ op'[c].pc \notin Stopping
        /\ UNCHANGED <<running, active, generation, live, latest, slot>>
    BY <1>8, ReturnReturns
       DEF StartAlreadyRunning, StartBadHost, StartBindFails, At, Returns, IdleOp, Stopping
  <2>2. QED
    BY <2>1, StopInvElsewhere
<1>9. CASE StartLock(c) \/ StartSetTimeout(c) \/ StartSetHz(c)
  <2>1. /\ OthersStay(c)
        /\ op[c].pc \notin Stopping /\ op'[c].pc \notin Stopping
        /\ UNCHANGED <<running, active, generation, live, latest, slot>>
    BY <1>9, GotoMoves
       DEF StartLock, StartSetTimeout, StartSetHz, At, MovesTo, Points, Stopping
  <2>2. QED
    BY <2>1, StopInvElsewhere
<1>10. CASE StartReadConfig(c)
  <2>1. /\ OthersStay(c)
        /\ op[c].pc \notin Stopping /\ op'[c].pc \notin Stopping
        /\ UNCHANGED <<running, active, generation, live, latest, slot>>
    <3>1. op[c] \in Ops /\ op[c].pc = "startConfig"
      BY <1>10 DEF StartReadConfig, At, TypeOK
    <3>2. op'[c] = [op[c] EXCEPT !.pc = "startTimeout", !.cfg = config]
      BY <1>10 DEF StartReadConfig, TypeOK
    <3>3. op'[c].pc = "startTimeout"
      BY <3>1, <3>2 DEF Ops
    <3>4. OthersStay(c)
      BY <1>10 DEF StartReadConfig, TypeOK, OthersStay
    <3>5. QED
      BY <1>10, <3>1, <3>3, <3>4 DEF StartReadConfig, Stopping
  <2>2. QED
    BY <2>1, StopInvElsewhere
<1>11. CASE StartSpawn(c)
  <2>1. OthersStay(c) /\ op[c].pc = "startBind" /\ op'[c].pc = "idle"
    BY <1>11, ReturnReturns DEF StartSpawn, At, Returns, IdleOp
  <2>2. op[c].pc \in Holding /\ lock = c
    BY <2>1 DEF Holding, MutexInv
  <2>3. \A d \in Callers \ {c} : op[d].pc \notin Holding
    BY <2>2, OneHolder
  <2>4. ~running /\ live = {}
    BY <2>1, <2>2, <2>3 DEF LockedInv, StopInv, AwaitedEnd, Holding
  <2>5. /\ running' = TRUE
        /\ live' = {<<kind, generation'>> : kind \in Kinds(op[c].cfg)}
        /\ UNCHANGED <<latest, slot>>
    BY <1>11, <2>4 DEF StartSpawn
  <2>6. OnlyCurrent'
    BY <2>5 DEF OnlyCurrent
  <2>7. QED
    BY <2>1, <2>3, <2>5, <2>6
       DEF StopInv, AwaitedEnd, AnnounceInv, OthersStay, Stopping, Holding
<1>12. QED
  BY <1>1, <1>2, <1>3, <1>4, <1>5, <1>6, <1>7, <1>8, <1>9, <1>10, <1>11
     DEF CallStep, StopStep, StartStep, Cancel, Goals

\* While a task lives the runtime runs, or stop() is awaiting it.
LEMMA TaskStepStopInv ==
    ASSUME TypeInv, StopInv, NEW task \in live,
           TaskStep(task[1], task[2]) \/ SocketError(task[2])
    PROVE  StopInv'
<1>0. TypeOK /\ MutexInv /\ LockedInv
  BY DEF TypeInv
<1>1. running \/ \E c \in Callers : op[c].pc = "stopAwait"
  BY DEF StopInv, AwaitedEnd
<1>2. \A c \in Callers : op[c].pc = "stopRequest" => live = {}
  BY <1>0, OneHolder
     DEF MutexInv, LockedInv, StopInv, AwaitedEnd, Holding
<1>3. /\ UNCHANGED <<running, active, generation, op>>
      /\ live' \subseteq live
  BY DEF TaskStep, TaskWorks, TaskRequests, TaskStops, SocketError, TaskEnds,
         inner
<1>4. QED
  BY <1>1, <1>2, <1>3
     DEF StopInv, OnlyCurrent, AwaitedEnd, AnnounceInv, Stopping

LEMMA SettingsStopInv ==
    ASSUME TypeInv, StopInv, SaveConfig \/ ApplyHz \/ ApplyTimeout
    PROVE  StopInv'
<1>1. /\ UNCHANGED <<running, active, generation, live, latest, slot>>
      /\ \A c \in Callers : op'[c].pc = op[c].pc
  BY SaveConfigKeeps
     DEF SaveConfig, ApplyHz, ApplyTimeout, inner, tasks, data, TypeInv
<1>2. QED
  BY <1>1 DEF StopInv, OnlyCurrent, AwaitedEnd, AnnounceInv, Announced

LEMMA StopInvAlways ==
    ASSUME ~MayCancel PROVE Spec => [](TypeInv /\ StopInv)
<1>1. Init => StopInv
  BY DEF Init, StopInv, OnlyCurrent, AwaitedEnd, AnnounceInv, Announced, IdleOp
<1>2. TypeInv /\ StopInv /\ [Next]_vars => StopInv'
  <2> SUFFICES ASSUME TypeInv, StopInv, [Next]_vars PROVE StopInv'
    OBVIOUS
  <2>1. CASE UNCHANGED vars
    BY <2>1 DEF vars, inner, tasks, data, StopInv, OnlyCurrent, AwaitedEnd,
                AnnounceInv, Announced
  <2>2. ASSUME NEW c \in Callers, CallStep(c) PROVE StopInv'
    BY <2>2, CallerStepStopInv
  <2>3. QED
    BY <2>1, <2>2, TaskStepStopInv, SettingsStopInv DEF Next, RuntimeNext
<1>3. QED
  BY <1>1, <1>2, TypeInvInit, TypeInvNext, PTL DEF Spec

\* stop() waited for all tasks, so a stopped runtime has none, and no socket.
StoppedMeansSilent ==
    ~running /\ lock = None => live = {} /\ bound = {} /\ active = None

OneReceiver ==
    \A s, t \in live : s[1] = "udp" /\ t[1] = "udp" => s = t

\* stop() leaves no task, no socket and no address behind.
THEOREM StopIsComplete ==
    ASSUME ~MayCancel PROVE Spec => []StoppedMeansSilent
<1>1. TypeInv /\ StopInv => StoppedMeansSilent
  <2> SUFFICES ASSUME TypeInv, StopInv, ~running, lock = None
               PROVE  live = {} /\ bound = {} /\ active = None
    BY DEF StoppedMeansSilent
  <2>1. \A c \in Callers : op[c].pc \notin Holding
    BY DEF TypeInv, MutexInv
  <2>2. live = {} /\ active = None
    BY <2>1 DEF StopInv, AwaitedEnd, Holding
  <2>3. QED
    BY <2>2 DEF TypeInv, TypeOK
<1>2. QED
  BY <1>1, StopInvAlways, PTL

\* Two receivers never overlap, whatever the order of starts and stops.
THEOREM ReceiversNeverOverlap ==
    ASSUME ~MayCancel PROVE Spec => []OneReceiver
<1>1. TypeInv /\ StopInv => OneReceiver
  <2> SUFFICES ASSUME TypeInv, StopInv, NEW s \in live, NEW t \in live,
                      s[1] = "udp", t[1] = "udp"
               PROVE  s = t
    BY DEF OneReceiver
  <2>1. live \subseteq TaskKinds \X Generations
    BY DEF TypeInv, TypeOK
  <2>2. s = <<s[1], s[2]>> /\ t = <<t[1], t[2]>>
    BY <2>1
  <2>3. s[2] = t[2]
    BY DEF StopInv, OnlyCurrent
  <2>4. QED
    BY <2>2, <2>3
<1>2. QED
  BY <1>1, StopInvAlways, PTL

\* When stop() is over the last snapshot requested says "disconnected".
THEOREM ClientsAreTold ==
    ASSUME ~MayCancel PROVE Spec => []StopIsAnnounced
<1>1. TypeInv /\ StopInv => StopIsAnnounced
  <2> SUFFICES ASSUME TypeInv, StopInv, ~running, lock = None
               PROVE  Announced
    BY DEF StopIsAnnounced, Announced
  <2>1. \A c \in Callers : op[c].pc \notin Holding
    BY DEF TypeInv, MutexInv
  <2>2. QED
    BY <2>1 DEF StopInv, AnnounceInv, Stopping, Holding
<1>2. QED
  BY <1>1, StopInvAlways, PTL

-----------------------------------------------------------------------------
(***************************************************************************)
(* The manager is a TelemetryService, when no caller is dropped half-way.   *)
(* Beyond StopInv it takes that the address is there exactly while a stop   *)
(* has not taken it, and that the request channel is empty only as long as  *)
(* the store is, so that stop() has something to announce or nobody to      *)
(* announce it to.                                                          *)
(***************************************************************************)
SilentInv == latest = "none" <=> slot = "none" /\ busy = {}

LEMMA SilentInvNext ==
    TypeInv /\ StopInv /\ SilentInv /\ [Next]_vars => SilentInv'
<1> SUFFICES ASSUME TypeInv, StopInv, SilentInv, [Next]_vars PROVE SilentInv'
  OBVIOUS
<1> USE DEF inner, tasks, data
<1>1. ASSUME UNCHANGED <<latest, slot, busy>> PROVE SilentInv'
  BY <1>1 DEF SilentInv
<1>2. ASSUME NEW c \in Callers, StopMark(c) PROVE SilentInv'
  BY <1>2 DEF StopMark, SilentInv
<1>3. ASSUME NEW c \in Callers, StopRequest(c) PROVE SilentInv'
  BY <1>3 DEF StopRequest, At, StopInv, AnnounceInv, SilentInv
<1>4. ASSUME NEW c \in Callers, CallStep(c), ~StopMark(c), ~StopRequest(c)
      PROVE  UNCHANGED <<latest, slot, busy>>
  BY <1>4
     DEF CallStep, StopStep, StartStep, Call, StopNotRunning, StopSignal,
         StopTasksEnded, StopNothingToMark, StartAlreadyRunning, StartLock,
         StartReadConfig, StartSetTimeout, StartSetHz, StartSpawn,
         StartBadHost, StartBindFails, Cancel
<1>5. ASSUME NEW kind, NEW g, TaskStep(kind, g) PROVE SilentInv'
  BY <1>1, <1>5 DEF TaskStep, TaskWorks, TaskRequests, TaskStops, TaskEnds,
                    SilentInv
<1>6. ASSUME NEW g, SocketError(g) PROVE SilentInv'
  BY <1>1, <1>6 DEF SocketError, TaskEnds
<1>7. CASE SaveConfig \/ ApplyHz \/ ApplyTimeout \/ UNCHANGED vars
  BY <1>1, <1>7 DEF SaveConfig, ApplyHz, ApplyTimeout, vars
<1>8. QED
  BY <1>1, <1>2, <1>3, <1>4, <1>5, <1>6, <1>7 DEF Next, RuntimeNext

\* A stop is under way.
Ending == \E c \in Callers : op[c].pc \in Stopping

\* The mutex keeps a caller that is in the middle of start() or stop() alone.
LEMMA EndingIsHolder ==
    ASSUME TypeOK, MutexInv, NEW c \in Callers, OthersStay(c), lock \in {None, c}
    PROVE  /\ Ending <=> op[c].pc \in Stopping
           /\ Ending' <=> op'[c].pc \in Stopping
<1>1. \A d \in Callers \ {c} : op[d].pc \notin Stopping
  BY OneHolder DEF Stopping, Holding
<1>2. QED
  BY <1>1 DEF Ending, OthersStay

LEMMA ServiceStutters ==
    ASSUME UNCHANGED <<active, live, bound, slot>>, Ending' <=> Ending
    PROVE  UNCHANGED Service!vars
  BY DEF Service!vars, Ending

\* A caller that is not in the middle of a stop, before and after its step, and
\* disturbs nothing of what the service is.
LEMMA ServiceElsewhere ==
    ASSUME NEW c \in Callers, OthersStay(c),
           op[c].pc \notin Stopping, op'[c].pc \notin Stopping,
           UNCHANGED <<active, live, bound, slot>>
    PROVE  UNCHANGED Service!vars
<1>1. Ending' <=> Ending
  BY DEF Ending, OthersStay
<1>2. QED
  BY <1>1, ServiceStutters

LEMMA CallerStepServes ==
    ASSUME ~MayCancel, TypeInv, StopInv, SilentInv, NEW c \in Callers, CallStep(c)
    PROVE  [Service!Next]_(Service!vars)
<1>0. TypeOK /\ MutexInv /\ CopyInv /\ LockedInv /\ RunningMeansServing
  BY DEF TypeInv
<1> USE <1>0
<1> USE DEF inner, tasks, data
<1>1. ASSUME NEW goal \in Goals, Call(c, goal) PROVE UNCHANGED Service!vars
  <2>1. /\ OthersStay(c)
        /\ op[c].pc \notin Stopping /\ op'[c].pc \notin Stopping
        /\ UNCHANGED <<active, live, bound, slot>>
    BY <1>1 DEF Call, At, TypeOK, OthersStay, Stopping
  <2>2. QED
    BY <2>1, ServiceElsewhere
<1>2. CASE StopNotRunning(c)
  <2>1. /\ OthersStay(c)
        /\ op[c].pc \notin Stopping /\ op'[c].pc \notin Stopping
        /\ UNCHANGED <<active, live, bound, slot>>
    BY <1>2, AfterStopMoves
       DEF StopNotRunning, At, MovesTo, Returns, IdleOp, Stopping
  <2>2. QED
    BY <2>1, ServiceElsewhere
<1>3. CASE StopSignal(c)
  <2>1. /\ OthersStay(c) /\ op[c].pc = "stopLock" /\ op'[c].pc = "stopAwait"
        /\ lock = None
    BY <1>3, GotoMoves DEF StopSignal, At, MovesTo, Points
  <2>2. ~Ending /\ Ending'
    BY <2>1, EndingIsHolder DEF Stopping
  <2>3. active # None /\ UNCHANGED <<active, live, bound, slot>>
    BY <1>3 DEF StopSignal, RunningMeansServing
  <2>4. Service!Stop
    BY <2>2, <2>3 DEF Service!Stop, Ending
  <2>5. QED
    BY <2>4 DEF Service!Next
<1>4. CASE StopTasksEnded(c)
  <2>1. /\ OthersStay(c) /\ op[c].pc = "stopAwait" /\ op'[c].pc = "stopMark"
    BY <1>4, GotoMoves DEF StopTasksEnded, At, MovesTo, Points
  <2>2. lock = c
    BY <2>1 DEF Holding, MutexInv
  <2>3. Ending /\ Ending'
    BY <2>1, <2>2, EndingIsHolder DEF Stopping
  <2>4. live = {}
    BY <1>4 DEF StopTasksEnded, TasksEnded, StopInv, OnlyCurrent
  <2>5. active' = None /\ UNCHANGED <<live, bound, slot>>
    BY <1>4 DEF StopTasksEnded
  <2>6. Service!End
    BY <2>3, <2>4, <2>5 DEF Service!End, Ending
  <2>7. QED
    BY <2>6 DEF Service!Next
<1>5. CASE StopMark(c)
  <2>1. /\ OthersStay(c) /\ op[c].pc = "stopMark" /\ op'[c].pc = "stopRequest"
    BY <1>5, GotoMoves DEF StopMark, At, MovesTo, Points
  <2>2. lock = c
    BY <2>1 DEF Holding, MutexInv
  <2>3. Ending /\ Ending'
    BY <2>1, <2>2, EndingIsHolder DEF Stopping
  <2>4. QED
    BY <1>5, <2>3, ServiceStutters DEF StopMark
<1>6. CASE StopNothingToMark(c) \/ StopRequest(c)
  <2>1. /\ OthersStay(c) /\ op[c].pc \in {"stopMark", "stopRequest"}
        /\ op'[c].pc \in {"idle", "startLock"}
    BY <1>6, AfterStopMoves
       DEF StopNothingToMark, StopRequest, At, MovesTo, Returns, IdleOp
  <2>2. lock = c
    BY <2>1 DEF Holding, MutexInv
  <2>3. \A d \in Callers \ {c} : op[d].pc \notin Holding
    BY <2>2, OneHolder
  <2>4. Ending /\ ~Ending'
    BY <2>1, <2>2, EndingIsHolder DEF Stopping
  <2>5. active = None /\ live = {}
    BY <2>1, <2>2, <2>3 DEF LockedInv, StopInv, AwaitedEnd, Holding
  <2>6. slot' = IF slot = "none" THEN "none" ELSE "disconnected"
    <3>1. CASE StopNothingToMark(c)
      \* Nothing was ever stored, so nothing was ever requested.
      BY <3>1 DEF StopNothingToMark, SilentInv
    <3>2. CASE StopRequest(c)
      \* Something was stored, and no task is left that may still request it.
      <4>1. latest # "none" /\ busy = {}
        BY <2>5, <3>2 DEF StopRequest, At, StopInv, AnnounceInv, TypeOK
      <4>2. QED
        BY <3>2, <4>1 DEF StopRequest, SilentInv
    <3>3. QED
      BY <1>6, <3>1, <3>2
  <2>7. UNCHANGED <<active, live, bound>>
    BY <1>6 DEF StopNothingToMark, StopRequest
  <2>8. Service!Announce
    BY <2>4, <2>5, <2>6, <2>7 DEF Service!Announce, Ending
  <2>9. QED
    BY <2>8 DEF Service!Next
<1>7. CASE StartAlreadyRunning(c) \/ StartBadHost(c) \/ StartBindFails(c)
  <2>1. /\ OthersStay(c)
        /\ op[c].pc \notin Stopping /\ op'[c].pc \notin Stopping
        /\ UNCHANGED <<active, live, bound, slot>>
    BY <1>7, ReturnReturns
       DEF StartAlreadyRunning, StartBadHost, StartBindFails, At, Returns, IdleOp, Stopping
  <2>2. QED
    BY <2>1, ServiceElsewhere
<1>8. CASE StartLock(c) \/ StartSetTimeout(c) \/ StartSetHz(c)
  <2>1. /\ OthersStay(c)
        /\ op[c].pc \notin Stopping /\ op'[c].pc \notin Stopping
        /\ UNCHANGED <<active, live, bound, slot>>
    BY <1>8, GotoMoves
       DEF StartLock, StartSetTimeout, StartSetHz, At, MovesTo, Points, Stopping
  <2>2. QED
    BY <2>1, ServiceElsewhere
<1>9. CASE StartReadConfig(c)
  <2>1. op[c] \in Ops /\ op[c].pc = "startConfig"
    BY <1>9 DEF StartReadConfig, At, TypeOK
  <2>2. op'[c] = [op[c] EXCEPT !.pc = "startTimeout", !.cfg = config]
    BY <1>9 DEF StartReadConfig, TypeOK
  <2>3. op'[c].pc = "startTimeout"
    BY <2>1, <2>2 DEF Ops
  <2>4. OthersStay(c) /\ UNCHANGED <<active, live, bound, slot>>
    BY <1>9 DEF StartReadConfig, TypeOK, OthersStay
  <2>5. QED
    BY <2>1, <2>3, <2>4, ServiceElsewhere DEF Stopping
<1>10. CASE StartSpawn(c)
  <2>1. /\ OthersStay(c) /\ op[c].pc = "startBind" /\ op'[c].pc = "idle"
    BY <1>10, ReturnReturns DEF StartSpawn, At, Returns, IdleOp
  <2>2. lock = c
    BY <2>1 DEF Holding, MutexInv
  <2>3. \A d \in Callers \ {c} : op[d].pc \notin Holding
    BY <2>2, OneHolder
  <2>4. ~Ending /\ ~Ending'
    BY <2>1, <2>2, EndingIsHolder DEF Stopping
  <2>5. live = {} /\ active = None
    BY <2>1, <2>2, <2>3 DEF LockedInv, StopInv, AwaitedEnd, Holding
  <2>6. bound = {}
    BY <2>5 DEF TypeOK
  <2> DEFINE cfg == op[c].cfg
             next == generation + 1
  <2>7. /\ cfg \in Configs /\ active' = cfg
        /\ live' = {<<kind, next>> : kind \in Kinds(cfg)}
        /\ bound' = {<<next, cfg.port>>}
        /\ slot' = slot
    BY <1>10, <2>1, <2>5, <2>6 DEF StartSpawn, CopyInv, Copied
  <2>8. {task[1] : task \in live'} = Service!Workers(cfg)
    <3>1. Kinds(cfg) = Service!Workers(cfg)
      BY DEF Kinds, Service!Workers
    <3> HIDE DEF cfg, next
    <3>2. ASSUME NEW kind \in Kinds(cfg) PROVE kind \in {task[1] : task \in live'}
      <4>1. <<kind, next>> \in live' /\ <<kind, next>>[1] = kind
        BY <2>7
      <4>2. QED
        BY <4>1
    <3>3. ASSUME NEW task \in live' PROVE task[1] \in Kinds(cfg)
      BY <2>7
    <3>4. QED
      BY <3>1, <3>2, <3>3
  <2>9. {b[2] : b \in bound'} = {cfg.port}
    BY <2>7
  <2>10. Service!Begin
    BY <2>4, <2>5, <2>7, <2>8, <2>9 DEF Service!Begin, Ending
  <2>11. QED
    BY <2>10 DEF Service!Next
<1>11. QED
  BY <1>1, <1>2, <1>3, <1>4, <1>5, <1>6, <1>7, <1>8, <1>9, <1>10
     DEF CallStep, StopStep, StartStep, Cancel, Goals

\* A task that ends was told to by the stop under way, or is the receiver.
LEMMA TaskEndServes ==
    ASSUME TypeInv, StopInv, NEW kind, NEW g, TaskEnds(kind, g),
           g \in signalled \/ (MaySocketError /\ kind = "udp")
    PROVE  Service!Next
<1>0. TypeOK /\ RunningMeansServing
  BY DEF TypeInv
<1>1. /\ <<kind, g>> \in live /\ live' = live \ {<<kind, g>>}
      /\ bound' = IF kind = "udp" THEN {b \in bound : b[1] # g} ELSE bound
      /\ UNCHANGED <<active, slot, op>>
  BY DEF TaskEnds, inner, data
<1>2. g = generation /\ kind \in {task[1] : task \in live}
  BY <1>1 DEF StopInv, OnlyCurrent
<1>3. \A task \in live : task = <<task[1], g>>
  BY <1>0, <1>2 DEF TypeOK, StopInv, OnlyCurrent
<1>4. {task[1] : task \in live'} = {task[1] : task \in live} \ {kind}
  BY <1>1, <1>3
<1>5. {b[2] : b \in bound'} = IF kind = "udp" THEN {} ELSE {b[2] : b \in bound}
  <2>1. \A b \in bound : b[1] = g
    BY <1>0, <1>2 DEF TypeOK, StopInv, OnlyCurrent
  <2>2. QED
    BY <1>1, <2>1
<1>6. Ending \/ (MaySocketError /\ kind = "udp")
  <2>1. ASSUME g \in signalled PROVE Ending
    <3>1. ~running
      BY <1>0, <1>2, <2>1 DEF RunningMeansServing
    <3>2. QED
      BY <1>1, <3>1 DEF StopInv, AwaitedEnd, Ending, Stopping
  <2>2. QED
    BY <2>1
<1>7. Service!Leave(kind)
  BY <1>1, <1>2, <1>4, <1>5, <1>6 DEF Service!Leave, Ending
<1>8. QED
  BY <1>2, <1>7 DEF Service!Next

LEMMA TaskStepServes ==
    ASSUME TypeInv, StopInv, NEW task \in live,
           TaskStep(task[1], task[2]) \/ SocketError(task[2])
    PROVE  [Service!Next]_(Service!vars)
<1> USE DEF inner, tasks, data
<1>1. CASE TaskWorks(task[1], task[2])
  BY <1>1, ServiceStutters DEF TaskWorks, Ending
<1>2. CASE TaskRequests(task[1], task[2])
  <2>1. task[1] \in {t[1] : t \in live}
    OBVIOUS
  <2>2. /\ slot' = IF task[1] = "heartbeat" THEN "disconnected" ELSE "connected"
        /\ UNCHANGED <<active, live, bound, op>>
    BY <1>2 DEF TaskRequests
  <2>3. Service!Tell
    BY <2>1, <2>2 DEF Service!Tell
  <2>4. QED
    BY <2>3 DEF Service!Next
<1>3. CASE TaskStops(task[1], task[2])
  BY <1>3, TaskEndServes DEF TaskStops
<1>4. CASE SocketError(task[2])
  BY <1>4, TaskEndServes DEF SocketError
<1>5. QED
  BY <1>1, <1>2, <1>3, <1>4 DEF TaskStep

LEMMA SettingsServe ==
    ASSUME TypeInv, SaveConfig \/ ApplyHz \/ ApplyTimeout
    PROVE  UNCHANGED Service!vars
<1>1. /\ UNCHANGED <<active, live, bound, slot>>
      /\ \A c \in Callers : op'[c].pc = op[c].pc
  BY SaveConfigKeeps
     DEF SaveConfig, ApplyHz, ApplyTimeout, inner, tasks, data, TypeInv
<1>2. QED
  BY <1>1, ServiceStutters DEF Ending

\* Whatever the order in which callers start, stop and restart it, the manager
\* is one service that begins and ends as a whole: what a stop leaves behind,
\* how many receivers there are and what clients hear are those of the service.
THEOREM RuntimeIsAService ==
    ASSUME ~MayCancel PROVE Spec => ImplementsService
<1>1. Init => Service!Init /\ SilentInv
  BY DEF Init, Service!Init, SilentInv, IdleOp, Stopping
<1>2. TypeInv /\ StopInv /\ SilentInv /\ [Next]_vars => [Service!Next]_(Service!vars)
  <2> SUFFICES ASSUME TypeInv, StopInv, SilentInv, [Next]_vars
               PROVE  [Service!Next]_(Service!vars)
    OBVIOUS
  <2>1. CASE UNCHANGED vars
    BY <2>1, ServiceStutters DEF vars, inner, tasks, data, Ending
  <2>2. ASSUME NEW c \in Callers, CallStep(c) PROVE [Service!Next]_(Service!vars)
    BY <2>2, CallerStepServes
  <2>3. QED
    BY <2>1, <2>2, TaskStepServes, SettingsServe DEF Next, RuntimeNext
<1>3. QED
  BY <1>1, <1>2, StopInvAlways, SilentInvNext, PTL
     DEF Spec, ImplementsService, Service!Spec

-----------------------------------------------------------------------------
(***************************************************************************)
(* What a restart serves, dropped callers or not                            *)
(***************************************************************************)

\* `seen` holds the configuration in force, and the one start() has copied.
SeenInv ==
    \A c \in Callers :
        /\ op[c].pc # "idle" => config \in op[c].seen
        /\ op[c].pc \in Copied => op[c].cfg \in op[c].seen

\* A restart that has stopped the runtime and waits to start it: whoever runs
\* it by then, or is about to, read the configuration after the restart began.
AheadInv ==
    \A c \in Callers :
        op[c].pc = "startLock" /\ op[c].goal = "restart" =>
            /\ running => active \in op[c].seen
            /\ \A d \in Callers : op[d].pc \in Copied => op[d].cfg \in op[c].seen

RestartInv == SeenInv /\ AheadInv

\* A caller that returns, or goes on without a new copy of the configuration.
LEMMA RestartInvElsewhere ==
    ASSUME RestartInv, NEW c \in Callers,
           Returns(c) \/ \E pc \in Points :
                            /\ MovesTo(c, pc)
                            /\ op[c].pc # "idle"
                            /\ pc # "startLock"
                            /\ pc \in Copied => op[c].pc \in Copied,
           UNCHANGED <<config, active>>, running' => running
    PROVE  RestartInv'
  BY DEF RestartInv, SeenInv, AheadInv, Returns, MovesTo, OthersStay, IdleOp,
         Copied

\* A caller whose stop is over finds nothing running and nobody starting.
LEMMA RestartInvAfterStop ==
    ASSUME TypeInv, RestartInv, NEW c \in Callers, AfterStop(c),
           op[c].pc # "idle", ~running, lock \in {None, c},
           op[c].pc \notin Copied,
           UNCHANGED <<config, active, running>>
    PROVE  RestartInv'
<1>1. TypeOK /\ MutexInv
  BY DEF TypeInv
<1>2. CASE Returns(c)
  BY <1>2, RestartInvElsewhere
<1>3. CASE MovesTo(c, "startLock")
  <2>1. \A d \in Callers : op'[d].pc \notin Copied
    BY <1>1, <1>3, OneHolder DEF MovesTo, OthersStay, Holding, Copied
  <2>2. QED
    BY <1>3, <2>1 DEF RestartInv, SeenInv, AheadInv, MovesTo, OthersStay
<1>4. QED
  BY <1>1, <1>2, <1>3, AfterStopMoves

LEMMA CallerStepRestartInv ==
    ASSUME TypeInv, RestartInv, NEW c \in Callers, CallStep(c)
    PROVE  RestartInv'
<1>0. TypeOK /\ MutexInv /\ LockedInv
  BY DEF TypeInv
<1> USE <1>0
<1> USE DEF inner, tasks, data
<1>1. ASSUME NEW goal \in Goals, Call(c, goal) PROVE RestartInv'
  <2>1. /\ OthersStay(c)
        /\ op'[c].pc = IF goal = "start" THEN "startLock" ELSE "stopLock"
        /\ op'[c].goal = goal /\ op'[c].seen = {config}
        /\ UNCHANGED <<config, running, active>>
    BY <1>1 DEF Call, TypeOK, OthersStay
  <2>2. QED
    BY <2>1 DEF RestartInv, SeenInv, AheadInv, OthersStay, Copied
<1>2. CASE StopNotRunning(c)
  BY <1>2, RestartInvAfterStop DEF StopNotRunning, At, Copied
<1>3. CASE StopNothingToMark(c) \/ StopRequest(c)
  <2>1. op[c].pc \in {"stopMark", "stopRequest"}
    BY <1>3 DEF StopNothingToMark, StopRequest, At
  <2>2. lock = c /\ ~running
    BY <2>1 DEF MutexInv, LockedInv, Holding
  <2>3. QED
    BY <1>3, <2>1, <2>2, RestartInvAfterStop
       DEF StopNothingToMark, StopRequest, Copied
<1>4. CASE StopSignal(c)
  <2>1. MovesTo(c, "stopAwait") /\ op[c].pc = "stopLock"
    BY <1>4, GotoMoves DEF StopSignal, At, Points
  <2>2. QED
    BY <1>4, <2>1, RestartInvElsewhere DEF StopSignal, Copied, Points
<1>5. CASE StopTasksEnded(c)
  <2>1. MovesTo(c, "stopMark") /\ op[c].pc = "stopAwait"
    BY <1>5, GotoMoves DEF StopTasksEnded, At, Points
  <2>2. ~running /\ running' = running /\ config' = config
    BY <1>5, <2>1 DEF StopTasksEnded, MutexInv, LockedInv, Holding
  <2>3. QED
    BY <2>1, <2>2
       DEF RestartInv, SeenInv, AheadInv, MovesTo, OthersStay, Copied
<1>6. CASE StopMark(c)
  <2>1. MovesTo(c, "stopRequest") /\ op[c].pc = "stopMark"
    BY <1>6, GotoMoves DEF StopMark, At, Points
  <2>2. QED
    BY <1>6, <2>1, RestartInvElsewhere DEF StopMark, Copied, Points
<1>7. CASE StartAlreadyRunning(c) \/ StartBadHost(c) \/ StartBindFails(c) \/ Cancel(c)
  <2>1. Returns(c)
    BY <1>7, ReturnReturns DEF StartAlreadyRunning, StartBadHost, StartBindFails, Cancel
  <2>2. UNCHANGED <<config, active, running>>
    BY <1>7 DEF StartAlreadyRunning, StartBadHost, StartBindFails, Cancel
  <2>3. QED
    BY <2>1, <2>2, RestartInvElsewhere
<1>8. CASE StartLock(c)
  <2>1. MovesTo(c, "startConfig") /\ op[c].pc = "startLock"
    BY <1>8, GotoMoves DEF StartLock, At, Points
  <2>2. QED
    BY <1>8, <2>1, RestartInvElsewhere DEF StartLock, Copied, Points
<1>9. CASE StartSetTimeout(c)
  <2>1. MovesTo(c, "startHz") /\ op[c].pc = "startTimeout"
    BY <1>9, GotoMoves DEF StartSetTimeout, At, Points
  <2>2. QED
    BY <1>9, <2>1, RestartInvElsewhere DEF StartSetTimeout, Copied, Points
<1>10. CASE StartSetHz(c)
  <2>1. MovesTo(c, "startBind") /\ op[c].pc = "startHz"
    BY <1>10, GotoMoves DEF StartSetHz, At, Points
  <2>2. QED
    BY <1>10, <2>1, RestartInvElsewhere DEF StartSetHz, Copied, Points
<1>11. CASE StartReadConfig(c)
  <2>1. op[c] \in Ops /\ op[c].pc = "startConfig"
    BY <1>11 DEF StartReadConfig, At, TypeOK
  <2>2. op'[c] = [op[c] EXCEPT !.pc = "startTimeout", !.cfg = config]
    BY <1>11 DEF StartReadConfig, TypeOK
  <2>3. /\ op'[c].pc = "startTimeout" /\ op'[c].cfg = config
        /\ op'[c].seen = op[c].seen
    BY <2>1, <2>2 DEF Ops
  <2>4. OthersStay(c) /\ UNCHANGED <<config, active, running>>
    BY <1>11 DEF StartReadConfig, TypeOK, OthersStay
  <2>5. QED
    BY <2>1, <2>3, <2>4 DEF RestartInv, SeenInv, AheadInv, OthersStay, Copied
<1>12. CASE StartSpawn(c)
  <2>1. Returns(c) /\ op[c].pc = "startBind"
    BY <1>12, ReturnReturns DEF StartSpawn, At
  <2>2. active' = op[c].cfg /\ config' = config
    BY <1>12 DEF StartSpawn
  <2>3. QED
    BY <2>1, <2>2
       DEF RestartInv, SeenInv, AheadInv, Returns, OthersStay, IdleOp, Copied
<1>13. QED
  BY <1>1, <1>2, <1>3, <1>4, <1>5, <1>6, <1>7, <1>8, <1>9, <1>10, <1>11, <1>12
     DEF CallStep, StopStep, StartStep, Goals

LEMMA RestartInvNext == TypeInv /\ RestartInv /\ [Next]_vars => RestartInv'
<1> SUFFICES ASSUME TypeInv, RestartInv, [Next]_vars PROVE RestartInv'
  OBVIOUS
<1>1. CASE UNCHANGED <<config, running, active, op>>
  BY <1>1 DEF RestartInv, SeenInv, AheadInv
<1>2. CASE SaveConfig
  <2>1. TypeOK /\ UNCHANGED <<running, active>>
    BY <1>2 DEF SaveConfig, inner, TypeInv
  <2>2. QED
    BY <1>2, <2>1, SaveConfigKeeps DEF RestartInv, SeenInv, AheadInv, Copied
<1>3. ASSUME NEW c \in Callers, CallStep(c) PROVE RestartInv'
  BY <1>3, CallerStepRestartInv
<1>4. QED
  BY <1>1, <1>2, <1>3
     DEF Next, RuntimeNext, TaskStep, TaskWorks, TaskRequests, TaskStops,
         SocketError, TaskEnds, ApplyHz, ApplyTimeout, vars, inner

\* A restart that succeeds leaves a runtime whose configuration was saved no
\* earlier than the restart was called, whoever else starts and stops.
THEOREM RestartIsFresh == Spec => RestartServesSaved
<1>1. Init => RestartInv
  BY DEF Init, RestartInv, SeenInv, AheadInv, IdleOp, Copied
<1>2. TypeInv /\ RestartInv =>
        [\A c \in Callers :
            op[c].goal = "restart" /\ (StartAlreadyRunning(c) \/ StartSpawn(c))
              => active' \in op[c].seen]_vars
  <2> SUFFICES ASSUME TypeInv, RestartInv, NEW c \in Callers,
                      op[c].goal = "restart",
                      StartAlreadyRunning(c) \/ StartSpawn(c)
               PROVE  active' \in op[c].seen
    OBVIOUS
  <2>1. CASE StartAlreadyRunning(c)
    BY <2>1 DEF StartAlreadyRunning, At, inner, RestartInv, AheadInv
  <2>2. CASE StartSpawn(c)
    BY <2>2 DEF StartSpawn, At, RestartInv, SeenInv, Copied
  <2>3. QED
    BY <2>1, <2>2
<1>3. QED
  BY <1>1, <1>2, TypeInvInit, TypeInvNext, RestartInvNext, PTL
     DEF Spec, RestartServesSaved
=============================================================================
