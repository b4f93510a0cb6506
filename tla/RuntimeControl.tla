--------------------------- MODULE RuntimeControl ---------------------------
(***************************************************************************)
(* create_http_server.rs: the settings page's PUT /api/config beside the    *)
(* start, stop and restart requests of TelemetryRuntime.  The handler holds *)
(* no lock from end to end: it reads the configuration, writes the file,    *)
(* replaces the configuration, and sets the rate and the timeout, one after *)
(* the other, while other handlers run.  What the file holds meanwhile is   *)
(* ConfigFile's matter.  A request whose JSON or values are refused changes *)
(* nothing and has no action.                                               *)
(***************************************************************************)
EXTENDS TelemetryRuntime

CONSTANTS
    Browsers,   \* pages that save settings
    MaxSaves    \* bound on the number of PUT requests

ASSUME SavesAssumption == MaxSaves \in Nat

VARIABLES
    put,     \* progress of each browser's PUT, with old_config and next_config
    saves,   \* number of PUT requests, bounded
    owed     \* auxiliary: a page was told requiresTelemetryRestart, and no
             \* start has read the configuration since

controlVars == <<vars, put, saves, owed>>

IdlePut == [pc |-> "idle", old |-> None, new |-> None]

ControlInit ==
    /\ Init
    /\ put = [b \in Browsers |-> IdlePut]
    /\ saves = 0
    /\ owed = FALSE

PutGoto(b, pc) == put' = [put EXCEPT ![b].pc = pc]

\* requires_telemetry_restart: whatever the rate and the timeout do not cover.
RequiresTelemetryRestart(old, new) == old.port # new.port \/ old.mock # new.mock

-----------------------------------------------------------------------------
\* The request is valid: its hosts are addresses.
PutReadsOld(b, new) ==
    /\ put[b].pc = "idle"
    /\ new.port # NoAddress
    /\ saves < MaxSaves
    /\ saves' = saves + 1
    /\ put' = [put EXCEPT ![b] = [pc |-> "save", old |-> config, new |-> new]]
    /\ UNCHANGED <<vars, owed>>

\* save_public_config writes config.json, or the request ends with its error.
PutSavesFile(b) ==
    /\ put[b].pc = "save"
    /\ PutGoto(b, "write")
    /\ UNCHANGED <<vars, saves, owed>>

PutSaveFails(b) ==
    /\ put[b].pc = "save"
    /\ put' = [put EXCEPT ![b] = IdlePut]
    /\ UNCHANGED <<vars, saves, owed>>

\* The handler is dropped while it waits for the lock of the configuration: the
\* file has been written, and nobody is told.
PutDropped(b) ==
    /\ put[b].pc = "write"
    /\ put' = [put EXCEPT ![b] = IdlePut]
    /\ UNCHANGED <<vars, saves, owed>>

\* Mutant: the configurations are compared once the old one is replaced.
PutReplacesConfigFirst(b) ==
    /\ put[b].pc = "write"
    /\ config' = put[b].new
    /\ SaveConfig
    /\ owed' = (owed \/ RequiresTelemetryRestart(config', put[b].new))
    /\ PutGoto(b, "hz")
    /\ UNCHANGED saves

\* The answer will say whether the telemetry has to be restarted.
PutReplacesConfig(b) ==
    /\ put[b].pc = "write"
    /\ config' = put[b].new
    /\ SaveConfig
    /\ owed' = (owed \/ RequiresTelemetryRestart(put[b].old, put[b].new))
    /\ PutGoto(b, "hz")
    /\ UNCHANGED saves

PutSetsHz(b) ==
    /\ put[b].pc = "hz"
    /\ liveHz' = put[b].new.live
    /\ ApplyHz
    /\ PutGoto(b, "timeout")
    /\ UNCHANGED <<saves, owed>>

PutSetsTimeout(b) ==
    /\ put[b].pc = "timeout"
    /\ liveTimeout' = put[b].new.live
    /\ ApplyTimeout
    /\ put' = [put EXCEPT ![b] = IdlePut]
    /\ UNCHANGED <<saves, owed>>

PutStep(b) == PutSavesFile(b) \/ PutSaveFails(b) \/ PutDropped(b)
                \/ PutReplacesConfig(b) \/ PutSetsHz(b) \/ PutSetsTimeout(b)

\* A step of the runtime; the start that reads the configuration settles `owed`.
RuntimeStep ==
    /\ RuntimeNext
    /\ owed' = (owed /\ ~\E c \in Callers : At(c, "startConfig")
                                             /\ op'[c].pc = "startTimeout")
    /\ UNCHANGED <<put, saves>>

ControlNext ==
    \/ RuntimeStep
    \/ \E b \in Browsers : PutStep(b) \/ \E new \in Configs : PutReadsOld(b, new)

ControlSpec == ControlInit /\ [][ControlNext]_controlVars

-----------------------------------------------------------------------------
(***************************************************************************)
(* Properties                                                               *)
(***************************************************************************)

Saving == \E b \in Browsers : put[b].pc # "idle"
Starting == \E c \in Callers :
                op[c].pc \in {"startTimeout", "startHz", "startBind"}

\* Type invariant of the handler: a PUT under way knows both configurations.
ControlTypeOK ==
    /\ TypeOK
    /\ put \in [Browsers -> {IdlePut} \cup
                  [pc : {"save", "write", "hz", "timeout"},
                   old : Configs, new : Configs]]
    /\ saves \in Nat
    /\ owed \in BOOLEAN

\* README-WINDOWS.md: UDP and mock settings are applied by a restart.  Unless two
\* requests compare configurations at the same time, a runtime that serves other
\* than the configuration in force was reported: the page was told to restart,
\* however many saves (failed, or of the rate alone) and starts came in between.
OutdatedRuntimeIsReported ==
    running /\ (active.port # config.port \/ active.mock # config.mock) => owed

\* README-WINDOWS.md:70: "Broadcast Hz" and "Connection Timeout" apply as soon
\* as they are saved.  A start() that read the configuration before the save
\* and sets them after it puts the old ones back.
SettingsApplyAtOnce ==
    ~Saving /\ ~Starting => liveHz = config.live /\ liveTimeout = config.live
=============================================================================
