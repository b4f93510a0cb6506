-------------------------- MODULE TelemetryService --------------------------
(***************************************************************************)
(* What TelemetryRuntimeManager promises those who start, stop and restart  *)
(* it at the same time: a single service that is begun and ended as a whole.*)
(* Mutex, program counters, stop channels and handles are abstracted away.  *)
(*                                                                          *)
(* A service begins with all its workers and its port at once, with one     *)
(* configuration, and never beside another.  Clients hear from its workers  *)
(* only; once they have all left, and the clients were told so, nothing is  *)
(* said until the next service begins.                                      *)
(***************************************************************************)
CONSTANTS
    Configs,          \* configurations a service may begin with
    MayLoseReceiver,  \* the receiver may fail while the service goes on
    None              \* no configuration

VARIABLES
    serving,    \* the configuration of the service, None between services
    ending,     \* a stop is under way
    workers,    \* the kinds of its tasks that have not ended
    listening,  \* the ports it receives on
    told        \* what clients were last told: "connected", "disconnected"

vars == <<serving, ending, workers, listening, told>>

Workers(cfg) == {"udp", "heartbeat"} \cup (IF cfg.mock THEN {"mock"} ELSE {})

Init ==
    /\ serving = None
    /\ ending = FALSE
    /\ workers = {}
    /\ listening = {}
    /\ told = "none"

Begin ==
    /\ serving = None
    /\ ~ending
    /\ serving' \in Configs
    /\ workers' = Workers(serving')
    /\ listening' = {serving'.port}
    /\ UNCHANGED <<ending, told>>

\* Only the heartbeat tells clients that the game has fallen silent.
Tell ==
    /\ \E w \in workers :
          told' = IF w = "heartbeat" THEN "disconnected" ELSE "connected"
    /\ UNCHANGED <<serving, ending, workers, listening>>

Stop ==
    /\ serving # None
    /\ ~ending
    /\ ending' = TRUE
    /\ UNCHANGED <<serving, workers, listening, told>>

\* A worker leaves when it is stopped, the receiver when its socket fails too.
Leave(w) ==
    /\ w \in workers
    /\ ending \/ (MayLoseReceiver /\ w = "udp")
    /\ workers' = workers \ {w}
    /\ listening' = IF w = "udp" THEN {} ELSE listening
    /\ UNCHANGED <<serving, ending, told>>

End ==
    /\ ending
    /\ workers = {}
    /\ serving' = None
    /\ UNCHANGED <<ending, workers, listening, told>>

\* Clients that were told anything are told that the service is over.
Announce ==
    /\ ending
    /\ serving = None
    /\ ending' = FALSE
    /\ told' = IF told = "none" THEN "none" ELSE "disconnected"
    /\ UNCHANGED <<serving, workers, listening>>

Next ==
    \/ Begin
    \/ Tell
    \/ Stop
    \/ \E w \in workers : Leave(w)
    \/ End
    \/ Announce

Spec == Init /\ [][Next]_vars
=============================================================================
