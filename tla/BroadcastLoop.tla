---------------------------- MODULE BroadcastLoop ----------------------------
(***************************************************************************)
(* run_broadcast_loop as what wakes and blocks it: the two watch channels   *)
(* its select! waits for, and the stats mutex it needs to record a frame.   *)
(* Requests, changes of the rate and calls of stats() come without end; of  *)
(* a request only that there is an unseen one is kept, and whether a token  *)
(* is left is open.  The state is finite, so nothing bounds how busy the    *)
(* loop is.  TelemetryBroadcaster implements this module.                   *)
(***************************************************************************)
EXTENDS Integers

CONSTANTS
    Rates,        \* values set_broadcast_hz is called with
    InitialRate   \* broadcast_hz given to TelemetryBroadcaster::new

ASSUME RatesAssumption == Rates \subseteq Nat \ {0} /\ InitialRate \in Rates

VARIABLES
    requestChanged,    \* request_rx has not seen the latest request
    intervalSlot,      \* value of the interval watch channel
    intervalChanged,   \* interval_rx has not seen that value
    loopPc,            \* where the loop is
    interval,          \* its local `interval`
    statsHeld          \* stats() holds the stats mutex

vars == <<requestChanged, intervalSlot, intervalChanged, loopPc, interval,
          statsHeld>>

Init ==
    /\ requestChanged = FALSE
    /\ intervalSlot = InitialRate
    /\ intervalChanged = FALSE
    /\ loopPc = "select"
    /\ interval = InitialRate
    /\ statsHeld = FALSE

-----------------------------------------------------------------------------
\* The other tasks, at any moment and as often as they like.

Request ==
    /\ requestChanged' = TRUE
    /\ UNCHANGED <<intervalSlot, intervalChanged, loopPc, interval, statsHeld>>

SetBroadcastHz ==
    /\ intervalSlot' \in Rates
    /\ intervalChanged' = TRUE
    /\ UNCHANGED <<requestChanged, loopPc, interval, statsHeld>>

StatsLock ==
    /\ ~statsHeld
    /\ statsHeld' = TRUE
    /\ UNCHANGED <<requestChanged, intervalSlot, intervalChanged, loopPc,
                   interval>>

StatsUnlock ==
    /\ statsHeld
    /\ statsHeld' = FALSE
    /\ UNCHANGED <<requestChanged, intervalSlot, intervalChanged, loopPc,
                   interval>>

-----------------------------------------------------------------------------
\* Mutants: `biased;` in select!, with the branches in either order.

IntervalReadyIfNoRequest ==
    /\ loopPc = "select"
    /\ intervalChanged
    /\ ~requestChanged
    /\ intervalChanged' = FALSE
    /\ loopPc' = "interval"
    /\ UNCHANGED <<requestChanged, intervalSlot, interval, statsHeld>>

IntervalReady ==
    /\ loopPc = "select"
    /\ intervalChanged
    /\ intervalChanged' = FALSE
    /\ loopPc' = "interval"
    /\ UNCHANGED <<requestChanged, intervalSlot, interval, statsHeld>>

ApplyInterval ==
    /\ loopPc = "interval"
    /\ interval' = intervalSlot
    /\ loopPc' = "select"
    /\ UNCHANGED <<requestChanged, intervalSlot, intervalChanged, statsHeld>>

RequestReadyIfSameRate ==
    /\ loopPc = "select"
    /\ requestChanged
    /\ ~intervalChanged
    /\ requestChanged' = FALSE
    /\ loopPc' = "decide"
    /\ UNCHANGED <<intervalSlot, intervalChanged, interval, statsHeld>>

RequestReady ==
    /\ loopPc = "select"
    /\ requestChanged
    /\ requestChanged' = FALSE
    /\ loopPc' = "decide"
    /\ UNCHANGED <<intervalSlot, intervalChanged, interval, statsHeld>>

LoopMoves(from, to) ==
    /\ loopPc = from
    /\ loopPc' = to
    /\ UNCHANGED <<requestChanged, intervalSlot, intervalChanged, interval,
                   statsHeld>>

\* With a token the frame is made, without one the request is forgotten.
Decide == LoopMoves("decide", "record") \/ LoopMoves("decide", "select")

\* record_broadcast, after which the frame is sent, or
\* record_serialization_error: both wait for the mutex.
Record ==
    /\ ~statsHeld
    /\ LoopMoves("record", "send") \/ LoopMoves("record", "select")

SendFrame == LoopMoves("send", "select")

LoopStep == IntervalReady \/ ApplyInterval \/ RequestReady \/ Decide \/ Record
              \/ SendFrame

Next == Request \/ SetBroadcastHz \/ StatsLock \/ StatsUnlock \/ LoopStep

Spec == Init /\ [][Next]_vars

\* The loop is a spawned task, woken by both channels.  select! without
\* `biased;` polls its branches in a random order each time, so a branch that
\* is ready again and again is taken some time.  stats() does not await while
\* it holds the mutex; that the loop gets it some time, though others keep
\* asking for it, is an assumption: std's mutex promises no order.
Fairness ==
    /\ WF_vars(LoopStep)
    /\ SF_vars(IntervalReady)
    /\ SF_vars(RequestReady)
    /\ SF_vars(Record)
    /\ WF_vars(StatsUnlock)

FairSpec == Spec /\ Fairness

-----------------------------------------------------------------------------
\* Neither branch of select! starves the other, and stats() blocks neither: a
\* rate given to set_broadcast_hz becomes the loop's although requests never
\* cease, and a request is looked at although the rate is changed for ever.
NeitherChannelStarves ==
    /\ (interval # intervalSlot) ~> (interval = intervalSlot)
    /\ requestChanged ~> ~requestChanged
=============================================================================
