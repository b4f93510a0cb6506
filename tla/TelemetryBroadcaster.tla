------------------------ MODULE TelemetryBroadcaster ------------------------
(***************************************************************************)
(* telemetry_broadcaster.rs: tasks hand snapshots to request_broadcast, and *)
(* one spawned task (run_broadcast_loop) forwards them to the watch channel *)
(* that every WebSocket client subscribes to, capped by a token bucket.     *)
(*                                                                          *)
(* A snapshot is named by the position of its send_replace in the request   *)
(* channel: the n-th value written is n, and 0 is the initial None.  Time   *)
(* is a count of ticks.  A token is Scale quanta, and a broadcast rate is   *)
(* the number of quanta a tick earns, so that a rate that does not divide a *)
(* token leaves a fraction in the bucket, as the f64 of the code does.      *)
(***************************************************************************)
EXTENDS Integers, FiniteSets

CONSTANTS
    Callers,      \* tasks that call request_broadcast
    Rates,        \* values set_broadcast_hz is called with
    InitialRate,  \* broadcast_hz given to TelemetryBroadcaster::new
    Scale,        \* quanta of one token
    MaxTime,      \* bound on the clock
    MaxRequests   \* bound on calls of request_broadcast

ASSUME CallersAssumption == IsFiniteSet(Callers)
ASSUME RatesAssumption == Rates \subseteq Nat \ {0} /\ InitialRate \in Rates
ASSUME ScaleAssumption == Scale \in Nat \ {0}
ASSUME BoundsAssumption == MaxTime \in Nat /\ MaxRequests \in Nat

VARIABLES
    now,                  \* Instant::now()
    requestCount,         \* AtomicU64 request_count
    caller,               \* progress of each caller in request_broadcast
    request,              \* value (and version) of the request watch channel
    seen,                 \* version request_rx has marked as seen
    intervalSlot,         \* value of the interval watch channel
    intervalChanged,      \* interval_rx has not seen that value
    loopPc,               \* where run_broadcast_loop is
    pending,              \* its local `pending`
    interval,             \* its local `interval`, as a rate
    tokens,               \* its local `tokens`, in quanta
    lastRefill,           \* its local `last_refill`
    watched,              \* value of the frame watch channel
    broadcastCount,       \* stats.broadcast_count
    serializationErrors,  \* stats.serialization_errors
    reader,               \* a call of stats(): pc and the requests it loaded
    earned,               \* auxiliary: quanta the rates in effect have earned
    window,               \* auxiliary: start of the window RateCap looks at
    floor                 \* auxiliary: request when the loop last decided

callVars  == <<requestCount, caller, request>>
setVars   == <<intervalSlot>>
localVars == <<pending, interval, tokens, lastRefill>>
statVars  == <<broadcastCount, serializationErrors>>
auxVars   == <<earned, window, floor>>
vars == <<now, callVars, seen, setVars, intervalChanged, loopPc, localVars,
          watched, statVars, reader, auxVars>>

Capacity == 2
BucketSize == Capacity * Scale

\* Requests the loop has let through: published, failed, or past the token
\* check and not yet recorded.
Spent == broadcastCount + serializationErrors
           + (IF loopPc = "record" THEN 1 ELSE 0)

Init ==
    /\ now = 0
    /\ requestCount = 0
    /\ caller = [c \in Callers |-> "idle"]
    /\ request = 0
    /\ seen = 0
    /\ intervalSlot = InitialRate
    /\ intervalChanged = FALSE
    /\ loopPc = "select"
    /\ pending = 0
    /\ interval = InitialRate
    /\ tokens = Scale
    /\ lastRefill = 0
    /\ watched = 0
    /\ broadcastCount = 0
    /\ serializationErrors = 0
    /\ reader = [pc |-> "idle", requests |-> 0]
    /\ earned = 0
    /\ window = [earned |-> 0, spent |-> 0]
    /\ floor = 0

-----------------------------------------------------------------------------
\* request_broadcast, called by the UDP, mock and heartbeat tasks and by stop:
\* the counter first, then the channel.

CountRequest(c) ==
    /\ caller[c] = "idle"
    /\ requestCount < MaxRequests
    /\ requestCount' = requestCount + 1
    /\ caller' = [caller EXCEPT ![c] = "counted"]
    /\ UNCHANGED <<now, request, seen, setVars, intervalChanged, loopPc,
                   localVars, watched, statVars, reader, auxVars>>

ReplaceRequest(c) ==
    /\ caller[c] = "counted"
    /\ request' = request + 1
    /\ caller' = [caller EXCEPT ![c] = "idle"]
    /\ UNCHANGED <<now, requestCount, seen, setVars, intervalChanged, loopPc,
                   localVars, watched, statVars, reader, auxVars>>

\* set_broadcast_hz: send_replace notifies even when the value is the same.
SetBroadcastHz ==
    /\ intervalSlot' \in Rates
    /\ intervalChanged' = TRUE
    /\ UNCHANGED <<now, callVars, seen, loopPc, localVars, watched, statVars,
                   reader, auxVars>>

-----------------------------------------------------------------------------
\* run_broadcast_loop.  changed() marks the value seen and a later borrow()
\* reads whatever is there by then, without marking it.

RefilledTokens ==
    LET refilled == tokens + (now - lastRefill) * interval
    IN  IF refilled > BucketSize THEN BucketSize ELSE refilled

IntervalReady ==
    /\ loopPc = "select"
    /\ intervalChanged
    /\ intervalChanged' = FALSE
    /\ loopPc' = "interval"
    /\ UNCHANGED <<now, callVars, seen, setVars, localVars, watched, statVars,
                   reader, auxVars>>

\* Mutants: the new rate credited for the time before it; a local `interval`
\* that shadows the loop's.
ApplyIntervalFirst ==
    /\ loopPc = "interval"
    /\ tokens' = LET refilled == tokens + (now - lastRefill) * intervalSlot
                 IN  IF refilled > BucketSize THEN BucketSize ELSE refilled
    /\ lastRefill' = now
    /\ interval' = intervalSlot
    /\ loopPc' = "select"
    /\ UNCHANGED <<now, callVars, seen, setVars, intervalChanged, pending,
                   watched, statVars, reader, auxVars>>

ApplyIntervalShadowed ==
    /\ loopPc = "interval"
    /\ tokens' = RefilledTokens
    /\ lastRefill' = now
    /\ loopPc' = "select"
    /\ UNCHANGED <<now, callVars, seen, setVars, intervalChanged, pending,
                   interval, watched, statVars, reader, auxVars>>

\* The time since the last refill is credited at the old rate.
ApplyInterval ==
    /\ loopPc = "interval"
    /\ tokens' = RefilledTokens
    /\ lastRefill' = now
    /\ interval' = intervalSlot
    /\ loopPc' = "select"
    /\ UNCHANGED <<now, callVars, seen, setVars, intervalChanged, pending,
                   watched, statVars, reader, auxVars>>

\* Mutant: has_changed() in place of changed(), which leaves the value unseen.
RequestReadyUnmarked ==
    /\ loopPc = "select"
    /\ seen # request
    /\ loopPc' = "borrow"
    /\ UNCHANGED <<now, callVars, seen, setVars, intervalChanged, localVars,
                   watched, statVars, reader, auxVars>>

RequestReady ==
    /\ loopPc = "select"
    /\ seen # request
    /\ seen' = request
    /\ loopPc' = "borrow"
    /\ UNCHANGED <<now, callVars, setVars, intervalChanged, localVars,
                   watched, statVars, reader, auxVars>>

\* Mutant: the value that woke the loop is taken, and the channel marked then.
BorrowPendingThenMark ==
    /\ loopPc = "borrow"
    /\ pending' = seen
    /\ seen' = request
    /\ loopPc' = "refill"
    /\ UNCHANGED <<now, callVars, setVars, intervalChanged, interval, tokens,
                   lastRefill, watched, statVars, reader, auxVars>>

\* Mutant: a request the loop had no token for is kept and published later.
BorrowPendingUnlessKept ==
    /\ loopPc = "borrow"
    /\ pending' = IF pending > watched THEN pending ELSE request
    /\ loopPc' = "refill"
    /\ UNCHANGED <<now, callVars, seen, setVars, intervalChanged, interval,
                   tokens, lastRefill, watched, statVars, reader, auxVars>>

\* The clone in borrow().clone() is Some: no one writes None, so the
\* `else { continue }` after the token check has no action here.
BorrowPending ==
    /\ loopPc = "borrow"
    /\ pending' = request
    /\ loopPc' = "refill"
    /\ UNCHANGED <<now, callVars, seen, setVars, intervalChanged, interval,
                   tokens, lastRefill, watched, statVars, reader, auxVars>>

Refill ==
    /\ loopPc = "refill"
    /\ tokens' = RefilledTokens
    /\ lastRefill' = now
    /\ UNCHANGED <<now, callVars, seen, setVars, intervalChanged, pending,
                   interval, watched, statVars, reader, earned, window>>

\* Mutant: any part of a token is taken for one.
TakeTokenUnripe ==
    /\ RefilledTokens > 0
    /\ Refill
    /\ loopPc' = "record"
    /\ UNCHANGED floor

TakeToken ==
    /\ RefilledTokens >= Scale
    /\ Refill
    /\ loopPc' = "record"
    /\ UNCHANGED floor

\* No token: the request is forgotten, and nothing will look at it again
\* unless another one arrives.
DropRequest ==
    /\ RefilledTokens < Scale
    /\ Refill
    /\ loopPc' = "select"
    /\ floor' = request

\* Mutant: the counter is bumped without the mutex.
RecordBroadcastUnlocked ==
    /\ loopPc = "record"
    /\ broadcastCount' = broadcastCount + 1
    /\ loopPc' = "send"
    /\ UNCHANGED <<now, callVars, seen, setVars, intervalChanged, localVars,
                   watched, serializationErrors, reader, auxVars>>

\* record_broadcast needs the stats mutex, which stats() may hold.
RecordBroadcast ==
    /\ loopPc = "record"
    /\ reader.pc = "idle"
    /\ broadcastCount' = broadcastCount + 1
    /\ loopPc' = "send"
    /\ UNCHANGED <<now, callVars, seen, setVars, intervalChanged, localVars,
                   watched, serializationErrors, reader, auxVars>>

\* watch_tx.send_replace(Some(frame)); tokens -= 1.0
SendFrame ==
    /\ loopPc = "send"
    /\ watched' = pending
    /\ floor' = request
    /\ tokens' = tokens - Scale
    /\ loopPc' = "select"
    /\ UNCHANGED <<now, callVars, seen, setVars, intervalChanged, pending,
                   interval, lastRefill, statVars, reader, earned, window>>

\* A frame that cannot be serialized costs its token all the same.
RecordSerializationError ==
    /\ loopPc = "record"
    /\ reader.pc = "idle"
    /\ serializationErrors' = serializationErrors + 1
    /\ tokens' = tokens - Scale
    /\ floor' = request
    /\ loopPc' = "select"
    /\ UNCHANGED <<now, callVars, seen, setVars, intervalChanged, pending,
                   interval, lastRefill, watched, broadcastCount, reader,
                   earned, window>>

-----------------------------------------------------------------------------
\* stats(), called by GET /api/status: with the mutex held, request_count is
\* loaded first and broadcast_count read after it, as the call returns.

StatsStep(from) ==
    /\ reader.pc = from
    /\ UNCHANGED <<now, callVars, seen, setVars, intervalChanged, loopPc,
                   localVars, watched, statVars, auxVars>>

StatsLock ==
    /\ reader' = [pc |-> "locked", requests |-> 0]
    /\ StatsStep("idle")

StatsLoadRequests ==
    /\ reader' = [pc |-> "loaded", requests |-> requestCount]
    /\ StatsStep("locked")

StatsReadBroadcasts ==
    /\ reader' = [pc |-> "idle", requests |-> 0]
    /\ StatsStep("loaded")

-----------------------------------------------------------------------------
Tick ==
    /\ now < MaxTime
    /\ now' = now + 1
    /\ earned' = earned + interval
    /\ UNCHANGED <<callVars, seen, setVars, intervalChanged, loopPc, localVars,
                   watched, statVars, reader, window, floor>>

\* Auxiliary: any moment may be the start of the window RateCap speaks of.
OpenWindow ==
    /\ window' = [earned |-> earned, spent |-> Spent]
    /\ UNCHANGED <<now, callVars, seen, setVars, intervalChanged, loopPc,
                   localVars, watched, statVars, reader, earned, floor>>

Publish == TakeToken \/ DropRequest \/ RecordBroadcast \/ SendFrame
             \/ RecordSerializationError

LoopStep == IntervalReady \/ ApplyInterval \/ RequestReady \/ BorrowPending
              \/ Publish

Next ==
    \/ \E c \in Callers : CountRequest(c) \/ ReplaceRequest(c)
    \/ SetBroadcastHz
    \/ LoopStep
    \/ StatsLock
    \/ StatsLoadRequests
    \/ StatsReadBroadcasts
    \/ Tick
    \/ OpenWindow

Spec == Init /\ [][Next]_vars

\* The loop and the mutex as in BroadcastLoop; a caller does not await between
\* its two steps; and time goes on.
Fairness ==
    /\ WF_vars(LoopStep)
    /\ SF_vars(IntervalReady)
    /\ SF_vars(RequestReady)
    /\ SF_vars(RecordBroadcast \/ RecordSerializationError)
    /\ WF_vars(StatsLoadRequests \/ StatsReadBroadcasts)
    /\ \A c \in Callers : WF_vars(ReplaceRequest(c))
    /\ WF_vars(Tick)

FairSpec == Spec /\ Fairness

-----------------------------------------------------------------------------
(***************************************************************************)
(* Properties                                                               *)
(***************************************************************************)

\* Type invariant of the broadcaster's channels, locals and counters.
TypeOK ==
    /\ now \in Nat
    /\ requestCount \in Nat
    /\ caller \in [Callers -> {"idle", "counted"}]
    /\ request \in Nat
    /\ seen \in Nat
    /\ intervalSlot \in Rates
    /\ intervalChanged \in BOOLEAN
    /\ loopPc \in {"select", "interval", "borrow", "refill", "record", "send"}
    /\ pending \in Nat
    /\ interval \in Rates
    /\ tokens \in 0 .. BucketSize
    /\ lastRefill \in 0 .. now
    /\ watched \in Nat
    /\ broadcastCount \in Nat
    /\ serializationErrors \in Nat
    /\ reader \in [pc : {"idle", "locked", "loaded"}, requests : Nat]
    /\ earned \in Nat
    /\ window \in [earned : Nat, spent : Nat]
    /\ floor \in Nat

\* The WebSocket cap of run_broadcast_loop: from any moment on, whatever the
\* rate was changed to and however often, the requests let through cost no
\* more than a full bucket and what the rates in effect since then have earned.
RateCap ==
    Scale * (Spent - window.spent) <= BucketSize + (earned - window.earned)

\* What stats() reports together: the broadcast_request_count it has loaded is
\* not behind the broadcast_count it is about to read, so the saturating_sub
\* of coalesced_broadcast_requests never hides a negative count.
StatsNeverUnderflow ==
    reader.pc = "loaded" => broadcastCount <= reader.requests

\* A frame that is let through is paid for by a request of its own, even though
\* the loop may borrow a value newer than the one that woke it and publish it
\* again; and stats() reports the two counts in an order that shows it.
EveryFrameWasRequested == Spent <= requestCount /\ StatsNeverUnderflow

\* No wake-up is lost: a loop that waits has decided on the newest request and
\* works at the rate last set, whatever arrived between its waking up, its
\* borrowing the value and its waiting again.
WaitingLoopIsUpToDate ==
    loopPc = "select" /\ seen = request /\ ~intervalChanged =>
        pending = request /\ interval = intervalSlot

\* The broadcaster implements LatestThrottle: a credit is a whole token.
Throttle == INSTANCE LatestThrottle WITH
    requested <- request,
    published <- watched,
    credit <- IF tokens >= BucketSize THEN 2
              ELSE IF tokens >= Scale THEN 1 ELSE 0

\* run_broadcast_loop is a latest-only throttle: one token a frame, two at
\* most, and never a frame older than what an earlier decision had in hand.
ImplementsThrottle == Throttle!Spec

\* The broadcaster implements BroadcastLoop: it is decided what to do with a
\* request from the moment it woke the loop.
Loop == INSTANCE BroadcastLoop WITH
    requestChanged <- seen # request,
    loopPc <- IF loopPc \in {"borrow", "refill"} THEN "decide" ELSE loopPc,
    statsHeld <- reader.pc # "idle"

\* The channels mark a value seen when the loop wakes for it and at no other
\* time, the rate changes hands only there, and nothing else holds the loop up:
\* so what BroadcastLoop shows of endless requests holds of this loop.
ImplementsLoop == Loop!Spec

\* docs/latency-packet-loss-notes.md, on requests faster than the cap: "old
\* pending snapshots are intentionally coalesced and only the newest snapshot
\* is published".  The loop drops the newest one when it has no token.
NewestIsPublished ==
    \A n \in 1 .. MaxRequests :
        (request = n) ~> (watched >= n \/ serializationErrors > 0)
=============================================================================
