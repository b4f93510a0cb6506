--------------------------- MODULE TelemetryClient ---------------------------
(***************************************************************************)
(* telemetryClient.ts and the effect of useTelemetry.ts that starts and     *)
(* stops it: the page's WebSocket, its replacement when it is closed, and   *)
(* the first fetch of /api/telemetry.  Every action is one task of the      *)
(* browser's event loop.                                                    *)
(*                                                                          *)
(* A WebSocket fires its events only as its ready state allows: nothing but *)
(* "close" after close() was called, and "error" only just before "close",  *)
(* when the handler's own close() does nothing any more.                    *)
(***************************************************************************)
CONSTANTS
    Sockets,   \* WebSocket objects that are not closed yet, reused once they are
    NoSocket   \* null

ASSUME SocketsAssumption == NoSocket \notin Sockets

VARIABLES
    shouldReconnect,  \* between start() and stop(): the dashboard is mounted
    socket,           \* this.socket
    ready,            \* readyState of each WebSocket
    timer,            \* reconnectTimer: "none", "set", or "fired" and not reset
    status,           \* what the dashboard shows
    hasLatest,        \* this.latest is not null
    fetching,         \* the first fetch has not been answered
    network           \* the server can be reached

vars == <<shouldReconnect, socket, ready, timer, status, hasLatest, fetching,
          network>>

Init ==
    /\ shouldReconnect = FALSE
    /\ socket = NoSocket
    /\ ready = [s \in Sockets |-> "closed"]
    /\ timer = "none"
    /\ status = "connecting"
    /\ hasLatest = FALSE
    /\ fetching = FALSE
    /\ network \in BOOLEAN

\* connect(): a new WebSocket.  As many may be on their way out as Sockets holds.
Connect ==
    \E s \in Sockets :
        /\ ready[s] = "closed"
        /\ ready' = [ready EXCEPT ![s] = "connecting"]
        /\ socket' = s
        /\ status' = IF hasLatest THEN "reconnecting" ELSE "connecting"

\* Mutant: the page is not told.
ScheduleReconnectQuietly ==
    /\ timer' = IF shouldReconnect /\ timer = "none" THEN "set" ELSE timer
    /\ UNCHANGED status

\* scheduleReconnect(), reached once this.socket is null.
ScheduleReconnect ==
    IF shouldReconnect /\ timer = "none"
    THEN timer' = "set" /\ status' = "reconnecting"
    ELSE UNCHANGED <<timer, status>>

-----------------------------------------------------------------------------
\* The effect mounts: start(), then the fetch.
Start ==
    /\ ~shouldReconnect
    /\ shouldReconnect' = TRUE
    /\ fetching' = TRUE
    /\ IF socket # NoSocket THEN UNCHANGED <<ready, socket, status>> ELSE Connect
    /\ UNCHANGED <<timer, hasLatest, network>>

CloseSocket ==
    ready' = IF socket = NoSocket THEN ready
             ELSE [ready EXCEPT ![socket] = "closing"]

\* Mutant: the timer goes on.
StopKeepingTimer ==
    /\ shouldReconnect
    /\ shouldReconnect' = FALSE
    /\ CloseSocket
    /\ socket' = NoSocket
    /\ status' = "disconnected"
    /\ UNCHANGED <<timer, hasLatest, fetching, network>>

\* The effect's clean-up: stop().
Stop ==
    /\ shouldReconnect
    /\ shouldReconnect' = FALSE
    /\ timer' = "none"
    /\ CloseSocket
    /\ socket' = NoSocket
    /\ status' = "disconnected"
    /\ UNCHANGED <<hasLatest, fetching, network>>

\* The answer is used whether or not the effect is still mounted, and an error
\* or an answer without a snapshot is ignored.
FetchEnds ==
    /\ fetching
    /\ fetching' = FALSE
    /\ hasLatest' \in {hasLatest, TRUE}
    /\ UNCHANGED <<shouldReconnect, socket, ready, timer, status, network>>

-----------------------------------------------------------------------------
\* Events of a WebSocket.

OpenEvent(s) ==
    /\ ready[s] = "connecting"
    /\ network
    /\ ready' = [ready EXCEPT ![s] = "open"]
    /\ status' = IF socket = s THEN "connected" ELSE status
    /\ UNCHANGED <<shouldReconnect, socket, timer, hasLatest, fetching, network>>

MessageEvent(s) ==
    /\ ready[s] = "open"
    /\ hasLatest' = (hasLatest \/ socket = s)
    /\ UNCHANGED <<shouldReconnect, socket, ready, timer, status, fetching,
                   network>>

\* Mutant: any socket's end is taken for the end of the current one.
ClosedUnchecked(s) ==
    /\ ready' = [ready EXCEPT ![s] = "closed"]
    /\ socket' = NoSocket
    /\ ScheduleReconnect
    /\ UNCHANGED <<shouldReconnect, hasLatest, fetching, network>>

\* The "close" event: an old socket's end is ignored.
Closed(s) ==
    /\ ready' = [ready EXCEPT ![s] = "closed"]
    /\ IF socket = s
       THEN socket' = NoSocket /\ ScheduleReconnect
       ELSE UNCHANGED <<socket, timer, status>>
    /\ UNCHANGED <<shouldReconnect, hasLatest, fetching, network>>

CloseCompletes(s) == ready[s] = "closing" /\ Closed(s)

\* The connection cannot be made, or is lost.
ConnectionFails(s) == ready[s] \in {"connecting", "open"} /\ ~network /\ Closed(s)

\* The server's handler ends: a send to this browser failed or timed out.
ServerCloses(s) == ready[s] = "open" /\ Closed(s)

-----------------------------------------------------------------------------
\* Mutant: the handle of the timer is not forgotten.
TimerFiresKeepingHandle ==
    /\ timer = "set"
    /\ timer' = "fired"
    /\ Connect
    /\ UNCHANGED <<shouldReconnect, hasLatest, fetching, network>>

TimerFires ==
    /\ timer = "set"
    /\ timer' = "none"
    /\ Connect
    /\ UNCHANGED <<shouldReconnect, hasLatest, fetching, network>>

NetworkChanges ==
    /\ network' = ~network
    /\ UNCHANGED <<shouldReconnect, socket, ready, timer, status, hasLatest,
                   fetching>>

SocketEvent(s) == OpenEvent(s) \/ MessageEvent(s) \/ CloseCompletes(s)
                    \/ ConnectionFails(s) \/ ServerCloses(s)

Next ==
    \/ Start
    \/ Stop
    \/ FetchEnds
    \/ TimerFires
    \/ NetworkChanges
    \/ \E s \in Sockets : SocketEvent(s)

Spec == Init /\ [][Next]_vars

\* A timer fires; an attempt to connect succeeds or fails, and a close ends.
Fairness ==
    /\ WF_vars(TimerFires)
    /\ \A s \in Sockets : /\ WF_vars(OpenEvent(s))
                          /\ WF_vars(CloseCompletes(s))
                          /\ WF_vars(ConnectionFails(s))

FairSpec == Spec /\ Fairness

-----------------------------------------------------------------------------
(***************************************************************************)
(* Properties                                                               *)
(***************************************************************************)

Statuses == {"connecting", "connected", "reconnecting", "disconnected"}

\* Type invariant: a stopped client has neither socket nor timer.
TypeOK ==
    /\ shouldReconnect \in BOOLEAN
    /\ socket \in Sockets \cup {NoSocket}
    /\ ready \in [Sockets -> {"closed", "connecting", "open", "closing"}]
    /\ timer \in {"none", "set"}
    /\ status \in Statuses
    /\ hasLatest \in BOOLEAN
    /\ fetching \in BOOLEAN
    /\ network \in BOOLEAN
    /\ ~shouldReconnect => socket = NoSocket /\ timer = "none"

Live(s) == ready[s] \in {"connecting", "open"}

\* Whatever the order of mounts, clean-ups, timers and late events of sockets
\* already replaced, one page never keeps two connections: the only socket that
\* is not on its way out is the client's own.
OneConnection == \A s \in Sockets : Live(s) => socket = s

\* A mounted client has a connection, is making one, or has a timer that will,
\* and never both a socket and a timer.
NeverAbandoned ==
    shouldReconnect =>
        /\ timer = "set" <=> socket = NoSocket
        /\ socket # NoSocket => Live(socket)

\* The page says "connected" exactly while its own socket is open.
StatusTellsTruth ==
    status = "connected" <=> socket # NoSocket /\ ready[socket] = "open"

\* telemetryClient.ts:142: automatic reconnect keeps dashboards alive when the
\* server restarts or Wi-Fi briefly drops.  A client that stays mounted, on a
\* network that comes back for good, is connected again after every close.
Reconnects ==
    <>[](shouldReconnect /\ network) => []<>(status = "connected")
=============================================================================
