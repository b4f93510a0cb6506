-------------------------- MODULE TelemetryDelivery --------------------------
(***************************************************************************)
(* From the store to the browsers: tasks that update or re-read the store   *)
(* and request a broadcast, the throttle between them and the frame         *)
(* channel, and telemetry_websocket.rs, one handler for each client.        *)
(*                                                                          *)
(* The broadcaster is LatestThrottle, which TelemetryBroadcaster implements.*)
(* A snapshot is named by its place among the store's updates, a request by *)
(* its place among the requests: two tasks, each between its update and its *)
(* request, may request in the other order.                                 *)
(***************************************************************************)
EXTENDS Integers, Sequences

CONSTANTS
    Clients,      \* browsers
    Writers,      \* tasks that update the store: UDP receiver, mock
    Repeaters,    \* tasks that request what is stored: heartbeat, stop()
    Capacity,     \* credits of the throttle
    MaxUpdates,   \* bound on updates
    MaxRequests   \* bound on requests

ASSUME SourcesAssumption == Writers \cap Repeaters = {}
ASSUME BoundsAssumption ==
    Capacity \in Nat \ {0} /\ MaxUpdates \in Nat /\ MaxRequests \in Nat

Sources == Writers \cup Repeaters

VARIABLES
    stored,     \* the newest snapshot: inner.latest, 0 for None
    carried,    \* the snapshot a task will request, 0 for none
    requests,   \* the snapshot of each request
    published,  \* the request the frame channel holds, 0 for None
    floor,      \* the throttle's books, see LatestThrottle
    credit,
    pc,         \* where the handler of each client is
    unseen,     \* its receiver has not seen the channel's value
    hand,       \* the snapshot it is sending
    frame,      \* the request that snapshot came with, 0 for a greeting
    sent,       \* the snapshot the client was last sent, on any connection
    last        \* auxiliary: the request last forwarded on this connection

source  == <<stored, carried, requests>>
channel == <<published, floor, credit>>
handler == <<pc, unseen, hand, frame, sent, last>>
vars == <<source, channel, handler>>

Throttle == INSTANCE LatestThrottle WITH requested <- Len(requests)

SnapshotOf(request) == IF request = 0 THEN 0 ELSE requests[request]

Init ==
    /\ stored = 0
    /\ carried = [s \in Sources |-> 0]
    /\ requests = <<>>
    /\ Throttle!Init
    /\ pc = [c \in Clients |-> "closed"]
    /\ unseen = [c \in Clients |-> FALSE]
    /\ hand = [c \in Clients |-> 0]
    /\ frame = [c \in Clients |-> 0]
    /\ sent = [c \in Clients |-> 0]
    /\ last = [c \in Clients |-> 0]

-----------------------------------------------------------------------------
\* The tasks: store, or read, with the store's lock; then request without it.

Update(s) ==
    /\ carried[s] = 0
    /\ stored < MaxUpdates
    /\ stored' = stored + 1
    /\ carried' = [carried EXCEPT ![s] = stored + 1]
    /\ UNCHANGED <<requests, channel, handler>>

Reread(s) ==
    /\ carried[s] = 0
    /\ stored # 0
    /\ carried' = [carried EXCEPT ![s] = stored]
    /\ UNCHANGED <<stored, requests, channel, handler>>

RequestBroadcast(s) ==
    /\ carried[s] # 0
    /\ Len(requests) < MaxRequests
    /\ requests' = Append(requests, carried[s])
    /\ carried' = [carried EXCEPT ![s] = 0]
    /\ Throttle!Request
    /\ UNCHANGED <<stored, handler>>

-----------------------------------------------------------------------------
\* The broadcaster.

Earn == UNCHANGED <<source, handler>> /\ Throttle!Earn

Drop == UNCHANGED <<source, handler>> /\ Throttle!Drop

\* A closed connection has no receiver.
NotifyReceivers == unseen' = [c \in Clients |-> pc[c] # "closed"]

\* Mutant: any request that was not published is kept for later.
PublishKept ==
    /\ credit > 0
    /\ credit' = credit - 1
    /\ published' \in 1 .. Len(requests)
    /\ floor' = Len(requests)
    /\ NotifyReceivers
    /\ UNCHANGED <<source, pc, hand, frame, sent, last>>

Publish ==
    /\ UNCHANGED <<source, pc, hand, frame, sent, last>>
    /\ Throttle!Publish
    /\ published' # 0
    /\ NotifyReceivers

-----------------------------------------------------------------------------
\* The handler of client c.

\* subscribe() before the upgrade: what the channel holds by now is seen.
Subscribe(c) ==
    /\ pc[c] = "closed"
    /\ pc' = [pc EXCEPT ![c] = "upgrade"]
    /\ unseen' = [unseen EXCEPT ![c] = FALSE]
    /\ last' = [last EXCEPT ![c] = 0]
    /\ UNCHANGED <<source, channel, hand, frame, sent>>

\* Mutant: the handler's receiver outlives it.
CloseKeepingReceiver(c) ==
    /\ pc' = [pc EXCEPT ![c] = "closed"]
    /\ UNCHANGED <<source, channel, unseen, hand, frame, last>>

\* The connection ends, and its receiver with it.
Close(c) ==
    /\ pc' = [pc EXCEPT ![c] = "closed"]
    /\ unseen' = [unseen EXCEPT ![c] = FALSE]
    /\ UNCHANGED <<source, channel, hand, frame, last>>

UpgradeFails(c) == pc[c] = "upgrade" /\ Close(c) /\ UNCHANGED sent

UpgradeSucceeds(c) ==
    /\ pc[c] = "upgrade"
    /\ pc' = [pc EXCEPT ![c] = "open"]
    /\ UNCHANGED <<source, channel, unseen, hand, frame, sent, last>>

Send(c, snapshot, request, at) ==
    /\ pc' = [pc EXCEPT ![c] = at]
    /\ hand' = [hand EXCEPT ![c] = snapshot]
    /\ frame' = [frame EXCEPT ![c] = request]
    /\ UNCHANGED <<source, channel, unseen, sent, last>>

NothingToGreetWith(c) ==
    /\ pc[c] = "open"
    /\ stored = 0
    /\ pc' = [pc EXCEPT ![c] = "wait"]
    /\ UNCHANGED <<source, channel, unseen, hand, frame, sent, last>>

\* Mutant: the client is greeted with the frame the channel holds.
GreetWithFrame(c) ==
    /\ pc[c] = "open"
    /\ published # 0
    /\ Send(c, SnapshotOf(published), 0, "greet")

Greet(c) ==
    /\ pc[c] = "open"
    /\ stored # 0
    /\ Send(c, stored, 0, "greet")

Changed(c) ==
    /\ pc[c] = "wait"
    /\ unseen[c]
    /\ unseen' = [unseen EXCEPT ![c] = FALSE]
    /\ pc' = [pc EXCEPT ![c] = "borrow"]
    /\ UNCHANGED <<source, channel, hand, frame, sent, last>>

\* A value that came after changed() is read now and remains unseen.
Borrow(c) ==
    /\ pc[c] = "borrow"
    /\ Send(c, SnapshotOf(published), published, "send")

Sending(c) == pc[c] \in {"greet", "send"}

\* Mutant: the handler subscribes once it has sent.
SendSucceedsThenSubscribes(c) ==
    /\ Sending(c)
    /\ pc' = [pc EXCEPT ![c] = "wait"]
    /\ unseen' = [unseen EXCEPT ![c] = FALSE]
    /\ sent' = [sent EXCEPT ![c] = hand[c]]
    /\ last' = [last EXCEPT ![c] = frame[c]]
    /\ UNCHANGED <<source, channel, hand, frame>>

SendSucceeds(c) ==
    /\ Sending(c)
    /\ pc' = [pc EXCEPT ![c] = "wait"]
    /\ sent' = [sent EXCEPT ![c] = hand[c]]
    /\ last' = [last EXCEPT ![c] = frame[c]]
    /\ UNCHANGED <<source, channel, unseen, hand, frame>>

SendFails(c) == Sending(c) /\ Close(c) /\ UNCHANGED sent

\* Mutant: a client that takes nothing is waited for.
SendNeverTimesOut(c) == FALSE

\* 250 ms have passed; what was being sent may have arrived.
SendTimesOut(c) ==
    /\ Sending(c)
    /\ Close(c)
    /\ sent' \in {sent, [sent EXCEPT ![c] = hand[c]]}

HandlerStep(c) ==
    \/ NothingToGreetWith(c)
    \/ Greet(c)
    \/ Changed(c)
    \/ Borrow(c)
    \/ SendTimesOut(c)

\* What the browser and the network do.
ClientStep(c) == Subscribe(c) \/ UpgradeFails(c) \/ UpgradeSucceeds(c)
                   \/ SendSucceeds(c) \/ SendFails(c)

SourceStep ==
    \/ \E s \in Writers : Update(s)
    \/ \E s \in Repeaters : Reread(s)
    \/ \E s \in Sources : RequestBroadcast(s)

Next ==
    \/ SourceStep
    \/ Earn
    \/ Drop
    \/ Publish
    \/ \E c \in Clients : HandlerStep(c) \/ ClientStep(c)

Spec == Init /\ [][Next]_vars

\* The handler is a task of its own, and its timer fires unless the send ends
\* first.  Nothing obliges a browser to connect, to complete the upgrade, or to
\* take what it is sent.
Fairness == \A c \in Clients : WF_vars(HandlerStep(c))

FairSpec == Spec /\ Fairness

-----------------------------------------------------------------------------
(***************************************************************************)
(* Properties                                                               *)
(***************************************************************************)

Points == {"closed", "upgrade", "open", "greet", "wait", "borrow", "send"}

\* Type invariant: nothing is requested, published or sent that is not stored,
\* and only an open connection has a receiver.
TypeOK ==
    /\ stored \in Nat
    /\ carried \in [Sources -> 0 .. stored]
    /\ requests \in Seq(1 .. stored)
    /\ published \in 0 .. Len(requests)
    /\ floor \in published .. Len(requests)
    /\ credit \in 0 .. Capacity
    /\ pc \in [Clients -> Points]
    /\ unseen \in [Clients -> BOOLEAN]
    /\ \A c \in Clients : unseen[c] => pc[c] # "closed"
    /\ hand \in [Clients -> 0 .. stored]
    /\ frame \in [Clients -> 0 .. Len(requests)]
    /\ sent \in [Clients -> 0 .. stored]
    /\ last \in [Clients -> 0 .. Len(requests)]

\* The handler subscribes before it greets: a client whose handler waits and has
\* seen the channel was sent a snapshot no older than the frame in the channel,
\* which may have been published between the two.
WaitingClientIsServed ==
    \A c \in Clients :
        pc[c] = "wait" /\ ~unseen[c] => sent[c] >= SnapshotOf(published)

\* After its greeting a client is never forwarded a request older than one
\* forwarded before, although requests are dropped, read late and published
\* twice.
FramesMoveForward ==
    [][\A c \in Clients : Borrow(c) => frame'[c] >= last[c]]_vars

\* latency-packet-loss-notes.md: a browser that reconnects resumes from the
\* latest state.  The greeting of a new connection is never older than what the
\* client got on the connections before, the frame of a timed-out send included.
ReconnectResumesForward ==
    [][\A c \in Clients : Greet(c) => hand'[c] >= sent[c]]_vars

\* A frame published once a client is connected is sent to it, or a newer one
\* is, or the connection ends: a slow client never holds a frame, nor the
\* handler, for ever.
FrameReachesClient ==
    \A c \in Clients, n \in 1 .. MaxRequests :
        pc[c] \notin {"closed", "upgrade"} /\ unseen[c] /\ published = n
            ~> pc[c] = "closed" \/ last[c] >= n
=============================================================================
