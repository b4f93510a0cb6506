--------------------------- MODULE LatestThrottle ---------------------------
(***************************************************************************)
(* What TelemetryBroadcaster promises its callers and its subscribers, with *)
(* the clock, the select! loop and the channels abstracted away.            *)
(*                                                                          *)
(* Snapshots are named by the order in which they were requested.  A        *)
(* publication costs one credit and at most Capacity credits can be saved   *)
(* up.  Each decision, to publish or to drop, closes the books on everything *)
(* requested so far: what is published later is never older than the newest *)
(* request at the decision before it, so a dropped snapshot never comes     *)
(* back and subscribers never see an older snapshot after a newer one.      *)
(***************************************************************************)
EXTENDS Integers

CONSTANT Capacity

VARIABLES
    requested,  \* number of the newest requested snapshot, 0 before the first
    published,  \* number of the snapshot subscribers see, 0 for none
    floor,      \* requested, at the time of the latest decision
    credit      \* publications that may be made at once

vars == <<requested, published, floor, credit>>

Init ==
    /\ requested = 0
    /\ published = 0
    /\ floor = 0
    /\ credit = 1

Request ==
    /\ requested' = requested + 1
    /\ UNCHANGED <<published, floor, credit>>

Earn ==
    /\ credit' \in (credit + 1) .. Capacity
    /\ UNCHANGED <<requested, published, floor>>

Publish ==
    /\ credit > 0
    /\ credit' = credit - 1
    /\ published' \in floor .. requested
    /\ floor' = requested
    /\ UNCHANGED requested

\* Nothing is published.  A credit may be lost (serialization failed) or
\* earned (the bucket is refilled, not far enough) in the same step.
Drop ==
    /\ floor' = requested
    /\ credit' \in 0 .. Capacity
    /\ credit' >= credit - 1
    /\ UNCHANGED <<requested, published>>

Next == Request \/ Earn \/ Publish \/ Drop

Spec == Init /\ [][Next]_vars
=============================================================================
