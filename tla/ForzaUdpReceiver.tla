-------------------------- MODULE ForzaUdpReceiver --------------------------
(***************************************************************************)
(* forza_udp_receiver.rs: the loop that receives a packet, parses it on one  *)
(* of two paths and hands the result to the store.  The metadata of a packet *)
(* is sampled: at most one in SampleInterval is stored with it, errors       *)
(* always are.  Time passes between the test for a sample and the instant    *)
(* the next one is due.  The stop signal is TelemetryRuntime's, what the     *)
(* store and the broadcaster do with a snapshot TelemetryDelivery's.         *)
(***************************************************************************)
EXTENDS ForzaPacketParser

CONSTANTS
    Packets,         \* the packets the game, or whoever sends to the port, sends
    SampleInterval,  \* PACKET_INFO_SAMPLE_INTERVAL, in ticks
    MaxTime          \* bound on time

ASSUME PacketsAssumption == Packets \subseteq Packet
ASSUME IntervalAssumption == SampleInterval \in Nat \ {0}

VARIABLES
    debug,         \* the parser's debug_packet, fixed while the loop runs
    now,           \* Instant::now()
    nextSampleAt,  \* next_packet_info_sample_at
    handling,      \* the packet received and parsed, not yet handed on
    shown,         \* the snapshot last handed to store.update
    shownSince,    \* auxiliary: when the packet of `shown` was received
    info           \* last_packet_info, and when it was stored (auxiliary)

vars == <<debug, now, nextSampleAt, handling, shown, shownSince, info>>

NoPacket == [none |-> TRUE]
Handled(p, capture) ==
    [packet |-> p, capture |-> capture, receivedAt |-> now,
     outcome |-> IF capture THEN Parse(p, debug) ELSE ParseSnapshot(p, debug)]

Init ==
    /\ debug \in BOOLEAN
    /\ now = 0
    /\ nextSampleAt = 0
    /\ handling = NoPacket
    /\ shown = None
    /\ shownSince = 0
    /\ info = [accepted |-> FALSE, profile |-> None, at |-> 0]

-----------------------------------------------------------------------------
ReceivePacket(p) ==
    /\ handling = NoPacket
    /\ handling' = Handled(p, now >= nextSampleAt)
    /\ UNCHANGED <<debug, now, nextSampleAt, shown, shownSince, info>>

\* Mutant: every packet puts the next sample off, not only a sampled one.
AcceptAndPutOff ==
    /\ handling # NoPacket
    /\ handling.outcome.ok
    /\ nextSampleAt' = now + SampleInterval
    /\ info' = IF handling.capture
               THEN [accepted |-> TRUE, profile |-> handling.outcome.profile,
                     at |-> now]
               ELSE info
    /\ shown' = handling.outcome.snapshot
    /\ shownSince' = handling.receivedAt
    /\ handling' = NoPacket
    /\ UNCHANGED <<debug, now>>

AcceptPacket ==
    /\ handling # NoPacket
    /\ handling.outcome.ok
    /\ IF handling.capture
       THEN /\ nextSampleAt' = now + SampleInterval
            /\ info' = [accepted |-> TRUE, profile |-> handling.outcome.profile,
                        at |-> now]
       ELSE UNCHANGED <<nextSampleAt, info>>
    /\ shown' = handling.outcome.snapshot
    /\ shownSince' = handling.receivedAt
    /\ handling' = NoPacket
    /\ UNCHANGED <<debug, now>>

\* The sample that an unreadable packet was to give stays due.
RejectPacket ==
    /\ handling # NoPacket
    /\ ~handling.outcome.ok
    /\ info' = [accepted |-> FALSE, profile |-> "parse-error", at |-> now]
    /\ handling' = NoPacket
    /\ UNCHANGED <<debug, now, nextSampleAt, shown, shownSince>>

Tick ==
    /\ now < MaxTime
    /\ now' = now + 1
    /\ UNCHANGED <<debug, nextSampleAt, handling, shown, shownSince, info>>

Next ==
    \/ \E p \in Packets : ReceivePacket(p)
    \/ AcceptPacket
    \/ RejectPacket
    \/ Tick

Spec == Init /\ [][Next]_vars

-----------------------------------------------------------------------------
(***************************************************************************)
(* Properties                                                               *)
(***************************************************************************)

Seconds == (Nat \ {0}) \cup {None}
Race == [active : BOOLEAN, best : Seconds, last : Seconds, current : Seconds,
         time : Seconds, lap : Seconds, position : Seconds]

Gears == -2 .. 10
Steering == -127 .. 127
Share == 0 .. 100

\* Everything shown but the accelerations is a number in its range.
Snapshot == [speed : Nat, rpm : Nat, maxRpm : Nat, power : Nat \cup {None},
             gear : Gears, steer : Steering, tire : Int \cup {None},
             accel : Float, fuel : Share \cup {None},
             distance : Nat \cup {None}, race : Race]

Outcome == {ParseError}
             \cup [ok : {TRUE}, profile : {"fh6", "motorsport", "sled"},
                   snapshot : Snapshot]

\* Type invariant, and the ranges of what is shown: whatever bytes arrive,
\* the values handed to the store are finite and inside the dashboard's scales
\* (the accelerations excepted, which the parser passes on as they are).
TypeOK ==
    /\ debug \in BOOLEAN
    /\ now \in Nat
    /\ nextSampleAt \in Nat
    /\ handling = NoPacket
         \/ handling \in [packet : Packets, capture : BOOLEAN,
                          receivedAt : 0 .. now, outcome : Outcome]
    /\ shown = None \/ shown \in Snapshot
    /\ shownSince \in 0 .. now
    /\ info \in [accepted : BOOLEAN, at : 0 .. now,
                 profile : {None, "fh6", "motorsport", "sled", "parse-error"}]

\* A packet means the same on every path: sampling its metadata (parse instead
\* of parse_snapshot) and turning debug_packet on change neither whether it is
\* accepted nor what it shows.
PathsAgree ==
    handling # NoPacket =>
        \A d \in BOOLEAN :
            /\ Parse(handling.packet, d) = handling.outcome
            /\ ParseSnapshot(handling.packet, d) = handling.outcome

PanelHasContext(r) ==
    IF r.active
    THEN /\ r.lap # None /\ r.position # None
         /\ \/ r.current # None /\ r.time # None
            \/ r.best # None
            \/ r.last # None
    ELSE r = NoRace

\* forza_packet_parser.rs:656: the race panel is exposed only with lap and
\* position context.  An active panel shows a lap, a position and either both
\* running timers or a completed lap; an inactive one shows none of them.
RacePanelHasContext == shown # None => PanelHasContext(shown.race)

\* The metadata keeps up with the stream: what was stored last is never a whole
\* SampleInterval older than the packet on display, however many packets were
\* accepted unsampled or refused in between.
InfoKeepsUp == shown # None => shownSince < info.at + SampleInterval
=============================================================================
