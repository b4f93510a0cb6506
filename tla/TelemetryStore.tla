--------------------------- MODULE TelemetryStore ---------------------------
(***************************************************************************)
(* telemetry_store.rs: the latest snapshot, the time it was stored and the  *)
(* packet statistics, behind one async RwLock, and the connection timeout   *)
(* in an atomic.                                                            *)
(*                                                                          *)
(* update() reads the wall clock first and then waits for the write lock,   *)
(* so two writers may store in the other order than they read; everything   *)
(* it does with the lock held is one step.  Times are milliseconds.  Of a   *)
(* snapshot the model keeps the gear and the connected flag; the EMA of the *)
(* packet interval is left out, and so is what the packet metadata says.    *)
(* GET /api/status takes the read lock eight times for one answer.          *)
(***************************************************************************)
EXTENDS Integers, Sequences

CONSTANTS
    Writers,          \* tasks that call update(): the UDP receiver, the mock
    InfoWriters,      \* those that pass packet_info: the UDP receiver
    Readers,          \* HTTP clients that GET /api/status
    Gears,            \* gears the parser and the mock produce
    Timeouts,         \* values of connection_timeout_ms
    RecentCapacity,   \* RECENT_PACKET_GAP_CAPACITY, 16 in the code
    Instants,         \* values SystemTime takes
    MaxUpdates        \* bound on the number of updates

\* The runtime runs one UDP receiver at a time.
ASSUME WritersAssumption ==
    InfoWriters \subseteq Writers /\ \A v, w \in InfoWriters : v = w
\* normalize_gear yields -2 for what it does not know, -1 for reverse, 1..10;
\* the fallback for unknown layouts yields 0.
ASSUME GearsAssumption == Gears \subseteq -2 .. 10
ASSUME TimeoutsAssumption == Timeouts \subseteq Nat \ {0} /\ Timeouts # {}
ASSUME CapacityAssumption == RecentCapacity \in Nat \ {0}
ASSUME ClockAssumption == Instants \subseteq Nat \ {0}
ASSUME BoundAssumption == MaxUpdates \in Nat

VARIABLES
    clock,          \* now_millis()
    timeout,        \* connection_timeout_ms
    latest,         \* the snapshot, present or not
    lastPacketAt,   \* last_packet_at, 0 before the first packet
    lastInfo,       \* last_packet_info and last_packet_info_at
    sequence,       \* number of updates
    maxGap,         \* max_packet_gap_ms
    gapCount,       \* packet_gap_count
    histogram,      \* packet_gap_histogram, its seven buckets in order
    recent,         \* recent_packet_gaps
    writer,         \* progress of each writer in update()
    status,         \* progress of each GET /api/status and what it has read
    storedAt        \* auxiliary: the clock when the latest update took effect,
                    \* SetBack once the clock has been set back

gapVars   == <<maxGap, gapCount, histogram, recent>>
storeVars == <<latest, lastPacketAt, lastInfo, sequence, gapVars, storedAt>>
vars == <<clock, timeout, storeVars, writer, status>>

\* The wall clock has only moved forward so far.
SetBack == -1
Steady == storedAt # SetBack

UnknownShiftGear == -2

\* Mutant: the threshold tuned without the buckets.
TunedWarningMs == 60

WarningMs == 50
Buckets == 1 .. 7

\* The arms of record_packet_gap_bucket.
Bucket(gap) ==
    CASE gap \in 0 .. 8     -> 1
      [] gap \in 9 .. 16    -> 2
      [] gap \in 17 .. 33   -> 3
      [] gap \in 34 .. 50   -> 4
      [] gap \in 51 .. 100  -> 5
      [] gap \in 101 .. 250 -> 6
      [] OTHER              -> 7

SaturatingSub(a, b) == IF a > b THEN a - b ELSE 0

Displayable(gear) == gear >= -1 /\ gear <= 10

\* What api_status() has read: packetAt, infoAt, aged and info say which of
\* lastPacketAt, lastPacketInfoAt, lastPacketAgeMs and lastPacket are not null.
IdleStatus ==
    [pc |-> "idle", packetAt |-> FALSE, infoAt |-> FALSE, aged |-> FALSE,
     gaps |-> 0, connected |-> FALSE, gameConnected |-> FALSE, has |-> FALSE,
     received |-> 0, info |-> FALSE]

Init ==
    /\ clock \in Instants
    /\ timeout \in Timeouts
    /\ latest = [present |-> FALSE, gear |-> UnknownShiftGear,
                 connected |-> FALSE]
    /\ lastPacketAt = 0
    /\ lastInfo = [present |-> FALSE, at |-> 0]
    /\ sequence = 0
    /\ maxGap = 0
    /\ gapCount = 0
    /\ histogram = [b \in Buckets |-> 0]
    /\ recent = <<>>
    /\ writer = [w \in Writers |-> [pc |-> "idle", now |-> 0]]
    /\ status = [r \in Readers |-> IdleStatus]
    /\ storedAt = 0

-----------------------------------------------------------------------------
\* update()

ReadClock(w) ==
    /\ writer[w].pc = "idle"
    /\ sequence < MaxUpdates
    /\ writer' = [writer EXCEPT ![w] = [pc |-> "waiting", now |-> clock]]
    /\ UNCHANGED <<clock, timeout, storeVars, status>>

\* Mutant: reverse forgotten among the gears worth keeping.
KeptForwardGear(gear) ==
    IF gear <= UnknownShiftGear /\ latest.present /\ latest.gear \in 1 .. 10
    THEN latest.gear ELSE gear

\* The gear stored for a snapshot: an unknown one keeps the last valid one.
KeptGear(gear) ==
    IF gear <= UnknownShiftGear /\ latest.present /\ Displayable(latest.gear)
    THEN latest.gear ELSE gear

\* Mutant: room is made one sample too late.
RememberOneMore(sample) ==
    Append(IF Len(recent) > RecentCapacity THEN Tail(recent) ELSE recent,
           sample)

\* The ring buffer: the oldest sample makes room when it is full.
Remember(sample) ==
    Append(IF Len(recent) = RecentCapacity THEN Tail(recent) ELSE recent,
           sample)

\* Mutant: a gap of zero, which a clock set back yields too, is not recorded.
RecordPositiveGap(now, gap) ==
    IF gap = 0 THEN UNCHANGED gapVars
    ELSE /\ histogram' = [histogram EXCEPT ![Bucket(gap)] = @ + 1]
         /\ maxGap' = IF gap > maxGap THEN gap ELSE maxGap
         /\ IF gap >= WarningMs
            THEN /\ gapCount' = gapCount + 1
                 /\ recent' = Remember([at |-> now, gap |-> gap])
            ELSE UNCHANGED <<gapCount, recent>>

RecordGap(now, gap) ==
    /\ histogram' = [histogram EXCEPT ![Bucket(gap)] = @ + 1]
    /\ maxGap' = IF gap > maxGap THEN gap ELSE maxGap
    /\ IF gap >= WarningMs
       THEN /\ gapCount' = gapCount + 1
            /\ recent' = Remember([at |-> now, gap |-> gap])
       ELSE UNCHANGED <<gapCount, recent>>

\* With the write lock held.
Store(w, gear, info) ==
    LET now == writer[w].now
    IN  /\ writer[w].pc = "waiting"
        /\ IF lastPacketAt > 0
           THEN RecordGap(now, SaturatingSub(now, lastPacketAt))
           ELSE UNCHANGED gapVars
        /\ latest' = [present |-> TRUE, gear |-> KeptGear(gear),
                      connected |-> TRUE]
        /\ sequence' = sequence + 1
        /\ lastPacketAt' = now
        /\ lastInfo' = IF info THEN [present |-> TRUE, at |-> now]
                       ELSE lastInfo
        /\ storedAt' = IF Steady THEN clock ELSE SetBack
        /\ writer' = [writer EXCEPT ![w] = [pc |-> "idle", now |-> 0]]
        /\ UNCHANGED <<clock, timeout, status>>

\* Packet metadata is sampled, so the receiver passes it with some packets.
Update(w) ==
    \E gear \in Gears, info \in BOOLEAN :
        /\ info => w \in InfoWriters
        /\ Store(w, gear, info)

\* Mutants: a parse error that counts as a packet; one reported from a task of
\* its own, with the time read before the lock.
SetLastPacketInfoAsPacket ==
    /\ lastInfo' = [present |-> TRUE, at |-> clock]
    /\ lastPacketAt' = clock
    /\ UNCHANGED <<clock, timeout, latest, sequence, gapVars, storedAt,
                   writer, status>>

SetLastPacketInfoConcurrently ==
    /\ lastInfo' = [present |-> TRUE, at |-> clock]
    /\ UNCHANGED <<clock, timeout, latest, lastPacketAt, sequence, gapVars,
                   storedAt, writer, status>>

\* set_last_packet_info(), on a packet that does not parse.
SetLastPacketInfo ==
    /\ \E w \in InfoWriters : writer[w].pc = "idle"
    /\ lastInfo' = [present |-> TRUE, at |-> clock]
    /\ UNCHANGED <<clock, timeout, latest, lastPacketAt, sequence, gapVars,
                   storedAt, writer, status>>

\* Mutants: the store emptied as a whole; the vehicle cleared as well, with the
\* raw value of a shift.
MarkDisconnectedByReset ==
    /\ latest.present
    /\ latest' = [present |-> FALSE, gear |-> UnknownShiftGear,
                  connected |-> FALSE]
    /\ lastPacketAt' = 0
    /\ lastInfo' = [present |-> FALSE, at |-> 0]
    /\ sequence' = 0
    /\ maxGap' = 0
    /\ gapCount' = 0
    /\ histogram' = [b \in Buckets |-> 0]
    /\ recent' = <<>>
    /\ UNCHANGED <<clock, timeout, storedAt, writer, status>>

MarkDisconnectedAndClear ==
    /\ latest.present
    /\ latest' = [latest EXCEPT !.connected = FALSE, !.gear = 11]
    /\ UNCHANGED <<clock, timeout, lastPacketAt, lastInfo, sequence, gapVars,
                   storedAt, writer, status>>

\* mark_disconnected(), when the runtime stops.
MarkDisconnected ==
    /\ latest.present
    /\ latest' = [latest EXCEPT !.connected = FALSE]
    /\ UNCHANGED <<clock, timeout, lastPacketAt, lastInfo, sequence, gapVars,
                   storedAt, writer, status>>

SetConnectionTimeoutMs ==
    /\ timeout' \in Timeouts
    /\ UNCHANGED <<clock, storeVars, writer, status>>

IsConnectedAt(packetAt, now) ==
    packetAt > 0 /\ SaturatingSub(now, packetAt) <= timeout

\* What get_latest() returns: connected is worked out anew, whatever the
\* snapshot says.
GetLatest == [latest EXCEPT !.connected = IsConnectedAt(lastPacketAt, clock)]

-----------------------------------------------------------------------------
\* GET /api/status takes the read lock once for each field, in this order.

StatusRead(r, from, to, fields) ==
    /\ status[r].pc = from
    /\ status' = [status EXCEPT ![r] = [fields EXCEPT !.pc = to]]
    /\ UNCHANGED <<clock, timeout, storeVars, writer>>

StatusLastPacketAt(r) ==
    StatusRead(r, "idle", "infoAt",
               [IdleStatus EXCEPT !.packetAt = lastPacketAt > 0])

StatusLastPacketInfoAt(r) ==
    StatusRead(r, "infoAt", "timing",
               [status[r] EXCEPT !.infoAt = lastInfo.at > 0])

\* timing_stats() reads the age and the gap statistics under one lock.
StatusTiming(r) ==
    StatusRead(r, "timing", "connected",
               [status[r] EXCEPT !.aged = lastPacketAt > 0, !.gaps = gapCount])

\* is_connected() twice, each time with the clock of its own moment.
StatusConnected(r) ==
    StatusRead(r, "connected", "gameConnected",
               [status[r] EXCEPT
                !.connected = IsConnectedAt(lastPacketAt, clock)])

StatusGameConnected(r) ==
    StatusRead(r, "gameConnected", "has",
               [status[r] EXCEPT
                !.gameConnected = IsConnectedAt(lastPacketAt, clock)])

StatusHasTelemetry(r) ==
    StatusRead(r, "has", "received",
               [status[r] EXCEPT !.has = latest.present])

StatusSequence(r) ==
    StatusRead(r, "received", "info", [status[r] EXCEPT !.received = sequence])

StatusLastPacketInfo(r) ==
    StatusRead(r, "info", "done",
               [status[r] EXCEPT !.info = lastInfo.present])

StatusDone(r) == StatusRead(r, "done", "idle", IdleStatus)

Status(r) ==
    \/ StatusLastPacketAt(r) \/ StatusLastPacketInfoAt(r) \/ StatusTiming(r)
    \/ StatusConnected(r) \/ StatusGameConnected(r) \/ StatusHasTelemetry(r)
    \/ StatusSequence(r) \/ StatusLastPacketInfo(r) \/ StatusDone(r)

-----------------------------------------------------------------------------
\* SystemTime is a wall clock: it may be set back.
Advance ==
    /\ clock' \in Instants
    /\ storedAt' = IF clock' < clock THEN SetBack ELSE storedAt
    /\ UNCHANGED <<timeout, latest, lastPacketAt, lastInfo, sequence, gapVars,
                   writer, status>>

Next ==
    \/ \E w \in Writers : ReadClock(w) \/ Update(w)
    \/ SetLastPacketInfo
    \/ MarkDisconnected
    \/ SetConnectionTimeoutMs
    \/ \E r \in Readers : Status(r)
    \/ Advance

Spec == Init /\ [][Next]_vars

-----------------------------------------------------------------------------
(***************************************************************************)
(* Properties                                                               *)
(***************************************************************************)

StatusRecord ==
    [pc : {"idle", "infoAt", "timing", "connected", "gameConnected", "has",
           "received", "info", "done"},
     packetAt : BOOLEAN, infoAt : BOOLEAN, aged : BOOLEAN, gaps : Nat,
     connected : BOOLEAN, gameConnected : BOOLEAN, has : BOOLEAN,
     received : Nat, info : BOOLEAN]

\* Type invariant of the store and of the calls in progress.
TypeOK ==
    /\ clock \in Instants
    /\ timeout \in Timeouts
    /\ latest \in [present : BOOLEAN, gear : -2 .. 10,
                   connected : BOOLEAN]
    /\ lastPacketAt \in Nat
    /\ lastInfo \in [present : BOOLEAN, at : Nat]
    /\ sequence \in Nat
    /\ maxGap \in Nat
    /\ gapCount \in Nat
    /\ histogram \in [Buckets -> Nat]
    /\ recent \in Seq([at : Nat, gap : Nat])
    /\ writer \in [Writers -> [pc : {"idle", "waiting"}, now : Nat]]
    /\ status \in [Readers -> StatusRecord]
    /\ storedAt \in Nat \cup {SetBack}

\* record_packet_gap_bucket loses no gap: the buckets hold one entry for every
\* packet but the first, whichever writer stored it and wherever the clock was.
HistogramCountsEveryGap ==
    histogram[1] + histogram[2] + histogram[3] + histogram[4] + histogram[5]
      + histogram[6] + histogram[7] = SaturatingSub(sequence, 1)

\* Every gap above the le_50_ms bucket is counted as a warning, of those in it
\* only the gaps of exactly 50 ms are, and the largest gap sits in the highest
\* bucket that is not empty.
CountersAgree ==
    LET above == histogram[5] + histogram[6] + histogram[7]
    IN  /\ above <= gapCount /\ gapCount <= above + histogram[4]
        /\ sequence > 1 => histogram[Bucket(maxGap)] > 0
        /\ \A b \in Buckets : b > Bucket(maxGap) => histogram[b] = 0

\* recent_packet_gaps holds the latest warnings, as many as fit, none of them
\* larger than the maximum reported beside them.
RecentGapsAreWarnings ==
    /\ Len(recent) = (IF gapCount < RecentCapacity
                      THEN gapCount ELSE RecentCapacity)
    /\ \A i \in 1 .. Len(recent) :
           recent[i].gap >= WarningMs /\ recent[i].gap <= maxGap

\* The histogram, the warning counter, the maximum and the ring of recent gaps
\* tell one story with the number of packets, although each is kept by a rule
\* of its own and the writers may store in another order than they read the
\* clock.
GapStatisticsAgree ==
    HistogramCountsEveryGap /\ CountersAgree /\ RecentGapsAreWarnings

\* Once a gear has been shown the dashboard never sees an unknown one again,
\* not even when two writers alternate.
ShownGearIsKept ==
    [][latest.present /\ Displayable(latest.gear)
         => Displayable(latest'.gear)]_vars

\* As long as the wall clock only moves forward, no reader is told the game is
\* connected once nothing has been stored for longer than the timeout: neither
\* parse errors nor a writer that waited for the lock can prolong it.
SilenceDisconnects ==
    Steady /\ GetLatest.connected => clock - storedAt <= timeout

\* What one field of GET /api/status says exists, the fields read after it do
\* not deny: a time of the last packet comes with its age, an age or either
\* connected flag with telemetry and a packet count, gaps with more packets
\* than gaps, and a time of packet metadata with the metadata.  That is all
\* the eight reads promise.  A field may say more than one read before it
\* (lastPacketInfoAt null beside a lastPacket, lastPacketAt null beside
\* connected), and connected and gameConnected, two calls of is_connected(),
\* may differ either way.
StatusKeepsItsWord ==
    \A r \in Readers : status[r].pc = "done" =>
        /\ status[r].packetAt => status[r].aged
        /\ status[r].aged \/ status[r].connected \/ status[r].gameConnected
             => status[r].has
        /\ status[r].has => status[r].received > 0
        /\ status[r].gaps > 0 => status[r].gaps < status[r].received
        /\ status[r].infoAt => status[r].info

\* As long as the wall clock only moves forward, lastPacketInfoAt does too,
\* although update() reads the clock before it has the lock and a parse error
\* after.
PacketInfoMovesForward == [][Steady => lastInfo'.at >= lastInfo.at]_vars
=============================================================================
