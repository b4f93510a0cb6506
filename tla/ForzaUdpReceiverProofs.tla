----------------------- MODULE ForzaUdpReceiverProofs -----------------------
(***************************************************************************)
(* Proofs about the parser and the receiver, for all packets, any sampling   *)
(* interval and any time.                                                   *)
(***************************************************************************)
EXTENDS ForzaUdpReceiver, TLAPS

USE NonFiniteAssumption, NoneAssumption

-----------------------------------------------------------------------------
\* Lemmas about the layouts.

\* No packet is accepted by two layouts, so that the scores never decide.
LEMMA OneLayoutAtMost ==
    ASSUME NEW p \in Packet, NEW c \in DashProfiles, NEW d \in DashProfiles,
           TryParseDashProfile(p, c).ok, TryParseDashProfile(p, d).ok
    PROVE  c = d
  BY DEF TryParseDashProfile, ParseError, DashProfiles

\* The layouts in full, one by one.
LEMMA ProfileFields ==
    ASSUME NEW d \in DashProfiles
    PROVE  /\ d.expected \in {311, 324}
           /\ d.minimum = d.expected
           /\ d.shift \in {0, 12}
           /\ d.shift + 309 <= d.expected
           /\ d.name \in {"fh6", "motorsport"}
  BY DEF DashProfiles

\* Every read of a layout lies inside a packet of its length.
LEMMA ReadsStayInside ==
    ASSUME NEW p \in Packet, NEW d \in DashProfiles, p.len = d.expected
    PROVE  Readable(p.len, DashReads(d.shift))
<1>1. d.shift \in {0, 12} /\ d.shift + 309 <= p.len /\ p.len \in Nat
  BY ProfileFields
<1> SUFFICES ASSUME NEW r \in DashReads(d.shift)
             PROVE  r[1] + r[2] <= p.len
  BY DEF Readable
<1>2. CASE r \in {<<o, 4>> : o \in {0, 8, 16, 20, 24, 28}}
  BY <1>1, <1>2
<1>3. CASE r \in {<<244 + d.shift + 4 * k, 4>> : k \in 0 .. 13}
  BY <1>1, <1>3
<1>4. CASE r \in {<<300 + d.shift, 2>>}
  BY <1>1, <1>4
<1>5. CASE r \in {<<302 + d.shift + k, 1>> : k \in 0 .. 6}
  BY <1>1, <1>5
<1>6. QED
  BY <1>2, <1>3, <1>4, <1>5 DEF DashReads

\* A packet of a layout's length is accepted with that layout and no other.
LEMMA KnownLength ==
    ASSUME NEW p \in Packet, NEW d \in DashProfiles, p.len = d.expected
    PROVE  /\ ParseDashValues(p, d) = Parsed(d.name, DashSnapshot(p))
           /\ TryParseDashProfile(p, d) = Parsed(d.name, DashSnapshot(p))
           /\ ProfilesForLength(p.len) = {d}
           /\ {c \in DashProfiles : TryParseDashProfile(p, c).ok} = {d}
<1>1. ParseDashValues(p, d) = Parsed(d.name, DashSnapshot(p))
  BY ReadsStayInside DEF ParseDashValues
<1>2. TryParseDashProfile(p, d) = Parsed(d.name, DashSnapshot(p))
  <2>1. p.len = d.expected /\ ~(p.len < d.minimum)
    BY ProfileFields
  <2>2. QED
    BY <1>1, <2>1 DEF TryParseDashProfile
<1>3. ASSUME NEW c \in DashProfiles, c.expected = p.len
      PROVE  c = d
  BY <1>3 DEF DashProfiles
<1>4. ProfilesForLength(p.len) = {d}
  BY <1>3 DEF ProfilesForLength
<1>5. ASSUME NEW c \in DashProfiles, TryParseDashProfile(p, c).ok
      PROVE  c = d
  BY <1>2, <1>5, OneLayoutAtMost DEF Parsed
<1>6. {c \in DashProfiles : TryParseDashProfile(p, c).ok} = {d}
  BY <1>2, <1>5 DEF Parsed
<1>7. QED
  BY <1>1, <1>2, <1>4, <1>6

\* A packet of any other length is left to the sled.
LEMMA UnknownLength ==
    ASSUME NEW p \in Packet, \A d \in DashProfiles : p.len # d.expected
    PROVE  /\ ProfilesForLength(p.len) = {}
           /\ {c \in DashProfiles : TryParseDashProfile(p, c).ok} = {}
  BY DEF ProfilesForLength, TryParseDashProfile, ParseError

\* What every path makes of a packet.
LEMMA OneMeaning ==
    ASSUME NEW p \in Packet
    PROVE  \E m : /\ \A d \in BOOLEAN : Parse(p, d) = m /\ ParseSnapshot(p, d) = m
                  /\ \/ m = ParseSledFallback(p)
                     \/ \E d \in DashProfiles : m = Parsed(d.name, DashSnapshot(p))
<1>1. CASE \E d \in DashProfiles : p.len = d.expected
  <2>1. PICK d \in DashProfiles : p.len = d.expected
    BY <1>1
  <2> DEFINE m == Parsed(d.name, DashSnapshot(p))
  <2>2. /\ ProfilesForLength(p.len) = {d}
        /\ {c \in DashProfiles : TryParseDashProfile(p, c).ok} = {d}
        /\ ParseDashValues(p, d) = m
        /\ TryParseDashProfile(p, d) = m
    BY <2>1, KnownLength
  <2>3. (CHOOSE c \in {d} : TRUE) = d
    OBVIOUS
  <2>4. ParseCandidates(p) = m
    BY <2>2, <2>3 DEF ParseCandidates
  <2>5. \A b \in BOOLEAN : Parse(p, b) = m
    BY <2>2, <2>3, <2>4 DEF Parse
  <2>6. \A b \in BOOLEAN : ParseSnapshot(p, b) = m
    BY <2>2, <2>3, <2>5 DEF ParseSnapshot
  <2>7. QED
    BY <2>5, <2>6
<1>2. CASE ~\E d \in DashProfiles : p.len = d.expected
  <2>1. /\ ProfilesForLength(p.len) = {}
        /\ {c \in DashProfiles : TryParseDashProfile(p, c).ok} = {}
    BY <1>2, UnknownLength
  <2>2. ParseCandidates(p) = ParseSledFallback(p)
    BY <2>1 DEF ParseCandidates
  <2>3. \A b \in BOOLEAN : /\ Parse(p, b) = ParseSledFallback(p)
                           /\ ParseSnapshot(p, b) = ParseSledFallback(p)
    BY <2>1, <2>2 DEF Parse, ParseSnapshot
  <2>4. QED
    BY <2>3
<1>3. QED
  BY <1>1, <1>2
-----------------------------------------------------------------------------
\* Lemmas about the numbers shown.

LEMMA FiniteOrType ==
    ASSUME NEW x \in Float, NEW n \in Int
    PROVE  FiniteOr(x, n) \in Int
  BY DEF FiniteOr, IsFinite

LEMMA ClampNonNegativeType ==
    ASSUME NEW x
    PROVE  ClampNonNegative(x) \in Nat
  BY DEF ClampNonNegative, IsFinite

LEMMA PositiveOrNoneType ==
    ASSUME NEW x
    PROVE  PositiveOrNone(x) \in Seconds
  BY DEF PositiveOrNone, Positive, IsFinite, Seconds

LEMMA NormalizeGearType ==
    ASSUME NEW raw \in U8
    PROVE  NormalizeGear(raw) \in Gears
  BY DEF NormalizeGear, U8, Gears

LEMMA CelsiusType ==
    ASSUME NEW x \in Float
    PROVE  Celsius(x) \in Float
  BY DEF Celsius, IsFinite, Float

LEMMA PositiveIsShown ==
    ASSUME NEW x, Positive(x)
    PROVE  PositiveOrNone(x) # None
  BY DEF PositiveOrNone, Positive, IsFinite

LEMMA PacketFields ==
    ASSUME NEW p \in Packet
    PROVE  /\ p.maxRpm \in Float /\ p.rpm \in Float /\ p.accel \in Float
           /\ p.speed \in Float /\ p.power \in Float /\ p.tire \in Float
           /\ p.fuel \in Float /\ p.distance \in Float
           /\ p.gear \in U8 /\ p.steer \in I8
           /\ p.lap \in U16 /\ p.position \in U8
  BY DEF Packet

\* The race panel of any packet.
LEMMA NormalizedRaceType ==
    ASSUME NEW p
    PROVE  NormalizedRace(p) \in Race
<1>1. NoRace \in Race
  BY DEF NoRace, Race, Seconds
<1>2. CASE IsActualRaceSession(p)
  <2>1. /\ PositiveOrNone(p.best) \in Seconds
        /\ PositiveOrNone(p.last) \in Seconds
        /\ PositiveOrNone(p.current) \in Seconds
        /\ PositiveOrNone(p.time) \in Seconds
        /\ PositiveOrNone(p.lap) \in Seconds
        /\ PositiveOrNone(p.position) \in Seconds
    BY PositiveOrNoneType
  <2>2. QED
    BY <1>2, <2>1 DEF NormalizedRace, Race
<1>3. QED
  BY <1>1, <1>2 DEF NormalizedRace

\* A panel of a packet has its context.
LEMMA NormalizedRaceHasContext ==
    ASSUME NEW p \in Packet
    PROVE  PanelHasContext(NormalizedRace(p))
<1>1. CASE ~IsActualRaceSession(p)
  BY <1>1 DEF NormalizedRace, PanelHasContext, NoRace
<1>2. CASE IsActualRaceSession(p)
  <2>0. p.lap \in U16 /\ p.position \in U8
    BY PacketFields
  <2>1. p.lap \in Nat /\ p.position \in Nat
    <3>1. U16 \subseteq Nat /\ U8 \subseteq Nat
      BY DEF U8, U16
    <3>2. QED
      BY <2>0, <3>1
  <2>2. Positive(p.lap) /\ Positive(p.position)
    <3>1. p.lap # 0 /\ p.position # 0
      BY <1>2 DEF IsActualRaceSession
    <3>2. QED
      BY <2>1, <3>1 DEF Positive, IsFinite
  <2>3. PositiveOrNone(p.lap) # None /\ PositiveOrNone(p.position) # None
    BY <2>2, PositiveIsShown
  <2>4. \/ PositiveOrNone(p.current) # None /\ PositiveOrNone(p.time) # None
        \/ PositiveOrNone(p.best) # None
        \/ PositiveOrNone(p.last) # None
    BY <1>2, PositiveIsShown DEF IsActualRaceSession
  <2>5. QED
    BY <1>2, <2>3, <2>4 DEF NormalizedRace, PanelHasContext
<1>3. QED
  BY <1>1, <1>2

-----------------------------------------------------------------------------
\* Lemmas about what a packet decodes to.

LEMMA DashSnapshotType ==
    ASSUME NEW p \in Packet
    PROVE  DashSnapshot(p) \in Snapshot
<1>1. /\ ClampNonNegative(ZeroSmall(FiniteOr(Kmh(p.speed), 0))) \in Nat
      /\ ClampNonNegative(FiniteOr(p.rpm, 0)) \in Nat
      /\ ClampNonNegative(FiniteOr(p.maxRpm, 0)) \in Nat
      /\ ClampNonNegative(FiniteOr(p.power, 0)) \in Nat
      /\ ClampNonNegative(FiniteOr(p.distance, 0)) \in Nat
  BY ClampNonNegativeType
<1>2. NormalizeGear(p.gear) \in Gears
  BY PacketFields, NormalizeGearType
<1>3. Clamp(p.steer, -127, 127) \in Steering
  <2>1. p.steer \in I8
    BY PacketFields
  <2>2. QED
    BY <2>1 DEF I8, Clamp, Steering
<1>4. FiniteOr(Celsius(p.tire), 0) \in Int
  BY PacketFields, CelsiusType, FiniteOrType
<1>5. Clamp(FiniteOr(p.fuel, 0), 0, 100) \in Share
  <2>1. FiniteOr(p.fuel, 0) \in Int
    BY PacketFields, FiniteOrType
  <2>2. QED
    BY <2>1 DEF Clamp, Share
<1>6. p.accel \in Float
  BY PacketFields
<1>7. NormalizedRace(p) \in Race
  BY NormalizedRaceType
<1>8. QED
  BY <1>1, <1>2, <1>3, <1>4, <1>5, <1>6, <1>7 DEF DashSnapshot, Snapshot

LEMMA SledSnapshotType ==
    ASSUME NEW p \in Packet
    PROVE  SledSnapshot(p) \in Snapshot
<1>1. NoRace \in Race
  BY DEF NoRace, Race, Seconds
<1>2. /\ ClampNonNegative(ZeroSmall(Kmh(p.sledSpeed))) \in Nat
      /\ ClampNonNegative(p.rpm) \in Nat
      /\ ClampNonNegative(p.maxRpm) \in Nat
  BY ClampNonNegativeType
<1>3. p.accel \in Float
  BY PacketFields
<1>4. 0 \in Gears /\ 0 \in Steering
  BY DEF Gears, Steering
<1>5. QED
  BY <1>1, <1>2, <1>3, <1>4 DEF SledSnapshot, Snapshot

\* Whatever the path, a packet gives an error or a snapshot in range whose
\* race panel has its context.
Shows(m) == m.ok => m.snapshot \in Snapshot /\ PanelHasContext(m.snapshot.race)

LEMMA OutcomeType ==
    ASSUME NEW p \in Packet, NEW d \in BOOLEAN
    PROVE  /\ Parse(p, d) \in Outcome /\ Shows(Parse(p, d))
           /\ ParseSnapshot(p, d) = Parse(p, d)
<1>1. /\ ParseSnapshot(p, d) = Parse(p, d)
      /\ \/ Parse(p, d) = ParseSledFallback(p)
         \/ \E c \in DashProfiles : Parse(p, d) = Parsed(c.name, DashSnapshot(p))
  BY OneMeaning
<1>2. CASE \E c \in DashProfiles : Parse(p, d) = Parsed(c.name, DashSnapshot(p))
  <2>1. PICK c \in DashProfiles : Parse(p, d) = Parsed(c.name, DashSnapshot(p))
    BY <1>2
  <2>2. c.name \in {"fh6", "motorsport"}
    BY ProfileFields
  <2>3. DashSnapshot(p).race = NormalizedRace(p)
    BY DEF DashSnapshot
  <2>4. QED
    BY <1>1, <2>1, <2>2, <2>3, DashSnapshotType, NormalizedRaceHasContext
    DEF Parsed, Outcome, Shows
<1>3. CASE Parse(p, d) = ParseSledFallback(p)
  <2>1. SledSnapshot(p).race = NoRace /\ PanelHasContext(NoRace)
    BY DEF SledSnapshot, PanelHasContext, NoRace
  <2>2. CASE Parse(p, d) = ParseError
    BY <1>1, <2>2 DEF ParseError, Outcome, Shows
  <2>3. CASE Parse(p, d) = Parsed("sled", SledSnapshot(p))
    BY <1>1, <2>1, <2>3, SledSnapshotType DEF Parsed, Outcome, Shows
  <2>4. QED
    BY <1>3, <2>2, <2>3 DEF ParseSledFallback
<1>4. QED
  BY <1>1, <1>2, <1>3
-----------------------------------------------------------------------------
\* The receiver.  What was sampled last puts the next sample off by an interval
\* at most; a packet that gives no sample came before that one was due.

HandlingOK ==
    handling # NoPacket =>
        /\ handling.packet \in Packets
        /\ handling.outcome = Parse(handling.packet, debug)

SampleIsDue ==
    /\ nextSampleAt <= info.at + SampleInterval
    /\ handling # NoPacket /\ ~handling.capture
         => handling.receivedAt < nextSampleAt

ShownOK == shown # None => PanelHasContext(shown.race)

Inv == TypeOK /\ HandlingOK /\ SampleIsDue /\ ShownOK /\ InfoKeepsUp

LEMMA InvInit == Init => Inv
  BY IntervalAssumption
  DEF Init, Inv, TypeOK, HandlingOK, SampleIsDue, ShownOK, InfoKeepsUp, NoPacket

LEMMA HandledType ==
    ASSUME TypeOK, NEW p \in Packets, NEW capture \in BOOLEAN
    PROVE  /\ Handled(p, capture) \in [packet : Packets, capture : BOOLEAN,
                                       receivedAt : 0 .. now, outcome : Outcome]
           /\ Handled(p, capture).packet = p
           /\ Handled(p, capture).capture = capture
           /\ Handled(p, capture).receivedAt = now
           /\ Handled(p, capture).outcome = Parse(p, debug)
<1>1. p \in Packet /\ debug \in BOOLEAN /\ now \in 0 .. now
  BY PacketsAssumption DEF TypeOK
<1>2. Parse(p, debug) \in Outcome /\ ParseSnapshot(p, debug) = Parse(p, debug)
  BY <1>1, OutcomeType
<1>3. Handled(p, capture) = [packet |-> p, capture |-> capture,
                             receivedAt |-> now, outcome |-> Parse(p, debug)]
  BY <1>2 DEF Handled
<1>4. QED
  BY <1>1, <1>2, <1>3

LEMMA InvReceive ==
    ASSUME Inv, NEW p \in Packets, ReceivePacket(p)
    PROVE  Inv'
<1> USE DEF ReceivePacket, Inv
<1>0. /\ (now >= nextSampleAt) \in BOOLEAN
      /\ now \in Nat /\ nextSampleAt \in Nat
  BY DEF TypeOK
<1> DEFINE h == Handled(p, now >= nextSampleAt)
<1>1. /\ h \in [packet : Packets, capture : BOOLEAN,
                receivedAt : 0 .. now, outcome : Outcome]
      /\ h.packet = p
      /\ h.capture = (now >= nextSampleAt)
      /\ h.receivedAt = now
      /\ h.outcome = Parse(p, debug)
  BY <1>0, HandledType
<1>2. handling' = h /\ UNCHANGED <<debug, now, nextSampleAt, shown, shownSince, info>>
  OBVIOUS
<1> HIDE DEF h
<1>3. TypeOK'
  BY <1>1, <1>2 DEF TypeOK
<1>4. HandlingOK'
  BY <1>1, <1>2 DEF HandlingOK
<1>5. SampleIsDue'
  BY <1>0, <1>1, <1>2 DEF SampleIsDue
<1>6. ShownOK' /\ InfoKeepsUp'
  BY <1>2 DEF ShownOK, InfoKeepsUp
<1>7. QED
  BY <1>3, <1>4, <1>5, <1>6

\* What the receiver is about to hand on.
LEMMA HandlingType ==
    ASSUME Inv, handling # NoPacket
    PROVE  /\ handling.packet \in Packet
           /\ handling.capture \in BOOLEAN
           /\ handling.receivedAt \in 0 .. now
           /\ handling.outcome \in Outcome
           /\ Shows(handling.outcome)
           /\ handling.outcome = Parse(handling.packet, debug)
<1>1. handling \in [packet : Packets, capture : BOOLEAN,
                    receivedAt : 0 .. now, outcome : Outcome]
  BY DEF Inv, TypeOK
<1>2. handling.packet \in Packet /\ debug \in BOOLEAN
  BY <1>1, PacketsAssumption DEF Inv, TypeOK
<1>3. handling.outcome = Parse(handling.packet, debug)
  BY DEF Inv, HandlingOK
<1>4. Shows(handling.outcome)
  BY <1>2, <1>3, OutcomeType
<1>5. QED
  BY <1>1, <1>2, <1>3, <1>4

LEMMA InvAccept == Inv /\ AcceptPacket => Inv'
<1> SUFFICES ASSUME Inv, AcceptPacket PROVE Inv'
  OBVIOUS
<1> USE DEF AcceptPacket
<1>1. /\ handling.capture \in BOOLEAN
      /\ handling.receivedAt \in 0 .. now
      /\ handling.outcome \in Outcome
      /\ Shows(handling.outcome)
  BY HandlingType
<1>2. /\ handling.outcome.profile \in {"fh6", "motorsport", "sled"}
      /\ handling.outcome.snapshot \in Snapshot
      /\ PanelHasContext(handling.outcome.snapshot.race)
  <2>1. handling.outcome.ok
    OBVIOUS
  <2>2. handling.outcome # ParseError
    BY <2>1 DEF ParseError
  <2>3. handling.outcome \in [ok : {TRUE},
                              profile : {"fh6", "motorsport", "sled"},
                              snapshot : Snapshot]
    BY <1>1, <2>2 DEF Outcome
  <2>4. QED
    BY <1>1, <2>1, <2>3 DEF Shows
<1>3. /\ now \in Nat /\ nextSampleAt \in Nat /\ shownSince \in 0 .. now
      /\ debug \in BOOLEAN /\ SampleInterval \in Nat \ {0}
      /\ info \in [accepted : BOOLEAN, at : 0 .. now,
                   profile : {None, "fh6", "motorsport", "sled", "parse-error"}]
  BY IntervalAssumption DEF Inv, TypeOK
<1>4. /\ nextSampleAt <= info.at + SampleInterval
      /\ ~handling.capture => handling.receivedAt < nextSampleAt
  BY DEF Inv, SampleIsDue
<1>5. /\ handling' = NoPacket
      /\ shown' = handling.outcome.snapshot
      /\ shownSince' = handling.receivedAt
      /\ debug' = debug /\ now' = now
  OBVIOUS
<1>6. /\ nextSampleAt' \in Nat
      /\ info' \in [accepted : BOOLEAN, at : 0 .. now,
                    profile : {None, "fh6", "motorsport", "sled", "parse-error"}]
      /\ nextSampleAt' <= info'.at + SampleInterval
      /\ handling.receivedAt < info'.at + SampleInterval
  <2>1. CASE handling.capture
    <3>1. /\ nextSampleAt' = now + SampleInterval
          /\ info' = [accepted |-> TRUE, profile |-> handling.outcome.profile,
                      at |-> now]
      BY <2>1
    <3>2. info'.at = now
      BY <3>1
    <3>3. QED
      BY <1>1, <1>2, <1>3, <3>1, <3>2
  <2>2. CASE ~handling.capture
    <3>1. nextSampleAt' = nextSampleAt /\ info' = info
      BY <2>2
    <3>2. info.at \in Nat
      BY <1>3
    <3>3. QED
      BY <1>1, <1>3, <1>4, <2>2, <3>1, <3>2
  <2>3. QED
    BY <1>1, <2>1, <2>2
<1> HIDE DEF AcceptPacket
<1>7. TypeOK'
  BY <1>1, <1>2, <1>3, <1>5, <1>6 DEF TypeOK
<1>8. HandlingOK' /\ SampleIsDue'
  BY <1>5, <1>6 DEF HandlingOK, SampleIsDue
<1>9. ShownOK' /\ InfoKeepsUp'
  BY <1>2, <1>5, <1>6 DEF ShownOK, InfoKeepsUp
<1>10. QED
  BY <1>7, <1>8, <1>9 DEF Inv

LEMMA InvReject == Inv /\ RejectPacket => Inv'
<1> SUFFICES ASSUME Inv, RejectPacket PROVE Inv'
  OBVIOUS
<1> DEFINE e == [accepted |-> FALSE, profile |-> "parse-error", at |-> now]
<1>1. /\ handling' = NoPacket /\ info' = e
      /\ UNCHANGED <<debug, now, nextSampleAt, shown, shownSince>>
  BY DEF RejectPacket
<1>2. e \in [accepted : BOOLEAN, at : 0 .. now,
             profile : {None, "fh6", "motorsport", "sled", "parse-error"}]
  BY DEF Inv, TypeOK
<1>3. /\ info.at \in 0 .. now /\ e.at = now /\ now \in Nat
      /\ shownSince \in 0 .. now /\ nextSampleAt \in Nat
      /\ SampleInterval \in Nat \ {0}
  BY IntervalAssumption DEF Inv, TypeOK
<1>4. nextSampleAt <= info.at + SampleInterval
  BY DEF Inv, SampleIsDue
<1> HIDE DEF e
<1>5. TypeOK'
  BY <1>1, <1>2 DEF Inv, TypeOK
<1>6. HandlingOK' /\ SampleIsDue'
  BY <1>1, <1>3, <1>4 DEF HandlingOK, SampleIsDue
<1>7. ShownOK' /\ InfoKeepsUp'
  BY <1>1, <1>3 DEF Inv, ShownOK, InfoKeepsUp
<1>8. QED
  BY <1>5, <1>6, <1>7 DEF Inv

LEMMA InvTick == Inv /\ Tick => Inv'
<1> SUFFICES ASSUME Inv, Tick PROVE Inv'
  OBVIOUS
<1>1. /\ now' = now + 1 /\ now \in Nat
      /\ UNCHANGED <<debug, nextSampleAt, handling, shown, shownSince, info>>
  BY DEF Inv, TypeOK, Tick
<1>2. 0 .. now \subseteq 0 .. now'
  BY <1>1
<1>3. handling = NoPacket
        \/ handling \in [packet : Packets, capture : BOOLEAN,
                         receivedAt : 0 .. now', outcome : Outcome]
  BY <1>2 DEF Inv, TypeOK
<1>4. info \in [accepted : BOOLEAN, at : 0 .. now',
                profile : {None, "fh6", "motorsport", "sled", "parse-error"}]
  BY <1>2 DEF Inv, TypeOK
<1>5. now' \in Nat /\ shownSince \in 0 .. now'
  BY <1>1, <1>2 DEF Inv, TypeOK
<1>6. TypeOK'
  BY <1>1, <1>3, <1>4, <1>5 DEF Inv, TypeOK
<1>7. HandlingOK' /\ SampleIsDue'
  BY <1>1 DEF Inv, HandlingOK, SampleIsDue
<1>8. ShownOK' /\ InfoKeepsUp'
  BY <1>1 DEF Inv, ShownOK, InfoKeepsUp
<1>9. QED
  BY <1>6, <1>7, <1>8 DEF Inv

LEMMA InvNext == Inv /\ [Next]_vars => Inv'
<1> SUFFICES ASSUME Inv, [Next]_vars PROVE Inv'
  OBVIOUS
<1>1. ASSUME NEW p \in Packets, ReceivePacket(p) PROVE Inv'
  BY <1>1, InvReceive
<1>2. CASE AcceptPacket
  BY <1>2, InvAccept
<1>3. CASE RejectPacket
  BY <1>3, InvReject
<1>4. CASE Tick
  BY <1>4, InvTick
<1>5. CASE UNCHANGED vars
  BY <1>5 DEF vars, Inv, TypeOK, HandlingOK, SampleIsDue, ShownOK, InfoKeepsUp
<1>6. QED
  BY <1>1, <1>2, <1>3, <1>4, <1>5 DEF Next

\* The inductive invariant, of every run of the receiver.
THEOREM ReceiverInvariant == Spec => []Inv
  BY InvInit, InvNext, PTL DEF Spec

\* Whatever is sent to the port, what is shown is finite and in range.
THEOREM ShownInRange == Spec => []TypeOK
<1>1. Inv => TypeOK
  BY DEF Inv
<1>2. QED
  BY <1>1, ReceiverInvariant, PTL

\* Sampling metadata and debugging change nothing of what a packet means.
THEOREM AllPathsAgree == Spec => []PathsAgree
<1>1. Inv => PathsAgree
  <2> SUFFICES ASSUME Inv, handling # NoPacket, NEW d \in BOOLEAN
               PROVE  /\ Parse(handling.packet, d) = handling.outcome
                      /\ ParseSnapshot(handling.packet, d) = handling.outcome
    BY DEF PathsAgree
  <2>1. /\ handling.packet \in Packet
        /\ handling.outcome = Parse(handling.packet, debug)
        /\ debug \in BOOLEAN
    BY HandlingType DEF Inv, TypeOK
  <2>2. QED
    BY <2>1, OneMeaning
<1>2. QED
  BY <1>1, ReceiverInvariant, PTL

\* The race panel never shows a race without its context.
THEOREM RacePanelIsJustified == Spec => []RacePanelHasContext
<1>1. Inv => RacePanelHasContext
  BY DEF Inv, ShownOK, RacePanelHasContext
<1>2. QED
  BY <1>1, ReceiverInvariant, PTL

\* Metadata is sampled often enough, whatever comes in between.
THEOREM MetadataKeepsUp == Spec => []InfoKeepsUp
<1>1. Inv => InfoKeepsUp
  BY DEF Inv
<1>2. QED
  BY <1>1, ReceiverInvariant, PTL
=============================================================================
