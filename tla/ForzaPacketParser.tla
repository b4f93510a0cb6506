------------------------- MODULE ForzaPacketParser -------------------------
(***************************************************************************)
(* forza_packet_parser.rs and fh6_offsets.rs as operators.  A packet is its *)
(* length and the numbers found at the offsets of the layout the game wrote.*)
(* A finite float is an integer in a unit of its own: speeds in mm/s read   *)
(* and 1/10000 km/h shown, fuel in hundredths of the tank, temperatures in F*)
(* read and ninths of a degree C shown, steering in 127ths.  NaN and the    *)
(* infinities are one value: every use tests is_finite first.               *)
(*                                                                          *)
(* Left out: the score, priority and warnings of a candidate, which only    *)
(* choose between candidates of one packet that are both accepted           *)
(* (OneLayoutAtMost in ForzaUdpReceiverProofs: there are none), the raw     *)
(* values kept for debugging, and the fields decoded like one that is kept: *)
(* torque and boost like power, three of four tyres, two of three           *)
(* accelerations, and the pedals, whose byte is only divided by 255.        *)
(***************************************************************************)
EXTENDS Integers

CONSTANTS
    NonFinite,  \* NaN, +inf and -inf
    None        \* Rust's None

ASSUME NonFiniteAssumption == NonFinite \notin Int
ASSUME NoneAssumption == None \notin Int

Float == Int \cup {NonFinite}
IsFinite(x) == x \in Int

U8 == 0 .. 255
U16 == 0 .. 65535
I8 == -128 .. 127

\* One number of each kind the decoder treats alike.
Packet == [len : Nat, raceOn : BOOLEAN,
           maxRpm : Float, rpm : Float, accel : Float, sledSpeed : Float,
           speed : Float, power : Float, tire : Float, fuel : Float,
           distance : Float, best : Float, last : Float, current : Float,
           time : Float, lap : U16, position : U8,
           gear : U8, steer : I8]

-----------------------------------------------------------------------------
(***************************************************************************)
(* Layouts, and the bytes the decoder reads: <<offset, bytes>>.             *)
(***************************************************************************)
DashProfiles ==
    {[name |-> "fh6", shift |-> 12, minimum |-> 324, expected |-> 324],
     [name |-> "motorsport", shift |-> 0, minimum |-> 311, expected |-> 311]}

\* Six words every layout has in the same place; from 244 on, shifted, fourteen
\* floats, a u16 and seven bytes without a gap.
DashReads(shift) ==
    {<<o, 4>> : o \in {0, 8, 16, 20, 24, 28}}
      \cup {<<244 + shift + 4 * k, 4>> : k \in 0 .. 13}
      \cup {<<300 + shift, 2>>}
      \cup {<<302 + shift + k, 1>> : k \in 0 .. 6}

SledReads == {<<o, 4>> : o \in {8, 16, 20, 24, 28, 32, 36, 40}}

\* require_length of every read.
Readable(len, reads) == \A r \in reads : r[1] + r[2] <= len

-----------------------------------------------------------------------------
(***************************************************************************)
(* Numbers as they are shown.                                               *)
(***************************************************************************)
FiniteOr(x, fallback) == IF IsFinite(x) THEN x ELSE fallback

ClampNonNegative(x) == IF IsFinite(x) /\ x >= 0 THEN x ELSE 0

Clamp(x, low, high) == IF x < low THEN low ELSE IF x > high THEN high ELSE x

Kmh(x) == IF IsFinite(x) THEN 36 * x ELSE NonFinite

\* Below 0.01 km/h the car stands still.
ZeroSmall(x) == IF IsFinite(x) /\ -100 < x /\ x < 100 THEN 0 ELSE x

Celsius(x) == IF IsFinite(x) THEN 5 * (x - 32) ELSE NonFinite

\* Mutant: the values FH6 emits during a shift are shown as gears.
NormalizeGearOfShift(raw) == IF raw = 0 THEN -1 ELSE IF raw <= 12 THEN raw ELSE -2

NormalizeGear(raw) ==
    IF raw = 0 THEN -1 ELSE IF raw <= 10 THEN raw ELSE -2

Positive(x) == IsFinite(x) /\ x > 0
PositiveOrNone(x) == IF Positive(x) THEN x ELSE None

InRange(x, low, high) == IsFinite(x) /\ x >= low /\ x <= high

-----------------------------------------------------------------------------
(***************************************************************************)
(* The race panel.                                                          *)
(***************************************************************************)
\* Mutant: a position is not asked for, the free roam of an event's lobby.
RaceWithoutPosition(p) ==
    /\ p.raceOn
    /\ p.lap # 0
    /\ \/ Positive(p.current) /\ Positive(p.time)
       \/ Positive(p.best)
       \/ Positive(p.last)

IsActualRaceSession(p) ==
    /\ p.raceOn
    /\ p.lap # 0
    /\ p.position # 0
    /\ \/ Positive(p.current) /\ Positive(p.time)
       \/ Positive(p.best)
       \/ Positive(p.last)

NoRace == [active |-> FALSE, best |-> None, last |-> None, current |-> None,
           time |-> None, lap |-> None, position |-> None]

NormalizedRace(p) ==
    IF ~IsActualRaceSession(p) THEN NoRace
    ELSE [active |-> TRUE,
          best |-> PositiveOrNone(p.best), last |-> PositiveOrNone(p.last),
          current |-> PositiveOrNone(p.current), time |-> PositiveOrNone(p.time),
          lap |-> PositiveOrNone(p.lap), position |-> PositiveOrNone(p.position)]

-----------------------------------------------------------------------------
(***************************************************************************)
(* Decoding.  An outcome is a snapshot and the layout it was read with, or   *)
(* an error.                                                                *)
(***************************************************************************)
ParseError == [ok |-> FALSE, profile |-> None, snapshot |-> None]
Parsed(name, s) == [ok |-> TRUE, profile |-> name, snapshot |-> s]

DashSnapshot(p) ==
    [speed    |-> ClampNonNegative(ZeroSmall(FiniteOr(Kmh(p.speed), 0))),
     rpm      |-> ClampNonNegative(FiniteOr(p.rpm, 0)),
     maxRpm   |-> ClampNonNegative(FiniteOr(p.maxRpm, 0)),
     power    |-> ClampNonNegative(FiniteOr(p.power, 0)),
     gear     |-> NormalizeGear(p.gear),
     steer    |-> Clamp(p.steer, -127, 127),
     tire     |-> FiniteOr(Celsius(p.tire), 0),
     accel    |-> p.accel,
     fuel     |-> Clamp(FiniteOr(p.fuel, 0), 0, 100),
     distance |-> ClampNonNegative(FiniteOr(p.distance, 0)),
     race     |-> NormalizedRace(p)]

ParseDashValues(p, profile) ==
    IF Readable(p.len, DashReads(profile.shift))
    THEN Parsed(profile.name, DashSnapshot(p))
    ELSE ParseError

TryParseDashProfile(p, profile) ==
    IF p.len # profile.expected \/ p.len < profile.minimum
    THEN ParseError
    ELSE ParseDashValues(p, profile)

\* What a packet of unknown length holds at the places all layouts share.
SledSnapshot(p) ==
    [speed |-> ClampNonNegative(ZeroSmall(Kmh(p.sledSpeed))),
     rpm |-> ClampNonNegative(p.rpm), maxRpm |-> ClampNonNegative(p.maxRpm),
     power |-> None, gear |-> 0, steer |-> 0, tire |-> None,
     accel |-> p.accel, fuel |-> None, distance |-> None, race |-> NoRace]

ParseSledFallback(p) ==
    IF /\ Readable(p.len, SledReads)
       /\ InRange(Kmh(p.sledSpeed), 0, 6500000)
       /\ InRange(p.rpm, 0, 25000)
       /\ InRange(p.maxRpm, 0, 25000)
    THEN Parsed("sled", SledSnapshot(p))
    ELSE ParseError

\* Mutant: a longer packet is taken for a known one with something appended.
ProfilesUpToLength(len) == {d \in DashProfiles : d.expected <= len}

ProfilesForLength(len) == {d \in DashProfiles : d.expected = len}

\* Every profile is tried; the best accepted one wins, else the sled.
ParseCandidates(p) ==
    LET accepted == {d \in DashProfiles : TryParseDashProfile(p, d).ok}
    IN  IF accepted = {} THEN ParseSledFallback(p)
        ELSE TryParseDashProfile(p, CHOOSE d \in accepted : TRUE)

\* parse: without debug_packet a packet of a known length takes the fast path.
Parse(p, debug) ==
    LET known == ProfilesForLength(p.len)
    IN  IF ~debug /\ known # {} THEN ParseDashValues(p, CHOOSE d \in known : TRUE)
        ELSE ParseCandidates(p)

\* parse_snapshot, of the packets whose metadata nobody samples.
ParseSnapshot(p, debug) ==
    LET known == ProfilesForLength(p.len)
    IN  IF ~debug /\ known # {} THEN ParseDashValues(p, CHOOSE d \in known : TRUE)
        ELSE Parse(p, debug)
=============================================================================
