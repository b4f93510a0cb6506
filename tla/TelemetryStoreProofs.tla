------------------------ MODULE TelemetryStoreProofs ------------------------
(***************************************************************************)
(* Proofs about TelemetryStore, for all writers, readers, gears, timeouts,  *)
(* ring capacities and clocks.                                              *)
(***************************************************************************)
EXTENDS TelemetryStore, TLAPS

USE WritersAssumption, GearsAssumption, TimeoutsAssumption, CapacityAssumption,
    ClockAssumption, BoundAssumption

-----------------------------------------------------------------------------
\* Lemmas about the operators.

LEMMA SaturatingSubNat ==
    ASSUME NEW a \in Nat, NEW b \in Nat
    PROVE  SaturatingSub(a, b) \in Nat
  BY DEF SaturatingSub

LEMMA BucketInRange ==
    ASSUME NEW gap \in Nat
    PROVE  Bucket(gap) \in Buckets
  BY DEF Bucket, Buckets

LEMMA ElementOfSeq ==
    ASSUME NEW T, NEW seq \in Seq(T), NEW i \in 1 .. Len(seq)
    PROVE  seq[i] \in T
  OBVIOUS

\* A larger gap never falls into a lower bucket.
LEMMA BucketMonotone ==
    ASSUME NEW g \in Nat, NEW h \in Nat, g <= h
    PROVE  Bucket(g) <= Bucket(h)
  BY DEF Bucket

\* What is a warning and what the upper three buckets hold differ by 50 only.
LEMMA WarningBuckets ==
    ASSUME NEW gap \in Nat
    PROVE  /\ Bucket(gap) \in 5 .. 7 => gap >= WarningMs
           /\ gap >= WarningMs => Bucket(gap) \in 4 .. 7
  BY DEF Bucket, WarningMs

\* The ring buffer grows to its capacity and then shifts.
LEMMA RememberShifts ==
    ASSUME NEW sample \in [at : Nat, gap : Nat],
           recent \in Seq([at : Nat, gap : Nat]),
           Len(recent) <= RecentCapacity
    PROVE  /\ Remember(sample) \in Seq([at : Nat, gap : Nat])
           /\ Len(Remember(sample)) = (IF Len(recent) < RecentCapacity
                                       THEN Len(recent) + 1
                                       ELSE RecentCapacity)
           /\ \A i \in 1 .. Len(Remember(sample)) :
                 \/ Remember(sample)[i] = sample
                 \/ \E j \in 1 .. Len(recent) : Remember(sample)[i] = recent[j]
<1>1. CASE Len(recent) = RecentCapacity
  <2>1. Remember(sample) = Append(Tail(recent), sample)
    BY <1>1 DEF Remember
  <2>2. recent # <<>>
    BY <1>1
  <2>3. /\ Tail(recent) \in Seq([at : Nat, gap : Nat])
        /\ Len(Tail(recent)) = Len(recent) - 1
        /\ \A i \in 1 .. Len(Tail(recent)) : Tail(recent)[i] = recent[i + 1]
    BY <2>2
  <2>4. QED
    BY <1>1, <2>1, <2>3
<1>2. CASE Len(recent) # RecentCapacity
  BY <1>2 DEF Remember
<1>3. QED
  BY <1>1, <1>2

-----------------------------------------------------------------------------
\* Typing.  A writer that waits for the lock carries a time it has read.

WriterOK ==
    \A w \in Writers : writer[w].pc = "waiting" => writer[w].now \in Instants

RecentFits == Len(recent) <= RecentCapacity

TypeInv == TypeOK /\ WriterOK /\ RecentFits

LEMMA TypeInvInit == Init => TypeInv
<1> SUFFICES ASSUME Init PROVE TypeInv
  OBVIOUS
<1> USE DEF Init
<1>1. latest \in [present : BOOLEAN, gear : -2 .. 10,
                  connected : BOOLEAN]
  BY DEF UnknownShiftGear
<1>2. recent \in Seq([at : Nat, gap : Nat]) /\ RecentFits
  BY DEF RecentFits
<1>3. histogram \in [Buckets -> Nat]
  OBVIOUS
<1>4. /\ writer \in [Writers -> [pc : {"idle", "waiting"}, now : Nat]]
      /\ WriterOK
  BY DEF WriterOK
<1>5. status \in [Readers -> StatusRecord]
  BY DEF IdleStatus, StatusRecord
<1>6. lastInfo \in [present : BOOLEAN, at : Nat]
  OBVIOUS
<1>7. QED
  BY <1>1, <1>2, <1>3, <1>4, <1>5, <1>6 DEF TypeInv, TypeOK

\* What update() computes of the snapshot and the gap has the right type.
LEMMA KeptGearType ==
    ASSUME TypeOK, NEW gear \in Gears
    PROVE  KeptGear(gear) \in -2 .. 10
  BY DEF KeptGear, TypeOK

LEMMA RecordGapType ==
    ASSUME TypeInv, NEW now \in Nat, NEW gap \in Nat,
           RecordGap(now, gap) \/ UNCHANGED gapVars
    PROVE  /\ histogram' \in [Buckets -> Nat]
           /\ maxGap' \in Nat
           /\ gapCount' \in Nat
           /\ recent' \in Seq([at : Nat, gap : Nat])
           /\ RecentFits'
<1>0. TypeOK /\ RecentFits
  BY DEF TypeInv
<1>1. CASE UNCHANGED gapVars
  BY <1>0, <1>1 DEF gapVars, TypeOK, RecentFits
<1>2. CASE RecordGap(now, gap)
  <2>1. /\ histogram' \in [Buckets -> Nat]
        /\ maxGap' \in Nat
        /\ gapCount' \in Nat
    <3>1. histogram' \in [Buckets -> Nat]
      <4>1. Bucket(gap) \in Buckets /\ histogram \in [Buckets -> Nat]
        BY <1>0, BucketInRange DEF TypeOK
      <4>2. histogram[Bucket(gap)] + 1 \in Nat
        BY <4>1
      <4>3. QED
        BY <1>2, <4>1, <4>2 DEF RecordGap
    <3>2. maxGap' \in Nat
      BY <1>0, <1>2 DEF RecordGap, TypeOK
    <3>3. gapCount' \in Nat
      BY <1>0, <1>2 DEF RecordGap, TypeOK
    <3>4. QED
      BY <3>1, <3>2, <3>3
  <2>2. CASE gap >= WarningMs
    <3>1. recent' = Remember([at |-> now, gap |-> gap])
      BY <1>2, <2>2 DEF RecordGap
    <3>2. recent \in Seq([at : Nat, gap : Nat]) /\ Len(recent) <= RecentCapacity
      BY <1>0 DEF TypeOK, RecentFits
    <3>3. /\ recent' \in Seq([at : Nat, gap : Nat])
          /\ Len(recent') = (IF Len(recent) < RecentCapacity
                             THEN Len(recent) + 1 ELSE RecentCapacity)
      BY <3>1, <3>2, RememberShifts
    <3>4. Len(recent) \in Nat
      BY <3>2
    <3>5. RecentFits'
      BY <3>3, <3>4 DEF RecentFits
    <3>6. QED
      BY <2>1, <3>3, <3>5
  <2>3. CASE ~(gap >= WarningMs)
    BY <1>0, <1>2, <2>1, <2>3 DEF RecordGap, TypeOK, RecentFits
  <2>4. QED
    BY <2>2, <2>3
<1>3. QED
  BY <1>1, <1>2

\* The gap update() works with, and what it does with it.
LEMMA StoreGap ==
    ASSUME TypeInv, NEW w \in Writers, NEW gear, NEW info, Store(w, gear, info)
    PROVE  /\ writer[w].now \in Instants /\ writer[w].now \in Nat \ {0}
           /\ SaturatingSub(writer[w].now, lastPacketAt) \in Nat
           /\ \/ UNCHANGED gapVars
              \/ RecordGap(writer[w].now,
                           SaturatingSub(writer[w].now, lastPacketAt))
  BY SaturatingSubNat DEF Store, TypeInv, TypeOK, WriterOK

LEMMA StoreType ==
    ASSUME TypeInv, NEW w \in Writers, NEW gear \in Gears, NEW info \in BOOLEAN,
           Store(w, gear, info)
    PROVE  TypeInv'
<1>0. TypeOK /\ WriterOK /\ RecentFits
  BY DEF TypeInv
<1>1. /\ histogram' \in [Buckets -> Nat] /\ maxGap' \in Nat /\ gapCount' \in Nat
      /\ recent' \in Seq([at : Nat, gap : Nat]) /\ RecentFits'
  BY StoreGap, RecordGapType
<1>2. writer[w].now \in Nat
  BY StoreGap
<1>3. latest' \in [present : BOOLEAN, gear : -2 .. 10,
                   connected : BOOLEAN]
  BY <1>0, KeptGearType DEF Store
<1>4. /\ sequence' \in Nat /\ lastPacketAt' \in Nat
      /\ storedAt' \in Nat \cup {SetBack}
      /\ clock' \in Instants /\ timeout' \in Timeouts
      /\ lastInfo' \in [present : BOOLEAN, at : Nat]
  BY <1>0, <1>2 DEF Store, TypeOK
<1>5. /\ writer' \in [Writers -> [pc : {"idle", "waiting"}, now : Nat]]
      /\ WriterOK'
  BY <1>0 DEF Store, TypeOK, WriterOK
<1>6. status' = status
  BY DEF Store
<1>7. QED
  BY <1>0, <1>1, <1>3, <1>4, <1>5, <1>6 DEF TypeInv, TypeOK

\* The status endpoint only reads.
LEMMA StatusOnlyReads ==
    ASSUME NEW r, Status(r)
    PROVE  UNCHANGED <<clock, timeout, storeVars, writer>>
  BY DEF Status, StatusLastPacketAt, StatusLastPacketInfoAt, StatusTiming,
         StatusConnected, StatusGameConnected, StatusHasTelemetry,
         StatusSequence, StatusLastPacketInfo, StatusDone, StatusRead

LEMMA TypeInvNext == TypeInv /\ [Next]_vars => TypeInv'
<1> SUFFICES ASSUME TypeInv, [Next]_vars PROVE TypeInv'
  OBVIOUS
<1>0. TypeOK /\ WriterOK /\ RecentFits
  BY DEF TypeInv
<1>1. ASSUME NEW w \in Writers, ReadClock(w) PROVE TypeInv'
  <2>1. clock \in Instants /\ clock \in Nat
    BY <1>0 DEF TypeOK
  <2>2. /\ writer' \in [Writers -> [pc : {"idle", "waiting"}, now : Nat]]
        /\ WriterOK'
    BY <1>0, <1>1, <2>1 DEF ReadClock, TypeOK, WriterOK
  <2>3. QED
    BY <1>0, <1>1, <2>2 DEF ReadClock, storeVars, gapVars, TypeInv, TypeOK,
                            RecentFits
<1>2. ASSUME NEW w \in Writers, Update(w) PROVE TypeInv'
  BY <1>2, StoreType DEF Update
<1>3. CASE SetLastPacketInfo
  BY <1>0, <1>3 DEF SetLastPacketInfo, gapVars, TypeInv, TypeOK, WriterOK,
                    RecentFits
<1>4. CASE MarkDisconnected
  BY <1>0, <1>4 DEF MarkDisconnected, gapVars, TypeInv, TypeOK, WriterOK,
                    RecentFits
<1>5. CASE SetConnectionTimeoutMs
  BY <1>0, <1>5 DEF SetConnectionTimeoutMs, storeVars, gapVars, TypeInv, TypeOK,
                    WriterOK, RecentFits
<1>6. ASSUME NEW r \in Readers, Status(r) PROVE TypeInv'
  <2>1. status' \in [Readers -> StatusRecord]
    <3>1. /\ status \in [Readers -> StatusRecord]
          /\ lastPacketAt \in Nat /\ gapCount \in Nat /\ sequence \in Nat
          /\ latest.present \in BOOLEAN
          /\ lastInfo.present \in BOOLEAN /\ lastInfo.at \in Nat
          /\ IsConnectedAt(lastPacketAt, clock) \in BOOLEAN
      BY <1>0 DEF TypeOK, IsConnectedAt
    <3>2. IdleStatus \in StatusRecord
      BY DEF IdleStatus, StatusRecord
    <3>3. ASSUME NEW from, NEW fields \in StatusRecord,
                 NEW to \in {"idle", "infoAt", "timing", "connected",
                             "gameConnected", "has", "received", "info",
                             "done"},
                 StatusRead(r, from, to, fields)
          PROVE  status' \in [Readers -> StatusRecord]
      <4>1. [fields EXCEPT !.pc = to] \in StatusRecord
        BY <3>3 DEF StatusRecord
      <4>2. QED
        BY <3>1, <3>3, <4>1 DEF StatusRead
    <3>b. (lastPacketAt > 0) \in BOOLEAN /\ (lastInfo.at > 0) \in BOOLEAN
      OBVIOUS
    <3>4. /\ [IdleStatus EXCEPT !.packetAt = lastPacketAt > 0] \in StatusRecord
          /\ [status[r] EXCEPT !.infoAt = lastInfo.at > 0] \in StatusRecord
          /\ [status[r] EXCEPT !.aged = lastPacketAt > 0, !.gaps = gapCount]
                \in StatusRecord
          /\ [status[r] EXCEPT !.connected
                = IsConnectedAt(lastPacketAt, clock)] \in StatusRecord
          /\ [status[r] EXCEPT !.gameConnected
                = IsConnectedAt(lastPacketAt, clock)] \in StatusRecord
          /\ [status[r] EXCEPT !.has = latest.present] \in StatusRecord
          /\ [status[r] EXCEPT !.received = sequence] \in StatusRecord
          /\ [status[r] EXCEPT !.info = lastInfo.present] \in StatusRecord
      <4> status[r] \in StatusRecord
        BY <3>1
      <4>1. [IdleStatus EXCEPT !.packetAt = lastPacketAt > 0] \in StatusRecord
        BY <3>b, <3>2 DEF StatusRecord
      <4>2. [status[r] EXCEPT !.infoAt = lastInfo.at > 0] \in StatusRecord
        BY <3>b DEF StatusRecord
      <4>3. [status[r] EXCEPT !.aged = lastPacketAt > 0, !.gaps = gapCount]
              \in StatusRecord
        BY <3>b, <3>1 DEF StatusRecord
      <4>4. /\ [status[r] EXCEPT !.connected
                  = IsConnectedAt(lastPacketAt, clock)] \in StatusRecord
            /\ [status[r] EXCEPT !.gameConnected
                  = IsConnectedAt(lastPacketAt, clock)] \in StatusRecord
        BY <3>1 DEF StatusRecord
      <4>5. /\ [status[r] EXCEPT !.has = latest.present] \in StatusRecord
            /\ [status[r] EXCEPT !.received = sequence] \in StatusRecord
            /\ [status[r] EXCEPT !.info = lastInfo.present] \in StatusRecord
        BY <3>1 DEF StatusRecord
      <4>6. QED
        BY <4>1, <4>2, <4>3, <4>4, <4>5
    <3>5. QED
      BY <1>6, <3>2, <3>3, <3>4 DEF Status, StatusLastPacketAt,
         StatusLastPacketInfoAt, StatusTiming, StatusConnected,
         StatusGameConnected, StatusHasTelemetry, StatusSequence,
         StatusLastPacketInfo, StatusDone
  <2>2. UNCHANGED <<clock, timeout, storeVars, writer>>
    BY <1>6, StatusOnlyReads
  <2>3. QED
    BY <1>0, <2>1, <2>2 DEF storeVars, gapVars, TypeInv, TypeOK, WriterOK,
                            RecentFits
<1>7. CASE Advance
  BY <1>0, <1>7 DEF Advance, gapVars, TypeInv, TypeOK, WriterOK, RecentFits
<1>8. CASE UNCHANGED vars
  BY <1>0, <1>8 DEF vars, storeVars, gapVars, TypeInv, TypeOK, WriterOK,
                    RecentFits
<1>9. QED
  BY <1>1, <1>2, <1>3, <1>4, <1>5, <1>6, <1>7, <1>8 DEF Next

\* The store and the calls in progress keep their types; recent_packet_gaps
\* never outgrows its capacity.
THEOREM TypeCorrect == Spec => []TypeOK
<1>1. TypeInv => TypeOK
  BY DEF TypeInv
<1>2. QED
  BY <1>1, TypeInvInit, TypeInvNext, PTL DEF Spec

-----------------------------------------------------------------------------
(***************************************************************************)
(* The accounts.  Only update() touches them; every other step leaves the   *)
(* statistics, the number of updates and lastPacketAt alone.                *)
(***************************************************************************)
FirstPacket == lastPacketAt = 0 <=> sequence = 0

AccountInv ==
    /\ FirstPacket
    /\ HistogramCountsEveryGap
    /\ CountersAgree
    /\ RecentGapsAreWarnings
    /\ sequence <= 1 => maxGap = 0
    /\ gapCount <= SaturatingSub(sequence, 1)

LEMMA AccountInvInit == Init => AccountInv
<1> SUFFICES ASSUME Init PROVE AccountInv
  OBVIOUS
<1> USE DEF Init
<1>1. \A b \in Buckets : histogram[b] = 0
  OBVIOUS
<1>2. Buckets = 1 .. 7
  BY DEF Buckets
<1>3. HistogramCountsEveryGap
  BY <1>1, <1>2 DEF HistogramCountsEveryGap, SaturatingSub
<1>4. CountersAgree
  BY <1>1, <1>2 DEF CountersAgree
<1>5. RecentGapsAreWarnings
  BY DEF RecentGapsAreWarnings
<1>6. QED
  BY <1>3, <1>4, <1>5 DEF AccountInv, FirstPacket, SaturatingSub

LEMMA AccountUntouched ==
    ASSUME AccountInv, UNCHANGED <<lastPacketAt, sequence, gapVars>>
    PROVE  AccountInv'
  BY DEF AccountInv, FirstPacket, HistogramCountsEveryGap, CountersAgree,
         RecentGapsAreWarnings, gapVars

\* The first packet: there is no gap to record.
LEMMA AccountFirst ==
    ASSUME TypeOK, AccountInv, lastPacketAt = 0, UNCHANGED gapVars,
           lastPacketAt' > 0, sequence' = sequence + 1
    PROVE  AccountInv'
<1>1. sequence = 0 /\ maxGap = 0 /\ gapCount = 0
  BY DEF AccountInv, FirstPacket, TypeOK, SaturatingSub
<1>2. HistogramCountsEveryGap'
  BY <1>1 DEF AccountInv, HistogramCountsEveryGap, gapVars, SaturatingSub
<1>3. CountersAgree'
  BY <1>1 DEF AccountInv, CountersAgree, gapVars
<1>4. RecentGapsAreWarnings'
  BY DEF AccountInv, RecentGapsAreWarnings, gapVars
<1>5. QED
  BY <1>1, <1>2, <1>3, <1>4 DEF AccountInv, FirstPacket, gapVars,
     SaturatingSub

\* Every later packet adds one gap to each account.
LEMMA AccountGap ==
    ASSUME TypeInv, AccountInv, lastPacketAt > 0,
           NEW now \in Nat, NEW gap \in Nat, RecordGap(now, gap),
           lastPacketAt' > 0, sequence' = sequence + 1
    PROVE  AccountInv'
<1>0. TypeOK /\ RecentFits
  BY DEF TypeInv
<1>1. sequence \in Nat \ {0} /\ SaturatingSub(sequence, 1) = sequence - 1
  BY <1>0 DEF AccountInv, FirstPacket, TypeOK, SaturatingSub
<1>2. SaturatingSub(sequence', 1) = sequence
  BY <1>1 DEF SaturatingSub
<1>3. /\ Bucket(gap) \in 1 .. 7
      /\ histogram \in [1 .. 7 -> Nat]
      /\ histogram' = [histogram EXCEPT ![Bucket(gap)] = @ + 1]
  BY <1>0, BucketInRange DEF Buckets, TypeOK, RecordGap
<1>4. HistogramCountsEveryGap'
  BY <1>1, <1>2, <1>3 DEF AccountInv, HistogramCountsEveryGap
<1>5. /\ maxGap \in Nat /\ gapCount \in Nat
      /\ maxGap' = IF gap > maxGap THEN gap ELSE maxGap
      /\ gapCount' = IF gap >= WarningMs THEN gapCount + 1 ELSE gapCount
  BY <1>0 DEF TypeOK, RecordGap
<1>6. gapCount' <= SaturatingSub(sequence', 1)
  BY <1>1, <1>2, <1>5 DEF AccountInv
<1>7. CountersAgree'
  <2>1. LET above == histogram'[5] + histogram'[6] + histogram'[7]
        IN  above <= gapCount' /\ gapCount' <= above + histogram'[4]
    BY <1>3, <1>5, WarningBuckets DEF AccountInv, CountersAgree
  <2>2. histogram'[Bucket(maxGap')] > 0
    <3>1. CASE gap > maxGap
      BY <1>3, <1>5, <3>1
    <3>2. CASE gap <= maxGap /\ sequence > 1
      <4>1. histogram[Bucket(maxGap)] > 0 /\ Bucket(maxGap) \in 1 .. 7
        BY <1>5, <3>2, BucketInRange DEF AccountInv, CountersAgree, Buckets
      <4>2. QED
        BY <1>3, <1>5, <3>2, <4>1
    <3>3. CASE gap <= maxGap /\ sequence <= 1
      <4>1. maxGap = 0 /\ gap = maxGap
        BY <1>5, <3>3 DEF AccountInv
      <4>2. QED
        BY <1>3, <1>5, <4>1
    <3>4. QED
      BY <1>1, <1>5, <3>1, <3>2, <3>3
  <2>3. \A b \in Buckets : b > Bucket(maxGap') => histogram'[b] = 0
    <3> SUFFICES ASSUME NEW b \in 1 .. 7, b > Bucket(maxGap')
                 PROVE  histogram'[b] = 0
      BY DEF Buckets
    <3>1. Bucket(gap) <= Bucket(maxGap') /\ Bucket(maxGap) <= Bucket(maxGap')
      BY <1>5, BucketMonotone
    <3>2. Bucket(maxGap) \in 1 .. 7 /\ Bucket(maxGap') \in 1 .. 7
      BY <1>5, BucketInRange DEF Buckets
    <3>3. b # Bucket(gap) /\ b > Bucket(maxGap)
      BY <1>3, <3>1, <3>2
    <3>4. histogram[b] = 0
      BY <3>3 DEF AccountInv, CountersAgree, Buckets
    <3>5. QED
      BY <1>3, <3>3, <3>4
  <2>4. QED
    BY <2>1, <2>2, <2>3 DEF CountersAgree
<1>8. RecentGapsAreWarnings'
  <2>0. /\ recent \in Seq([at : Nat, gap : Nat]) /\ Len(recent) \in Nat
        /\ Len(recent) <= RecentCapacity
        /\ \A i \in 1 .. Len(recent) :
               recent[i].gap >= WarningMs /\ recent[i].gap <= maxGap
    BY <1>0 DEF TypeOK, RecentFits, AccountInv, RecentGapsAreWarnings
  <2>g. ASSUME NEW i \in 1 .. Len(recent) PROVE recent[i].gap \in Nat
    <3>1. recent[i] \in [at : Nat, gap : Nat]
      BY <2>0, ElementOfSeq
    <3>2. QED
      BY <3>1
  <2>1. CASE gap >= WarningMs
    <3> DEFINE sample == [at |-> now, gap |-> gap]
    <3>1. recent' = Remember(sample) /\ sample \in [at : Nat, gap : Nat]
      BY <2>1 DEF RecordGap
    <3> HIDE DEF sample
    <3>2. /\ Len(recent') = (IF Len(recent) < RecentCapacity
                             THEN Len(recent) + 1 ELSE RecentCapacity)
          /\ \A i \in 1 .. Len(recent') :
                \/ recent'[i] = sample
                \/ \E j \in 1 .. Len(recent) : recent'[i] = recent[j]
      BY <2>0, <3>1, RememberShifts
    <3>3. sample.gap = gap
      BY DEF sample
    <3>4. ASSUME NEW i \in 1 .. Len(recent')
          PROVE  recent'[i].gap >= WarningMs /\ recent'[i].gap <= maxGap'
      <4>1. CASE recent'[i] = sample
        BY <1>5, <2>1, <3>3, <4>1
      <4>2. CASE \E j \in 1 .. Len(recent) : recent'[i] = recent[j]
        <5>1. PICK j \in 1 .. Len(recent) : recent'[i] = recent[j]
          BY <4>2
        <5>2. recent[j].gap \in Nat /\ recent[j].gap >= WarningMs
                /\ recent[j].gap <= maxGap
          BY <2>0, <2>g
        <5>3. QED
          BY <1>5, <5>1, <5>2
      <4>3. QED
        BY <3>2, <4>1, <4>2
    <3>5. Len(recent') = (IF gapCount' < RecentCapacity
                          THEN gapCount' ELSE RecentCapacity)
      BY <1>5, <2>1, <3>2 DEF AccountInv, RecentGapsAreWarnings
    <3>6. QED
      BY <3>4, <3>5 DEF RecentGapsAreWarnings
  <2>2. CASE ~(gap >= WarningMs)
    <3>1. recent' = recent /\ gapCount' = gapCount
      BY <2>2 DEF RecordGap
    <3>2. \A i \in 1 .. Len(recent) : recent[i].gap \in Nat
      BY <2>g
    <3>3. QED
      BY <1>5, <2>0, <3>1, <3>2 DEF AccountInv, RecentGapsAreWarnings
  <2>3. QED
    BY <2>1, <2>2
<1>9. FirstPacket' /\ (sequence' <= 1 => maxGap' = 0)
  BY <1>1 DEF FirstPacket
<1>10. QED
  BY <1>4, <1>6, <1>7, <1>8, <1>9 DEF AccountInv

LEMMA AccountInvNext == TypeInv /\ AccountInv /\ [Next]_vars => AccountInv'
<1> SUFFICES ASSUME TypeInv, AccountInv, [Next]_vars PROVE AccountInv'
  OBVIOUS
<1>0. TypeOK
  BY DEF TypeInv
<1>1. ASSUME NEW w \in Writers, NEW gear \in Gears, NEW info \in BOOLEAN,
             Store(w, gear, info)
      PROVE  AccountInv'
  <2>1. sequence' = sequence + 1 /\ lastPacketAt' > 0
    <3>1. lastPacketAt' = writer[w].now /\ sequence' = sequence + 1
      BY <1>1 DEF Store
    <3>2. writer[w].now \in Nat \ {0}
      BY <1>1, StoreGap
    <3>3. QED
      BY <3>1, <3>2
  <2>2. CASE lastPacketAt = 0
    <3>1. UNCHANGED gapVars
      BY <1>1, <2>2 DEF Store
    <3>2. QED
      BY <1>0, <2>1, <2>2, <3>1, AccountFirst
  <2>3. CASE lastPacketAt # 0
    <3>1. lastPacketAt > 0
      BY <1>0, <2>3 DEF TypeOK
    <3>2. RecordGap(writer[w].now, SaturatingSub(writer[w].now, lastPacketAt))
      BY <1>1, <3>1 DEF Store
    <3>3. /\ writer[w].now \in Nat
          /\ SaturatingSub(writer[w].now, lastPacketAt) \in Nat
      BY <1>1, StoreGap
    <3>4. QED
      BY <2>1, <3>1, <3>2, <3>3, AccountGap
  <2>4. QED
    BY <2>2, <2>3
<1>2. CASE \E w \in Writers : Update(w)
  BY <1>1, <1>2 DEF Update
<1>3. CASE \E w \in Writers : ReadClock(w)
  BY <1>3, AccountUntouched DEF ReadClock, storeVars
<1>4. CASE SetLastPacketInfo \/ MarkDisconnected
  BY <1>4, AccountUntouched DEF SetLastPacketInfo, MarkDisconnected
<1>5. CASE SetConnectionTimeoutMs \/ Advance \/ UNCHANGED vars
  BY <1>5, AccountUntouched DEF SetConnectionTimeoutMs, Advance, vars, storeVars
<1>6. CASE \E r \in Readers : Status(r)
  <2>1. UNCHANGED storeVars
    BY <1>6, StatusOnlyReads
  <2>2. QED
    BY <2>1, AccountUntouched DEF storeVars
<1>7. QED
  BY <1>2, <1>3, <1>4, <1>5, <1>6 DEF Next

\* No packet is missing from the histogram and none is in it twice, and the
\* histogram, the warning counter, the maximum gap and the ring of recent gaps
\* never contradict each other.
THEOREM StatisticsAgree == Spec => []GapStatisticsAgree
<1>1. AccountInv => GapStatisticsAgree
  BY DEF AccountInv, GapStatisticsAgree
<1>2. QED
  BY <1>1, TypeInvInit, TypeInvNext, AccountInvInit, AccountInvNext, PTL
     DEF Spec

-----------------------------------------------------------------------------
\* The dashboard never goes back from a gear to an unknown one.
THEOREM GearIsKept == Spec => ShownGearIsKept
<1>1. TypeInv /\ [Next]_vars
        => [latest.present /\ Displayable(latest.gear)
              => Displayable(latest'.gear)]_vars
  <2> SUFFICES ASSUME TypeInv, Next, latest.present, Displayable(latest.gear)
               PROVE  Displayable(latest'.gear)
    OBVIOUS
  <2>0. latest \in [present : BOOLEAN, gear : -2 .. 10,
                    connected : BOOLEAN]
    BY DEF TypeInv, TypeOK
  <2>1. CASE UNCHANGED latest
    BY <2>1
  <2>2. CASE MarkDisconnected
    BY <2>0, <2>2 DEF MarkDisconnected
  <2>3. ASSUME NEW w \in Writers, NEW gear \in Gears, NEW info \in BOOLEAN,
               Store(w, gear, info)
        PROVE  Displayable(latest'.gear)
    <3>1. latest'.gear = KeptGear(gear)
      BY <2>3 DEF Store
    <3>2. QED
      BY <3>1 DEF KeptGear, Displayable, UnknownShiftGear
  <2>4. CASE \E w \in Writers : Update(w)
    BY <2>3, <2>4 DEF Update
  <2>5. CASE \E w \in Writers : ReadClock(w)
    BY <2>1, <2>5 DEF ReadClock, storeVars
  <2>6. CASE \E r \in Readers : Status(r)
    BY <2>1, <2>6, StatusOnlyReads DEF storeVars
  <2>7. CASE SetLastPacketInfo \/ SetConnectionTimeoutMs \/ Advance
    BY <2>1, <2>7 DEF SetLastPacketInfo, SetConnectionTimeoutMs, Advance,
                      storeVars
  <2>8. QED
    BY <2>2, <2>4, <2>5, <2>6, <2>7 DEF Next
<1>2. QED
  BY <1>1, TypeInvInit, TypeInvNext, PTL DEF Spec, ShownGearIsKept

-----------------------------------------------------------------------------
(***************************************************************************)
(* As long as the wall clock only moves forward, a time read earlier is     *)
(* behind the clock, so what update() stores can only make the last packet  *)
(* look older than it is.                                                   *)
(***************************************************************************)
LEMMA SteadyBefore ==
    ASSUME [Next]_vars, Steady' PROVE Steady
<1>1. CASE \E w \in Writers : ReadClock(w)
  BY <1>1 DEF ReadClock, storeVars, Steady
<1>2. CASE \E w \in Writers : Update(w)
  BY <1>2 DEF Update, Store, Steady
<1>3. CASE SetLastPacketInfo \/ MarkDisconnected \/ SetConnectionTimeoutMs
  BY <1>3 DEF SetLastPacketInfo, MarkDisconnected, SetConnectionTimeoutMs,
              storeVars, Steady
<1>4. CASE \E r \in Readers : Status(r)
  BY <1>4, StatusOnlyReads DEF storeVars, Steady
<1>5. CASE Advance
  BY <1>5 DEF Advance, Steady
<1>6. CASE UNCHANGED vars
  BY <1>6 DEF vars, storeVars, Steady
<1>7. QED
  BY <1>1, <1>2, <1>3, <1>4, <1>5, <1>6 DEF Next

SilenceInv ==
    Steady =>
        /\ lastPacketAt <= storedAt
        /\ storedAt <= clock
        /\ \A w \in Writers :
              writer[w].pc = "waiting" => writer[w].now <= clock

LEMMA SilenceInvNext == TypeInv /\ SilenceInv /\ [Next]_vars => SilenceInv'
<1> SUFFICES ASSUME TypeInv, SilenceInv, [Next]_vars, Steady'
             PROVE  /\ lastPacketAt' <= storedAt'
                    /\ storedAt' <= clock'
                    /\ \A w \in Writers :
                          writer'[w].pc = "waiting" => writer'[w].now <= clock'
  BY DEF SilenceInv
<1> DEFINE Goal == /\ lastPacketAt' <= storedAt'
                   /\ storedAt' <= clock'
                   /\ \A w \in Writers : writer'[w].pc = "waiting"
                                           => writer'[w].now <= clock'
<1>s. /\ Steady
      /\ lastPacketAt <= storedAt /\ storedAt <= clock
      /\ \A w \in Writers : writer[w].pc = "waiting" => writer[w].now <= clock
  BY SteadyBefore DEF SilenceInv
<1>0. /\ clock \in Nat /\ storedAt \in Nat /\ lastPacketAt \in Nat
      /\ writer \in [Writers -> [pc : {"idle", "waiting"}, now : Nat]]
  BY <1>s DEF TypeInv, TypeOK, Steady
<1>1. ASSUME NEW w \in Writers, ReadClock(w) PROVE Goal
  BY <1>s, <1>0, <1>1 DEF ReadClock, storeVars
<1>2. ASSUME NEW w \in Writers, NEW gear \in Gears, NEW info \in BOOLEAN,
             Store(w, gear, info)
      PROVE  Goal
  <2>1. /\ lastPacketAt' = writer[w].now /\ writer[w].now <= clock
        /\ storedAt' = clock /\ clock' = clock
    BY <1>s, <1>2 DEF Store
  <2>2. \A v \in Writers :
            writer'[v].pc = "waiting" => writer'[v].now <= clock'
    BY <1>s, <1>0, <1>2 DEF Store
  <2>3. QED
    BY <1>0, <2>1, <2>2
<1>3. CASE \E w \in Writers : Update(w)
  BY <1>2, <1>3 DEF Update
<1>4. CASE Advance
  <2>1. clock' \in Nat /\ clock' >= clock
    BY <1>0, <1>4 DEF Advance, Steady
  <2>2. writer' = writer /\ storedAt' = storedAt /\ lastPacketAt' = lastPacketAt
    BY <1>0, <1>4, <2>1 DEF Advance
  <2>3. QED
    BY <1>s, <1>0, <2>1, <2>2
<1>5. CASE SetLastPacketInfo \/ MarkDisconnected \/ SetConnectionTimeoutMs
  BY <1>s, <1>5 DEF SetLastPacketInfo, MarkDisconnected,
                    SetConnectionTimeoutMs, storeVars
<1>6. CASE \E r \in Readers : Status(r)
  BY <1>s, <1>6, StatusOnlyReads DEF storeVars
<1>7. CASE UNCHANGED vars
  BY <1>s, <1>7 DEF vars, storeVars
<1>8. QED
  BY <1>1, <1>3, <1>4, <1>5, <1>6, <1>7 DEF Next

\* As long as the clock has not been set back, get_latest() says "connected"
\* only if a packet took effect no longer ago than the timeout now in force.
THEOREM SilenceIsNoticed == Spec => []SilenceDisconnects
<1>1. Init => SilenceInv
  <2> SUFFICES ASSUME Init PROVE SilenceInv
    OBVIOUS
  <2>1. \A w \in Writers : writer[w].pc = "idle"
    BY DEF Init
  <2>2. QED
    BY <2>1 DEF Init, SilenceInv
<1>2. TypeInv /\ SilenceInv => SilenceDisconnects
  <2> SUFFICES ASSUME TypeInv, SilenceInv, Steady, GetLatest.connected
               PROVE  clock - storedAt <= timeout
    BY DEF SilenceDisconnects
  <2>1. /\ clock \in Nat /\ storedAt \in Nat /\ lastPacketAt \in Nat
        /\ timeout \in Nat
        /\ latest \in [present : BOOLEAN, gear : -2 .. 10,
                       connected : BOOLEAN]
    BY DEF TypeInv, TypeOK, Steady
  <2>2. IsConnectedAt(lastPacketAt, clock)
    BY <2>1 DEF GetLatest
  <2>3. clock - lastPacketAt <= timeout
    BY <2>1, <2>2 DEF IsConnectedAt, SaturatingSub
  <2>4. QED
    BY <2>1, <2>3 DEF SilenceInv
<1>3. QED
  BY <1>1, <1>2, TypeInvInit, TypeInvNext, SilenceInvNext, PTL DEF Spec

-----------------------------------------------------------------------------
(***************************************************************************)
(* Metadata.  Only the receiver writes it, and it is never in update() and  *)
(* in set_last_packet_info() at once.                                       *)
(***************************************************************************)
InfoInv ==
    Steady =>
        /\ lastInfo.at <= clock
        /\ \A w \in InfoWriters :
              writer[w].pc = "waiting" =>
                  lastInfo.at <= writer[w].now /\ writer[w].now <= clock

LEMMA InfoInvNext ==
    TypeInv /\ InfoInv /\ [Next]_vars
      => InfoInv' /\ [Steady => lastInfo'.at >= lastInfo.at]_vars
<1>b. [Next]_vars => (Steady' => Steady)
  BY SteadyBefore
<1> SUFFICES ASSUME TypeInv, InfoInv, [Next]_vars, Steady
             PROVE  InfoInv' /\ lastInfo'.at >= lastInfo.at
  BY <1>b DEF InfoInv
<1>s. /\ lastInfo.at <= clock
      /\ \A w \in InfoWriters :
            writer[w].pc = "waiting" =>
                lastInfo.at <= writer[w].now /\ writer[w].now <= clock
  BY DEF InfoInv
<1>0. /\ clock \in Nat
      /\ lastInfo \in [present : BOOLEAN, at : Nat]
      /\ writer \in [Writers -> [pc : {"idle", "waiting"}, now : Nat]]
  BY DEF TypeInv, TypeOK
<1>1. ASSUME NEW w \in Writers, ReadClock(w)
      PROVE  InfoInv' /\ lastInfo'.at >= lastInfo.at
  BY <1>s, <1>0, <1>1 DEF ReadClock, storeVars, InfoInv
<1>2. ASSUME NEW w \in Writers, NEW gear \in Gears, NEW info \in BOOLEAN,
             info => w \in InfoWriters, Store(w, gear, info)
      PROVE  InfoInv' /\ lastInfo'.at >= lastInfo.at
  <2>1. /\ writer[w].pc = "waiting" /\ clock' = clock
        /\ writer' = [writer EXCEPT ![w] = [pc |-> "idle", now |-> 0]]
        /\ lastInfo' = IF info THEN [present |-> TRUE, at |-> writer[w].now]
                       ELSE lastInfo
    BY <1>2 DEF Store
  <2>2. CASE info
    <3>1. /\ lastInfo'.at = writer[w].now
          /\ lastInfo.at <= writer[w].now /\ writer[w].now <= clock
      BY <1>s, <1>2, <2>1, <2>2
    <3>2. \A v \in InfoWriters : writer'[v].pc = "idle"
      BY <1>0, <1>2, <2>1, <2>2
    <3>3. QED
      BY <1>0, <2>1, <3>1, <3>2 DEF InfoInv
  <2>3. CASE ~info
    BY <1>s, <1>0, <2>1, <2>3 DEF InfoInv
  <2>4. QED
    BY <2>2, <2>3
<1>3. CASE \E w \in Writers : Update(w)
  BY <1>2, <1>3 DEF Update
<1>4. CASE SetLastPacketInfo
  <2>1. \A w \in InfoWriters : writer[w].pc = "idle"
    BY <1>4 DEF SetLastPacketInfo
  <2>2. lastInfo'.at = clock /\ clock' = clock /\ writer' = writer
    BY <1>4 DEF SetLastPacketInfo
  <2>3. QED
    BY <1>s, <1>0, <2>1, <2>2 DEF InfoInv
<1>5. CASE Advance
  <2>1. clock' \in Nat /\ writer' = writer /\ lastInfo' = lastInfo
    BY <1>5 DEF Advance
  <2>2. Steady' => clock' >= clock
    BY <1>0, <1>5, <2>1 DEF Advance, Steady
  <2>3. QED
    BY <1>s, <1>0, <2>1, <2>2 DEF InfoInv
<1>6. CASE MarkDisconnected \/ SetConnectionTimeoutMs
  BY <1>s, <1>0, <1>6 DEF MarkDisconnected, SetConnectionTimeoutMs, storeVars,
                          InfoInv
<1>7. CASE \E r \in Readers : Status(r)
  BY <1>s, <1>0, <1>7, StatusOnlyReads DEF storeVars, InfoInv
<1>8. CASE UNCHANGED vars
  BY <1>s, <1>0, <1>8 DEF vars, storeVars, InfoInv
<1>9. QED
  BY <1>1, <1>3, <1>4, <1>5, <1>6, <1>7, <1>8 DEF Next

\* As long as the clock has not been set back, lastPacketInfoAt never goes back.
THEOREM PacketInfoOrdered == Spec => PacketInfoMovesForward
<1>1. Init => InfoInv
  <2> SUFFICES ASSUME Init PROVE InfoInv
    OBVIOUS
  <2>1. \A w \in InfoWriters : writer[w].pc = "idle"
    BY DEF Init
  <2>2. QED
    BY <2>1 DEF Init, InfoInv
<1>2. QED
  BY <1>1, TypeInvInit, TypeInvNext, InfoInvNext, PTL
     DEF Spec, PacketInfoMovesForward

-----------------------------------------------------------------------------
(***************************************************************************)
(* The status endpoint.  What a field says exists stays true of the store   *)
(* until a later field is read, because nothing the store has known is ever *)
(* taken back: there is no operation that empties it.                       *)
(***************************************************************************)
PresentInv == latest.present <=> sequence > 0

InfoPresentInv == lastInfo.at > 0 => lastInfo.present

\* A half-read answer against the store.
StillTrue(s) ==
    /\ s.packetAt \/ s.aged \/ s.connected \/ s.gameConnected \/ s.has
         => sequence > 0
    /\ s.gaps > 0 => s.gaps < sequence
    /\ s.infoAt => lastInfo.present

\* A half-read answer against itself.
KeptSoFar(s) ==
    /\ s.pc \notin {"idle", "infoAt", "timing"} => (s.packetAt => s.aged)
    /\ s.pc \in {"received", "info", "done"}
         => (s.aged \/ s.connected \/ s.gameConnected => s.has)
    /\ s.pc \in {"info", "done"}
         => /\ s.has => s.received > 0
            /\ s.gaps > 0 => s.gaps < s.received
    /\ s.pc = "done" => (s.infoAt => s.info)

StatusInv ==
    /\ PresentInv
    /\ InfoPresentInv
    /\ \A r \in Readers : StillTrue(status[r]) /\ KeptSoFar(status[r])

\* Whatever the writers do, the store only learns.
LEMMA StoreOnlyLearns ==
    ASSUME TypeInv, PresentInv, InfoPresentInv, [Next]_vars
    PROVE  /\ PresentInv' /\ InfoPresentInv'
           /\ sequence' >= sequence
           /\ lastInfo.present => lastInfo'.present
<1>0. /\ sequence \in Nat
      /\ lastInfo \in [present : BOOLEAN, at : Nat]
      /\ latest \in [present : BOOLEAN, gear : -2 .. 10,
                     connected : BOOLEAN]
  BY DEF TypeInv, TypeOK
<1>1. ASSUME NEW w \in Writers, NEW gear \in Gears, NEW info \in BOOLEAN,
             Store(w, gear, info)
      PROVE  /\ PresentInv' /\ InfoPresentInv' /\ sequence' >= sequence
             /\ lastInfo.present => lastInfo'.present
  <2>1. sequence' = sequence + 1 /\ latest'.present
    BY <1>1 DEF Store
  <2>2. PresentInv' /\ sequence' >= sequence
    BY <1>0, <2>1 DEF PresentInv
  <2>3. InfoPresentInv' /\ (lastInfo.present => lastInfo'.present)
    BY <1>1 DEF Store, InfoPresentInv
  <2>4. QED
    BY <2>2, <2>3
<1>2. CASE \E w \in Writers : Update(w)
  BY <1>1, <1>2 DEF Update
<1>3. CASE SetLastPacketInfo
  BY <1>0, <1>3 DEF SetLastPacketInfo, PresentInv, InfoPresentInv
<1>4. CASE MarkDisconnected
  BY <1>0, <1>4 DEF MarkDisconnected, PresentInv, InfoPresentInv
<1>5. ASSUME UNCHANGED <<sequence, latest, lastInfo>>
      PROVE  /\ PresentInv' /\ InfoPresentInv' /\ sequence' >= sequence
             /\ lastInfo.present => lastInfo'.present
  BY <1>0, <1>5 DEF PresentInv, InfoPresentInv
<1>6. CASE (\E w \in Writers : ReadClock(w)) \/ SetConnectionTimeoutMs
             \/ Advance \/ UNCHANGED vars
  BY <1>5, <1>6 DEF ReadClock, SetConnectionTimeoutMs, Advance, vars, storeVars
<1>7. CASE \E r \in Readers : Status(r)
  BY <1>5, <1>7, StatusOnlyReads DEF storeVars
<1>8. QED
  BY <1>2, <1>3, <1>4, <1>6, <1>7 DEF Next

\* One more read keeps an answer true, of the store and of itself.
LEMMA ReadKeepsWord ==
    ASSUME TypeInv, AccountInv, StatusInv, NEW r \in Readers, Status(r)
    PROVE  StillTrue(status'[r]) /\ KeptSoFar(status'[r])
<1>1. /\ sequence \in Nat /\ lastPacketAt \in Nat /\ gapCount \in Nat
      /\ lastInfo \in [present : BOOLEAN, at : Nat]
      /\ status \in [Readers -> StatusRecord] /\ status[r] \in StatusRecord
  BY DEF TypeInv, TypeOK
<1>2. /\ lastPacketAt > 0 <=> sequence > 0
      /\ latest.present <=> sequence > 0
      /\ IsConnectedAt(lastPacketAt, clock) => sequence > 0
      /\ gapCount > 0 => gapCount < sequence
      /\ lastInfo.at > 0 => lastInfo.present
  BY <1>1 DEF AccountInv, FirstPacket, StatusInv, PresentInv, InfoPresentInv,
              IsConnectedAt, SaturatingSub
<1>3. StillTrue(status[r]) /\ KeptSoFar(status[r])
  BY DEF StatusInv
<1>4. CASE StatusLastPacketAt(r)
  <2>1. status'[r] = [[IdleStatus EXCEPT !.packetAt = lastPacketAt > 0]
                        EXCEPT !.pc = "infoAt"]
    BY <1>1, <1>4 DEF StatusLastPacketAt, StatusRead
  <2>2. LET s == status'[r] IN
        /\ s.pc = "infoAt" /\ (s.packetAt => lastPacketAt > 0)
        /\ ~s.infoAt /\ ~s.aged /\ s.gaps = 0 /\ ~s.connected
        /\ ~s.gameConnected /\ ~s.has
    BY <2>1 DEF IdleStatus
  <2>3. StillTrue(status'[r])
    BY <1>1, <1>2, <2>2 DEF StillTrue
  <2>4. KeptSoFar(status'[r])
    BY <2>2 DEF KeptSoFar
  <2>5. QED
    BY <2>3, <2>4
<1>5. CASE StatusLastPacketInfoAt(r)
  <2>1. status'[r] = [[status[r] EXCEPT !.infoAt = lastInfo.at > 0]
                        EXCEPT !.pc = "timing"]
    BY <1>1, <1>5 DEF StatusLastPacketInfoAt, StatusRead
  <2>2. QED
    BY <1>1, <1>2, <1>3, <2>1 DEF StatusRecord, StillTrue, KeptSoFar
<1>6. CASE StatusTiming(r)
  <2>1. status'[r] = [[status[r] EXCEPT !.aged = lastPacketAt > 0,
                                        !.gaps = gapCount]
                        EXCEPT !.pc = "connected"]
    BY <1>1, <1>6 DEF StatusTiming, StatusRead
  <2>2. QED
    BY <1>1, <1>2, <1>3, <2>1 DEF StatusRecord, StillTrue, KeptSoFar
<1>7. CASE StatusConnected(r)
  <2>1. status[r].pc = "connected"
          /\ status'[r] = [[status[r] EXCEPT
                             !.connected = IsConnectedAt(lastPacketAt, clock)]
                            EXCEPT !.pc = "gameConnected"]
    BY <1>1, <1>7 DEF StatusConnected, StatusRead
  <2>2. QED
    BY <1>1, <1>2, <1>3, <2>1 DEF StatusRecord, StillTrue, KeptSoFar
<1>8. CASE StatusGameConnected(r)
  <2>1. status[r].pc = "gameConnected"
          /\ status'[r] = [[status[r] EXCEPT !.gameConnected
                              = IsConnectedAt(lastPacketAt, clock)]
                            EXCEPT !.pc = "has"]
    BY <1>1, <1>8 DEF StatusGameConnected, StatusRead
  <2>2. QED
    BY <1>1, <1>2, <1>3, <2>1 DEF StatusRecord, StillTrue, KeptSoFar
<1>9. CASE StatusHasTelemetry(r)
  <2>1. status[r].pc = "has"
          /\ status'[r] = [[status[r] EXCEPT !.has = latest.present]
                            EXCEPT !.pc = "received"]
    BY <1>1, <1>9 DEF StatusHasTelemetry, StatusRead
  <2>2. QED
    BY <1>1, <1>2, <1>3, <2>1 DEF StatusRecord, StillTrue, KeptSoFar
<1>10. CASE StatusSequence(r)
  <2>1. status[r].pc = "received"
          /\ status'[r] = [[status[r] EXCEPT !.received = sequence]
                             EXCEPT !.pc = "info"]
    BY <1>1, <1>10 DEF StatusSequence, StatusRead
  <2>2. QED
    BY <1>1, <1>2, <1>3, <2>1 DEF StatusRecord, StillTrue, KeptSoFar
<1>11. CASE StatusLastPacketInfo(r)
  <2>1. status[r].pc = "info"
          /\ status'[r] = [[status[r] EXCEPT !.info = lastInfo.present]
                             EXCEPT !.pc = "done"]
    BY <1>1, <1>11 DEF StatusLastPacketInfo, StatusRead
  <2>2. QED
    BY <1>1, <1>2, <1>3, <2>1 DEF StatusRecord, StillTrue, KeptSoFar
<1>12. CASE StatusDone(r)
  <2>1. status'[r] = [IdleStatus EXCEPT !.pc = "idle"]
    BY <1>1, <1>12 DEF StatusDone, StatusRead
  <2>2. QED
    BY <2>1 DEF IdleStatus, StillTrue, KeptSoFar
<1>13. QED
  BY <1>4, <1>5, <1>6, <1>7, <1>8, <1>9, <1>10, <1>11, <1>12 DEF Status

LEMMA StatusInvNext ==
    TypeInv /\ AccountInv /\ StatusInv /\ [Next]_vars => StatusInv'
<1> SUFFICES ASSUME TypeInv, AccountInv, StatusInv, [Next]_vars
             PROVE  StatusInv'
  OBVIOUS
<1>1. /\ PresentInv' /\ InfoPresentInv' /\ sequence' >= sequence
      /\ lastInfo.present => lastInfo'.present
  BY StoreOnlyLearns DEF StatusInv
<1>2. /\ sequence \in Nat /\ sequence' \in Nat
      /\ status \in [Readers -> StatusRecord]
  BY TypeInvNext DEF TypeInv, TypeOK
<1>3. ASSUME NEW q \in Readers, status'[q] = status[q]
      PROVE  StillTrue(status[q])' /\ KeptSoFar(status[q])'
  <2>1. StillTrue(status[q]) /\ KeptSoFar(status[q])
          /\ status[q].gaps \in Nat
    BY <1>2 DEF StatusInv, StatusRecord
  <2>2. QED
    BY <1>1, <1>2, <1>3, <2>1 DEF StillTrue, KeptSoFar
<1>4. ASSUME NEW r \in Readers, Status(r) PROVE StatusInv'
  <2>1. /\ \A q \in Readers \ {r} : status'[q] = status[q]
        /\ sequence' = sequence /\ lastInfo' = lastInfo
    BY <1>2, <1>4, StatusOnlyReads DEF Status, StatusLastPacketAt,
       StatusLastPacketInfoAt, StatusTiming, StatusConnected,
       StatusGameConnected, StatusHasTelemetry, StatusSequence,
       StatusLastPacketInfo, StatusDone, StatusRead, storeVars
  <2>2. StillTrue(status[r])' /\ KeptSoFar(status[r])'
    BY <1>4, <2>1, ReadKeepsWord DEF StillTrue, KeptSoFar
  <2>3. QED
    BY <1>1, <1>3, <2>1, <2>2 DEF StatusInv
<1>5. CASE UNCHANGED status
  BY <1>1, <1>3, <1>5 DEF StatusInv
<1>6. CASE (\E w \in Writers : ReadClock(w) \/ Update(w))
             \/ SetLastPacketInfo \/ MarkDisconnected
             \/ SetConnectionTimeoutMs \/ Advance \/ UNCHANGED vars
  BY <1>5, <1>6 DEF ReadClock, Update, Store, SetLastPacketInfo,
     MarkDisconnected, SetConnectionTimeoutMs, Advance, vars
<1>7. QED
  BY <1>4, <1>6 DEF Next

\* Whatever the writers do between the eight reads behind one GET /api/status,
\* no field denies what one read before it has said.
THEOREM StatusNeverRetracts == Spec => []StatusKeepsItsWord
<1>1. Init => StatusInv
  BY DEF Init, StatusInv, PresentInv, InfoPresentInv, StillTrue, KeptSoFar,
         IdleStatus
<1>2. StatusInv => StatusKeepsItsWord
  BY DEF StatusInv, KeptSoFar, StatusKeepsItsWord
<1>3. QED
  BY <1>1, <1>2, TypeInvInit, TypeInvNext, AccountInvInit, AccountInvNext,
     StatusInvNext, PTL DEF Spec
=====
