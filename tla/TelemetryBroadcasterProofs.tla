--------------------- MODULE TelemetryBroadcasterProofs ---------------------
(***************************************************************************)
(* Proofs about TelemetryBroadcaster, for every set of callers, every set   *)
(* of rates, every scale and no bound on time or requests but the guards'.  *)
(***************************************************************************)
EXTENDS TelemetryBroadcaster, FiniteSetTheorems, TLAPS

USE RatesAssumption, ScaleAssumption, BoundsAssumption

-----------------------------------------------------------------------------
\* Tokens earned since the last refill: the facts about the product that the
\* provers need, stated once.

LEMMA EarnedNat ==
    ASSUME NEW t \in Nat, NEW r \in Nat
    PROVE  t * r \in Nat
  OBVIOUS

LEMMA EarnedOneMore ==
    ASSUME NEW t \in Nat, NEW r \in Nat
    PROVE  (t + 1) * r = t * r + r
  OBVIOUS

LEMMA RateIsNat == Rates \subseteq Nat /\ \A r \in Rates : r > 0
  OBVIOUS

LEMMA RefilledTokensBounds ==
    ASSUME TypeOK
    PROVE  /\ (now - lastRefill) * interval \in Nat
           /\ RefilledTokens \in tokens .. BucketSize
           /\ RefilledTokens <= tokens + (now - lastRefill) * interval
  <1>1. now - lastRefill \in Nat /\ interval \in Nat
    BY RateIsNat DEF TypeOK
  <1>2. (now - lastRefill) * interval \in Nat
    BY <1>1, EarnedNat
  <1>3. tokens \in Nat /\ tokens <= BucketSize /\ BucketSize \in Nat
    BY DEF TypeOK, BucketSize, Capacity
  <1>4. QED
    BY <1>2, <1>3 DEF RefilledTokens

-----------------------------------------------------------------------------
\* The bucket keeps the token a frame in progress is going to pay with.
TokenHeld == loopPc \in {"record", "send"} => tokens >= Scale

TypeInv == TypeOK /\ TokenHeld

LEMMA TypeInvInit == Init => TypeInv
<1> SUFFICES ASSUME Init PROVE TypeInv
  OBVIOUS
<1> USE DEF Init
<1>1. tokens \in 0 .. BucketSize
  BY DEF BucketSize, Capacity
<1>2. lastRefill \in 0 .. now
  OBVIOUS
<1>3. TokenHeld
  BY DEF TokenHeld
<1>4. /\ reader \in [pc : {"idle", "locked", "loaded"}, requests : Nat]
      /\ window \in [earned : Nat, spent : Nat]
  OBVIOUS
<1>5. caller \in [Callers -> {"idle", "counted"}]
  OBVIOUS
<1>6. QED
  BY <1>1, <1>2, <1>3, <1>4, <1>5 DEF TypeInv, TypeOK

LEMMA TypeInvNext == TypeInv /\ [Next]_vars => TypeInv'
<1> SUFFICES ASSUME TypeInv, [Next]_vars PROVE TypeInv'
  OBVIOUS
<1> USE DEF TypeInv
<1>1. ASSUME NEW c \in Callers, CountRequest(c) PROVE TypeInv'
  BY <1>1 DEF CountRequest, TypeOK, TokenHeld, setVars, localVars, statVars,
              auxVars, BucketSize
<1>2. ASSUME NEW c \in Callers, ReplaceRequest(c) PROVE TypeInv'
  BY <1>2 DEF ReplaceRequest, TypeOK, TokenHeld, setVars, localVars, statVars,
              auxVars, BucketSize
<1>3. CASE SetBroadcastHz
  BY <1>3 DEF SetBroadcastHz, TypeOK, TokenHeld, callVars, localVars, statVars,
              auxVars, BucketSize
<1>4. CASE IntervalReady
  BY <1>4 DEF IntervalReady, TypeOK, TokenHeld, callVars, setVars, localVars,
              statVars, auxVars, BucketSize
<1>5. CASE ApplyInterval
  <2>1. RefilledTokens \in 0 .. BucketSize
    BY RefilledTokensBounds DEF TypeOK, BucketSize, Capacity
  <2>2. now \in 0 .. now
    BY DEF TypeOK
  <2>3. QED
    BY <1>5, <2>1, <2>2 DEF ApplyInterval, TypeOK, TokenHeld, callVars,
              setVars, statVars, auxVars, BucketSize
<1>6. CASE RequestReady
  BY <1>6 DEF RequestReady, TypeOK, TokenHeld, callVars, setVars, localVars,
              statVars, auxVars, BucketSize
<1>7. CASE BorrowPending
  BY <1>7 DEF BorrowPending, TypeOK, TokenHeld, callVars, setVars, statVars,
              auxVars, BucketSize
<1>8. CASE TakeToken
  <2>1. RefilledTokens \in 0 .. BucketSize
    BY RefilledTokensBounds DEF TypeOK, BucketSize, Capacity
  <2>2. now \in 0 .. now
    BY DEF TypeOK
  <2>3. QED
    BY <1>8, <2>1, <2>2 DEF TakeToken, Refill, TypeOK, TokenHeld, callVars,
              setVars, statVars, BucketSize
<1>9. CASE DropRequest
  <2>1. RefilledTokens \in 0 .. BucketSize
    BY RefilledTokensBounds DEF TypeOK, BucketSize, Capacity
  <2>2. now \in 0 .. now
    BY DEF TypeOK
  <2>3. QED
    BY <1>9, <2>1, <2>2 DEF DropRequest, Refill, TypeOK, TokenHeld, callVars,
              setVars, statVars, BucketSize
<1>10. CASE RecordBroadcast
  BY <1>10 DEF RecordBroadcast, TypeOK, TokenHeld, callVars, setVars,
              localVars, auxVars, BucketSize
<1>11. CASE SendFrame
  BY <1>11 DEF SendFrame, TypeOK, TokenHeld, callVars, setVars, statVars,
              BucketSize, Capacity
<1>12. CASE RecordSerializationError
  BY <1>12 DEF RecordSerializationError, TypeOK, TokenHeld, callVars, setVars,
              BucketSize, Capacity
<1>13. CASE StatsLock
  BY <1>13 DEF StatsLock, StatsStep, TypeOK, TokenHeld, callVars, setVars,
              localVars, statVars, auxVars, BucketSize
<1>14. CASE StatsLoadRequests
  BY <1>14 DEF StatsLoadRequests, StatsStep, TypeOK, TokenHeld, callVars,
              setVars, localVars, statVars, auxVars, BucketSize
<1>15. CASE StatsReadBroadcasts
  BY <1>15 DEF StatsReadBroadcasts, StatsStep, TypeOK, TokenHeld, callVars,
              setVars, localVars, statVars, auxVars, BucketSize
<1>16. CASE Tick
  BY <1>16, RateIsNat DEF Tick, TypeOK, TokenHeld, callVars, setVars,
              localVars, statVars, BucketSize
<1>17. CASE OpenWindow
  BY <1>17 DEF OpenWindow, TypeOK, TokenHeld, callVars, setVars, localVars,
              statVars, BucketSize, Spent
<1>18. CASE UNCHANGED vars
  BY <1>18 DEF vars, TypeOK, TokenHeld, callVars, setVars, localVars,
              statVars, auxVars, BucketSize
<1>19. QED
  BY <1>1, <1>2, <1>3, <1>4, <1>5, <1>6, <1>7, <1>8, <1>9, <1>10, <1>11,
     <1>12, <1>13, <1>14, <1>15, <1>16, <1>17, <1>18
     DEF Next, LoopStep, Publish

\* Channels, locals and counters of the broadcaster keep their types; the
\* bucket never goes below zero and never above two tokens.
THEOREM TypeCorrect == Spec => []TypeOK
<1>1. TypeInv => TypeOK
  BY DEF TypeInv
<1>2. QED
  BY <1>1, TypeInvInit, TypeInvNext, PTL DEF Spec

-----------------------------------------------------------------------------
(***************************************************************************)
(* Every request is counted before it reaches the channel, every wake-up of *)
(* the loop marks at least one more request as seen, and every token check  *)
(* that succeeds belongs to one wake-up.                                    *)
(***************************************************************************)
Counted == {c \in Callers : caller[c] = "counted"}

InHand == IF loopPc \in {"borrow", "refill"} THEN 1 ELSE 0

RequestsInv ==
    /\ request + Cardinality(Counted) = requestCount
    /\ seen <= request
    /\ Spent + InHand <= seen
    /\ StatsNeverUnderflow

LEMMA CountedNat == Cardinality(Counted) \in Nat
  BY CallersAssumption, FS_Subset, FS_CardinalityType DEF Counted

LEMMA RequestsInvInit == Init => RequestsInv
<1> SUFFICES ASSUME Init PROVE RequestsInv
  OBVIOUS
<1> USE DEF Init
<1>1. Counted = {}
  BY DEF Counted
<1>2. Cardinality(Counted) = 0
  BY <1>1, FS_EmptySet
<1>3. QED
  BY <1>2 DEF RequestsInv, Spent, InHand, StatsNeverUnderflow

\* A step that leaves the callers and the two counts of requests alone can
\* only disturb the later parts.
LEMMA CallersUnchanged ==
    ASSUME RequestsInv, UNCHANGED callVars
    PROVE  request' + Cardinality(Counted)' = requestCount'
<1>1. Counted' = Counted
  BY DEF Counted, callVars
<1>2. QED
  BY <1>1 DEF RequestsInv, callVars

LEMMA RequestsInvNext == TypeInv /\ RequestsInv /\ [Next]_vars => RequestsInv'
<1> SUFFICES ASSUME TypeInv, RequestsInv, [Next]_vars PROVE RequestsInv'
  OBVIOUS
<1>a. TypeOK
  BY DEF TypeInv
<1>1. ASSUME NEW c \in Callers, CountRequest(c) PROVE RequestsInv'
  <2>1. Counted' = Counted \cup {c} /\ c \notin Counted
    BY <1>1, <1>a DEF CountRequest, Counted, TypeOK
  <2>2. Cardinality(Counted)' = Cardinality(Counted) + 1
    BY <2>1, CallersAssumption, FS_Subset, FS_AddElement DEF Counted
  <2>3. QED
    BY <1>1, <1>a, <2>2, CountedNat DEF CountRequest, RequestsInv, Spent,
       InHand, StatsNeverUnderflow, statVars, TypeOK
<1>2. ASSUME NEW c \in Callers, ReplaceRequest(c) PROVE RequestsInv'
  <2>1. Counted' = Counted \ {c} /\ c \in Counted
    BY <1>2, <1>a DEF ReplaceRequest, Counted, TypeOK
  <2>2. Cardinality(Counted)' = Cardinality(Counted) - 1
    BY <2>1, CallersAssumption, FS_Subset, FS_RemoveElement DEF Counted
  <2>3. QED
    BY <1>2, <1>a, <2>2, CountedNat DEF ReplaceRequest, RequestsInv, Spent,
       InHand, StatsNeverUnderflow, statVars, TypeOK
<1> USE <1>a, CallersUnchanged, CountedNat
    DEF RequestsInv, Spent, InHand, StatsNeverUnderflow, TypeOK
<1>3. CASE SetBroadcastHz
  BY <1>3 DEF SetBroadcastHz, callVars, statVars
<1>4. CASE IntervalReady
  BY <1>4 DEF IntervalReady, callVars, statVars
<1>5. CASE ApplyInterval
  BY <1>5 DEF ApplyInterval, callVars, statVars
<1>6. CASE RequestReady
  BY <1>6 DEF RequestReady, callVars, statVars
<1>7. CASE BorrowPending
  BY <1>7 DEF BorrowPending, callVars, statVars
<1>8. CASE TakeToken
  BY <1>8 DEF TakeToken, Refill, callVars, statVars
<1>9. CASE DropRequest
  BY <1>9 DEF DropRequest, Refill, callVars, statVars
<1>10. CASE RecordBroadcast
  BY <1>10 DEF RecordBroadcast, callVars
<1>11. CASE SendFrame
  BY <1>11 DEF SendFrame, callVars, statVars
<1>12. CASE RecordSerializationError
  BY <1>12 DEF RecordSerializationError, callVars
<1>13. CASE StatsLock
  BY <1>13 DEF StatsLock, StatsStep, callVars, statVars
<1>14. CASE StatsLoadRequests
  BY <1>14 DEF StatsLoadRequests, StatsStep, callVars, statVars
<1>15. CASE StatsReadBroadcasts
  BY <1>15 DEF StatsReadBroadcasts, StatsStep, callVars, statVars
<1>16. CASE Tick
  BY <1>16 DEF Tick, callVars, statVars
<1>17. CASE OpenWindow
  BY <1>17 DEF OpenWindow, callVars, statVars
<1>18. CASE UNCHANGED vars
  BY <1>18 DEF vars, callVars, statVars
<1>19. QED
  BY <1>1, <1>2, <1>3, <1>4, <1>5, <1>6, <1>7, <1>8, <1>9, <1>10, <1>11,
     <1>12, <1>13, <1>14, <1>15, <1>16, <1>17, <1>18
     DEF Next, LoopStep, Publish

\* Frames let through never outnumber the calls of request_broadcast, although
\* a value may be borrowed, and published, twice; and stats(), which loads
\* request_count before broadcast_count can move, reports so.
THEOREM FramesAreRequested == Spec => []EveryFrameWasRequested
<1>1. TypeInv /\ RequestsInv => EveryFrameWasRequested
  BY CountedNat DEF TypeInv, TypeOK, RequestsInv, EveryFrameWasRequested,
                    Spent, InHand
<1>2. QED
  BY <1>1, TypeInvInit, TypeInvNext, RequestsInvInit, RequestsInvNext, PTL
     DEF Spec

-----------------------------------------------------------------------------
(***************************************************************************)
(* Wake-ups.  What a channel has marked as seen is never newer than what the *)
(* loop has taken from it, except between changed() and borrow().           *)
(***************************************************************************)
WakeUpInv ==
    /\ seen <= request /\ pending <= request
    /\ loopPc # "borrow" => seen <= pending
    /\ loopPc # "interval" /\ ~intervalChanged => interval = intervalSlot

LEMMA WakeUpInvNext == TypeInv /\ WakeUpInv /\ [Next]_vars => WakeUpInv'
<1> SUFFICES ASSUME TypeInv, WakeUpInv, [Next]_vars PROVE WakeUpInv'
  OBVIOUS
<1>0. seen \in Nat /\ request \in Nat /\ pending \in Nat
  BY DEF TypeInv, TypeOK
<1> USE <1>0 DEF WakeUpInv
<1>1. ASSUME NEW c \in Callers, CountRequest(c) \/ ReplaceRequest(c)
      PROVE  WakeUpInv'
  BY <1>1 DEF CountRequest, ReplaceRequest, setVars, localVars
<1>2. CASE SetBroadcastHz
  BY <1>2 DEF SetBroadcastHz, callVars, localVars
<1>3. CASE IntervalReady \/ ApplyInterval
  BY <1>3 DEF IntervalReady, ApplyInterval, callVars, setVars, localVars
<1>4. CASE RequestReady \/ BorrowPending
  BY <1>4 DEF RequestReady, BorrowPending, callVars, setVars, localVars
<1>5. CASE TakeToken \/ DropRequest
  BY <1>5 DEF TakeToken, DropRequest, Refill, callVars, setVars
<1>6. CASE RecordBroadcast \/ SendFrame \/ RecordSerializationError
  BY <1>6 DEF RecordBroadcast, SendFrame, RecordSerializationError, callVars,
              setVars, localVars
<1>7. CASE StatsLock \/ StatsLoadRequests \/ StatsReadBroadcasts \/ Tick
             \/ OpenWindow \/ UNCHANGED vars
  BY <1>7 DEF StatsLock, StatsLoadRequests, StatsReadBroadcasts, StatsStep,
              Tick, OpenWindow, vars, callVars, setVars, localVars
<1>8. QED
  BY <1>1, <1>2, <1>3, <1>4, <1>5, <1>6, <1>7 DEF Next, LoopStep, Publish

\* The loop never waits with something undone: neither a request nor a rate that
\* arrives at any moment of its round is lost.
THEOREM NoWakeUpIsLost == Spec => []WaitingLoopIsUpToDate
<1>1. Init => WakeUpInv
  BY DEF Init, WakeUpInv
<1>2. TypeInv /\ WakeUpInv => WaitingLoopIsUpToDate
  BY DEF TypeInv, TypeOK, WakeUpInv, WaitingLoopIsUpToDate
<1>3. QED
  BY <1>1, <1>2, TypeInvInit, TypeInvNext, WakeUpInvNext, PTL DEF Spec

-----------------------------------------------------------------------------
(***************************************************************************)
(* The bucket.  What had been earned when the loop last refilled is where   *)
(* the account of the window stands: until the first refill after the       *)
(* window opened nothing is let through, from then on the tokens left and   *)
(* those spent stay below a full bucket plus what was earned in between.    *)
(***************************************************************************)
Elapsed == (now - lastRefill) * interval

EarnedAtRefill == earned - Elapsed

\* The token of the frame in progress, already counted in Spent.
InFlight == IF loopPc \in {"record", "send"} THEN Scale ELSE 0

WindowUntouched ==
    EarnedAtRefill < window.earned => Spent = window.spent

WindowAccount ==
    EarnedAtRefill >= window.earned =>
        tokens - InFlight + Scale * (Spent - window.spent)
            <= BucketSize + (EarnedAtRefill - window.earned)

BucketInv ==
    /\ window.earned <= earned
    /\ window.spent <= Spent
    /\ WindowUntouched
    /\ WindowAccount

LEMMA ScaleOneMore ==
    ASSUME NEW n \in Int PROVE Scale * (n + 1) = Scale * n + Scale
  OBVIOUS

LEMMA SpentNat == ASSUME TypeOK PROVE Spent \in Nat
  BY DEF TypeOK, Spent

LEMMA BucketFacts ==
    ASSUME TypeOK
    PROVE  /\ Elapsed \in Nat
           /\ BucketSize \in Nat /\ Scale \in Nat
           /\ Spent \in Nat
           /\ window.earned \in Nat /\ window.spent \in Nat /\ earned \in Nat
           /\ tokens \in Nat /\ tokens <= BucketSize
           /\ Scale * (Spent - window.spent) \in Int
           /\ RefilledTokens \in Nat
           /\ RefilledTokens <= BucketSize
           /\ RefilledTokens <= tokens + Elapsed
<1>1. Spent - window.spent \in Int
  BY SpentNat DEF TypeOK
<1>2. Scale * (Spent - window.spent) \in Int
  BY <1>1
<1>3. window.earned \in Nat /\ window.spent \in Nat
  BY DEF TypeOK
<1>4. BucketSize \in Nat /\ tokens \in Nat /\ tokens <= BucketSize
  BY DEF TypeOK, BucketSize, Capacity
<1>5. /\ RefilledTokens \in Nat /\ RefilledTokens <= BucketSize
      /\ RefilledTokens <= tokens + Elapsed
  BY <1>4, RefilledTokensBounds DEF Elapsed
<1>6. QED
  BY <1>2, <1>3, <1>4, <1>5, SpentNat, RefilledTokensBounds
     DEF TypeOK, Elapsed

\* Steps that touch neither the account nor the window.
LEMMA BucketUntouched ==
    ASSUME BucketInv, Spent' = Spent, InFlight' = InFlight,
           UNCHANGED <<now, tokens, lastRefill, interval, earned, window>>
    PROVE  BucketInv'
<1>1. Elapsed' = Elapsed /\ BucketSize' = BucketSize
  BY DEF Elapsed, BucketSize, Capacity
<1>2. QED
  BY <1>1 DEF BucketInv, WindowUntouched, WindowAccount, EarnedAtRefill

\* A refill, after which the account is up to date with the clock.
LEMMA BucketRefilled ==
    ASSUME TypeOK, BucketInv, InFlight = 0, tokens' = RefilledTokens,
           lastRefill' = now, now' = now, interval' \in Rates,
           UNCHANGED <<earned, window>>,
           \/ Spent' = Spent /\ InFlight' = 0
           \/ Spent' = Spent + 1 /\ InFlight' = Scale
    PROVE  BucketInv'
<1>1. Elapsed' = 0
  <2>1. now' - lastRefill' = 0 /\ interval' \in Nat
    BY RateIsNat DEF TypeOK
  <2>2. QED
    BY <2>1 DEF Elapsed
<1>2. EarnedAtRefill' = earned
  BY <1>1 DEF EarnedAtRefill, TypeOK
<1>3. tokens' - InFlight' + (Scale * (Spent - window.spent))'
         = RefilledTokens + Scale * (Spent - window.spent)
  <2>1. Spent - window.spent \in Int
    BY BucketFacts
  <2>2. Spent' = Spent + 1 =>
          (Scale * (Spent - window.spent))'
             = Scale * (Spent - window.spent) + Scale
    BY <2>1, BucketFacts, ScaleOneMore
  <2>3. QED
    BY <2>2, BucketFacts
<1>4. RefilledTokens + Scale * (Spent - window.spent)
         <= BucketSize + (earned - window.earned)
  <2>1. CASE EarnedAtRefill < window.earned
    <3>1. Scale * (Spent - window.spent) = 0
      BY <2>1, BucketFacts DEF BucketInv, WindowUntouched
    <3>2. QED
      BY <3>1, BucketFacts DEF BucketInv
  <2>2. CASE EarnedAtRefill >= window.earned
    BY <2>2, BucketFacts DEF BucketInv, WindowAccount, EarnedAtRefill
  <2>3. QED
    BY <2>1, <2>2, BucketFacts DEF EarnedAtRefill
<1>5. BucketSize' = BucketSize
  BY DEF BucketSize, Capacity
<1>6. QED
  BY <1>2, <1>3, <1>4, <1>5, BucketFacts
     DEF BucketInv, WindowUntouched, WindowAccount

LEMMA BucketInvInit == Init => BucketInv
<1> SUFFICES ASSUME Init PROVE BucketInv
  OBVIOUS
<1> USE DEF Init
<1>1. Elapsed = 0
  BY RateIsNat DEF Elapsed
<1>2. Spent = 0 /\ InFlight = 0
  BY DEF Spent, InFlight
<1>3. Scale * (Spent - window.spent) = 0
  BY <1>2
<1>4. QED
  BY <1>1, <1>2, <1>3 DEF BucketInv, WindowUntouched, WindowAccount,
     EarnedAtRefill, BucketSize, Capacity

LEMMA BucketInvNext == TypeInv /\ BucketInv /\ [Next]_vars => BucketInv'
<1> SUFFICES ASSUME TypeInv, BucketInv, [Next]_vars PROVE BucketInv'
  OBVIOUS
<1>a. TypeOK
  BY DEF TypeInv
<1>1. ASSUME NEW c \in Callers, CountRequest(c) PROVE BucketInv'
  BY <1>1, BucketUntouched
     DEF CountRequest, Spent, InFlight, localVars, statVars, auxVars
<1>2. ASSUME NEW c \in Callers, ReplaceRequest(c) PROVE BucketInv'
  BY <1>2, BucketUntouched
     DEF ReplaceRequest, Spent, InFlight, localVars, statVars, auxVars
<1>3. CASE SetBroadcastHz
  BY <1>3, BucketUntouched
     DEF SetBroadcastHz, Spent, InFlight, localVars, statVars, auxVars
<1>4. CASE IntervalReady
  BY <1>4, BucketUntouched
     DEF IntervalReady, Spent, InFlight, localVars, statVars, auxVars
<1>5. CASE ApplyInterval
  <2>1. Spent' = Spent /\ InFlight' = 0 /\ InFlight = 0 /\ interval' \in Rates
    BY <1>5, <1>a DEF ApplyInterval, Spent, InFlight, statVars, TypeOK
  <2>2. QED
    BY <1>5, <1>a, <2>1, BucketRefilled DEF ApplyInterval, auxVars
<1>6. CASE RequestReady
  BY <1>6, BucketUntouched
     DEF RequestReady, Spent, InFlight, localVars, statVars, auxVars
<1>7. CASE BorrowPending
  BY <1>7, BucketUntouched
     DEF BorrowPending, Spent, InFlight, statVars, auxVars
<1>8. CASE TakeToken
  <2>1. /\ Spent' = Spent + 1 /\ InFlight' = Scale /\ InFlight = 0
        /\ interval' \in Rates
    BY <1>8, <1>a, BucketFacts
       DEF TakeToken, Refill, Spent, InFlight, statVars, TypeOK
  <2>2. QED
    BY <1>8, <1>a, <2>1, BucketRefilled DEF TakeToken, Refill
<1>9. CASE DropRequest
  <2>1. Spent' = Spent /\ InFlight' = 0 /\ InFlight = 0 /\ interval' \in Rates
    BY <1>9, <1>a DEF DropRequest, Refill, Spent, InFlight, statVars, TypeOK
  <2>2. QED
    BY <1>9, <1>a, <2>1, BucketRefilled DEF DropRequest, Refill
<1>10. CASE RecordBroadcast
  <2>1. Spent' = Spent
    BY <1>10, <1>a DEF RecordBroadcast, Spent, TypeOK
  <2>2. QED
    BY <1>10, <2>1, BucketUntouched
       DEF RecordBroadcast, InFlight, localVars, auxVars
<1>11. CASE SendFrame
  <2>1. /\ Spent' = Spent /\ tokens' - InFlight' = tokens - InFlight
    BY <1>11, <1>a, BucketFacts DEF SendFrame, Spent, InFlight, statVars
  <2>2. Elapsed' = Elapsed /\ BucketSize' = BucketSize
    BY <1>11 DEF SendFrame, Elapsed, BucketSize, Capacity
  <2>3. QED
    BY <1>11, <2>1, <2>2 DEF SendFrame, BucketInv, WindowUntouched,
       WindowAccount, EarnedAtRefill
<1>12. CASE RecordSerializationError
  <2>1. /\ Spent' = Spent /\ tokens' - InFlight' = tokens - InFlight
    BY <1>12, <1>a, BucketFacts
       DEF RecordSerializationError, Spent, InFlight, TypeOK
  <2>2. Elapsed' = Elapsed /\ BucketSize' = BucketSize
    BY <1>12 DEF RecordSerializationError, Elapsed, BucketSize, Capacity
  <2>3. QED
    BY <1>12, <2>1, <2>2 DEF RecordSerializationError, BucketInv,
       WindowUntouched, WindowAccount, EarnedAtRefill
<1>13. CASE StatsLock
  BY <1>13, BucketUntouched
     DEF StatsLock, StatsStep, Spent, InFlight, localVars, statVars, auxVars
<1>14. CASE StatsLoadRequests
  BY <1>14, BucketUntouched DEF StatsLoadRequests, StatsStep, Spent, InFlight,
     localVars, statVars, auxVars
<1>15. CASE StatsReadBroadcasts
  BY <1>15, BucketUntouched DEF StatsReadBroadcasts, StatsStep, Spent,
     InFlight, localVars, statVars, auxVars
<1>16. CASE Tick
  <2>1. now - lastRefill \in Nat /\ interval \in Nat
    BY <1>a, RateIsNat DEF TypeOK
  <2>2. Elapsed' = ((now - lastRefill) + 1) * interval
    BY <1>16, <1>a DEF Tick, Elapsed, localVars, TypeOK
  <2>3. Elapsed' = Elapsed + interval
    BY <2>1, <2>2, EarnedOneMore DEF Elapsed
  <2>4. EarnedAtRefill' = EarnedAtRefill
    BY <1>16, <1>a, <2>1, <2>3, BucketFacts DEF Tick, EarnedAtRefill
  <2>5. Spent' = Spent /\ InFlight' = InFlight /\ BucketSize' = BucketSize
    BY <1>16 DEF Tick, Spent, InFlight, statVars, BucketSize, Capacity
  <2>6. earned' >= earned
    BY <1>16, <1>a, <2>1 DEF Tick, TypeOK
  <2>7. QED
    BY <1>16, <1>a, <2>4, <2>5, <2>6, BucketFacts DEF Tick, BucketInv,
       WindowUntouched, WindowAccount, localVars
<1>17. CASE OpenWindow
  <2>1. Spent' = Spent /\ InFlight' = InFlight /\ BucketSize' = BucketSize
    BY <1>17 DEF OpenWindow, Spent, InFlight, statVars, BucketSize, Capacity
  <2>2. Elapsed' = Elapsed /\ earned' = earned /\ tokens' = tokens
    BY <1>17 DEF OpenWindow, Elapsed, localVars
  <2>3. window'.earned = earned /\ window'.spent = Spent
    BY <1>17 DEF OpenWindow
  <2>4. Scale * (Spent' - window'.spent) = 0
    BY <1>a, <2>1, <2>3, BucketFacts
  <2>5. InFlight \in Nat
    BY <1>a, BucketFacts DEF InFlight
  <2>6. QED
    BY <1>a, <2>1, <2>2, <2>3, <2>4, <2>5, BucketFacts DEF BucketInv,
       WindowUntouched, WindowAccount, EarnedAtRefill
<1>18. CASE UNCHANGED vars
  BY <1>18, BucketUntouched
     DEF vars, Spent, InFlight, localVars, statVars, auxVars
<1>19. QED
  BY <1>1, <1>2, <1>3, <1>4, <1>5, <1>6, <1>7, <1>8, <1>9, <1>10, <1>11,
     <1>12, <1>13, <1>14, <1>15, <1>16, <1>17, <1>18
     DEF Next, LoopStep, Publish

\* From any moment on, run_broadcast_loop lets through no more than a full
\* bucket and what the rates in effect since then have earned.
THEOREM RateIsCapped == Spec => []RateCap
<1>1. TypeInv /\ BucketInv => RateCap
  <2> SUFFICES ASSUME TypeInv, BucketInv PROVE RateCap
    OBVIOUS
  <2>1. TypeOK /\ TokenHeld
    BY DEF TypeInv
  <2>2. CASE EarnedAtRefill < window.earned
    <3>1. Scale * (Spent - window.spent) = 0
      BY <2>1, <2>2, BucketFacts DEF BucketInv, WindowUntouched
    <3>2. QED
      BY <2>1, <3>1, BucketFacts DEF BucketInv, RateCap
  <2>3. CASE EarnedAtRefill >= window.earned
    <3>1. tokens - InFlight >= 0
      BY <2>1, BucketFacts DEF InFlight, TokenHeld
    <3>2. InFlight \in Nat
      BY <2>1, BucketFacts DEF InFlight
    <3>3. QED
      BY <2>1, <2>3, <3>1, <3>2, BucketFacts
         DEF BucketInv, WindowAccount, EarnedAtRefill, RateCap
  <2>4. QED
    BY <2>1, <2>2, <2>3, BucketFacts DEF EarnedAtRefill
<1>2. QED
  BY <1>1, TypeInvInit, TypeInvNext, BucketInvInit, BucketInvNext, PTL
     DEF Spec

-----------------------------------------------------------------------------
(***************************************************************************)
(* The refinement.  What the loop holds in `pending` was borrowed after its *)
(* previous decision, so it is at least as new as what was there then.      *)
(***************************************************************************)
OrderInv ==
    /\ floor <= request
    /\ loopPc \in {"refill", "record", "send"} => pending \in floor .. request

LEMMA OrderInvNext == TypeInv /\ OrderInv /\ [Next]_vars => OrderInv'
<1> SUFFICES ASSUME TypeInv, OrderInv, [Next]_vars PROVE OrderInv'
  OBVIOUS
<1> USE DEF OrderInv, TypeInv, TypeOK
<1>1. ASSUME NEW c \in Callers, CountRequest(c) PROVE OrderInv'
  BY <1>1 DEF CountRequest, localVars, auxVars
<1>2. ASSUME NEW c \in Callers, ReplaceRequest(c) PROVE OrderInv'
  BY <1>2 DEF ReplaceRequest, localVars, auxVars
<1>3. CASE SetBroadcastHz
  BY <1>3 DEF SetBroadcastHz, callVars, localVars, auxVars
<1>4. CASE IntervalReady \/ ApplyInterval \/ RequestReady
  BY <1>4 DEF IntervalReady, ApplyInterval, RequestReady, callVars, localVars,
              auxVars
<1>5. CASE BorrowPending
  BY <1>5 DEF BorrowPending, callVars, auxVars
<1>6. CASE TakeToken
  BY <1>6 DEF TakeToken, Refill, callVars
<1>7. CASE DropRequest
  BY <1>7 DEF DropRequest, Refill, callVars
<1>8. CASE RecordBroadcast
  BY <1>8 DEF RecordBroadcast, callVars, localVars, auxVars
<1>9. CASE SendFrame
  BY <1>9 DEF SendFrame, callVars
<1>10. CASE RecordSerializationError
  BY <1>10 DEF RecordSerializationError, callVars
<1>11. CASE StatsLock \/ StatsLoadRequests \/ StatsReadBroadcasts
  BY <1>11 DEF StatsLock, StatsLoadRequests, StatsReadBroadcasts, StatsStep,
               callVars, localVars, auxVars
<1>12. CASE Tick
  BY <1>12 DEF Tick, callVars, localVars
<1>13. CASE OpenWindow
  BY <1>13 DEF OpenWindow, callVars, localVars
<1>14. CASE UNCHANGED vars
  BY <1>14 DEF vars, callVars, localVars, auxVars
<1>15. QED
  BY <1>1, <1>2, <1>3, <1>4, <1>5, <1>6, <1>7, <1>8, <1>9, <1>10, <1>11,
     <1>12, <1>13, <1>14 DEF Next, LoopStep, Publish

\* The credit a bucket is worth, as the refinement maps it.
Credit == IF tokens >= BucketSize THEN 2 ELSE IF tokens >= Scale THEN 1 ELSE 0

\* More tokens are worth as much credit or more: a refill is Earn or nothing.
LEMMA RefillEarns ==
    ASSUME TypeOK, tokens' \in tokens .. BucketSize,
           UNCHANGED <<request, watched, floor>>
    PROVE  [Throttle!Next]_(Throttle!vars)
<1>1. Credit \in 0 .. 2 /\ Credit' \in Credit .. 2
  BY DEF Credit, TypeOK, BucketSize, Capacity
<1>2. CASE Credit' = Credit
  BY <1>2 DEF Credit, Throttle!vars
<1>3. CASE Credit' # Credit
  <2>1. Credit' \in (Credit + 1) .. Capacity
    BY <1>1, <1>3 DEF Capacity
  <2>2. Throttle!Earn
    BY <2>1 DEF Credit, Throttle!Earn
  <2>3. QED
    BY <2>2 DEF Throttle!Next
<1>4. QED
  BY <1>2, <1>3

LEMMA RefineNext ==
    TypeInv /\ OrderInv /\ [Next]_vars => [Throttle!Next]_(Throttle!vars)
<1> SUFFICES ASSUME TypeInv, OrderInv, [Next]_vars
             PROVE  [Throttle!Next]_(Throttle!vars)
  OBVIOUS
<1> USE DEF TypeInv
<1>s. ASSUME UNCHANGED <<request, watched, floor, tokens>>
      PROVE  [Throttle!Next]_(Throttle!vars)
  BY <1>s DEF Throttle!vars, BucketSize, Capacity
<1>1. ASSUME NEW c \in Callers, CountRequest(c)
      PROVE  [Throttle!Next]_(Throttle!vars)
  BY <1>1, <1>s DEF CountRequest, localVars, auxVars
<1>2. ASSUME NEW c \in Callers, ReplaceRequest(c)
      PROVE  [Throttle!Next]_(Throttle!vars)
  <2>1. Throttle!Request
    BY <1>2 DEF ReplaceRequest, Throttle!Request, localVars, auxVars,
                BucketSize, Capacity
  <2>2. QED
    BY <2>1 DEF Throttle!Next
<1>3. CASE SetBroadcastHz \/ IntervalReady \/ RequestReady \/ BorrowPending
           \/ RecordBroadcast \/ StatsLock \/ StatsLoadRequests
           \/ StatsReadBroadcasts \/ Tick \/ OpenWindow \/ UNCHANGED vars
  BY <1>3, <1>s
     DEF SetBroadcastHz, IntervalReady, RequestReady, BorrowPending,
         RecordBroadcast, StatsLock, StatsLoadRequests, StatsReadBroadcasts,
         StatsStep, Tick, OpenWindow, vars, callVars, localVars, auxVars
<1>4. CASE ApplyInterval
  <2>1. tokens' \in tokens .. BucketSize
    BY <1>4, RefilledTokensBounds DEF ApplyInterval
  <2>2. QED
    BY <1>4, <2>1, RefillEarns DEF ApplyInterval, callVars, auxVars
<1>5. CASE TakeToken
  <2>1. tokens' \in tokens .. BucketSize
    BY <1>5, RefilledTokensBounds DEF TakeToken, Refill
  <2>2. QED
    BY <1>5, <2>1, RefillEarns DEF TakeToken, Refill, callVars
<1>6. CASE DropRequest
  <2>1. tokens' \in tokens .. BucketSize /\ tokens' < Scale
    BY <1>6, RefilledTokensBounds DEF DropRequest, Refill
  <2>2. Credit = 0 /\ Credit' = 0
    BY <2>1 DEF Credit, TypeOK, BucketSize, Capacity
  <2>3. Throttle!Drop
    BY <1>6, <2>2 DEF DropRequest, Refill, Throttle!Drop, Credit, Capacity,
                      callVars
  <2>4. QED
    BY <2>3 DEF Throttle!Next
<1>7. CASE SendFrame
  <2>1. Credit > 0 /\ Credit' = Credit - 1
    BY <1>7 DEF SendFrame, Credit, TokenHeld, TypeOK, BucketSize, Capacity
  <2>2. Throttle!Publish
    BY <1>7, <2>1 DEF SendFrame, Throttle!Publish, Credit, OrderInv, callVars
  <2>3. QED
    BY <2>2 DEF Throttle!Next
<1>8. CASE RecordSerializationError
  <2>1. Credit \in 1 .. 2 /\ Credit' = Credit - 1
    BY <1>8 DEF RecordSerializationError, Credit, TokenHeld, TypeOK,
                BucketSize, Capacity
  <2>2. Credit' \in 0 .. Capacity /\ Credit' >= Credit - 1
    BY <2>1 DEF Capacity
  <2>3. Throttle!Drop
    BY <1>8, <2>2 DEF RecordSerializationError, Throttle!Drop, Credit, callVars
  <2>4. QED
    BY <2>3 DEF Throttle!Next
<1>9. QED
  BY <1>1, <1>2, <1>3, <1>4, <1>5, <1>6, <1>7, <1>8
     DEF Next, LoopStep, Publish

\* The request channel, the token bucket and the frame channel together are a
\* latest-only throttle.
THEOREM Refinement == Spec => ImplementsThrottle
<1>1. Init => OrderInv
  BY DEF Init, OrderInv
<1>2. Init => Throttle!Init
  BY DEF Init, Throttle!Init, BucketSize, Capacity
<1>3. QED
  BY <1>1, <1>2, TypeInvInit, TypeInvNext, OrderInvNext, RefineNext, PTL
     DEF Spec, ImplementsThrottle, Throttle!Spec

-----------------------------------------------------------------------------
(***************************************************************************)
(* The loop as BroadcastLoop sees it.  Steps that leave the two channels,   *)
(* the mutex and the phase of the loop alone stutter.                       *)
(***************************************************************************)
LEMMA LoopNext ==
    TypeInv /\ WakeUpInv /\ [Next]_vars => [Loop!Next]_(Loop!vars)
<1> SUFFICES ASSUME TypeInv, WakeUpInv, [Next]_vars
             PROVE  [Loop!Next]_(Loop!vars)
  OBVIOUS
<1>0. /\ request \in Nat /\ seen \in Nat /\ seen <= request
      /\ loopPc \in {"select", "interval", "borrow", "refill", "record",
                     "send"}
      /\ reader \in [pc : {"idle", "locked", "loaded"}, requests : Nat]
  BY DEF TypeInv, TypeOK, WakeUpInv
<1> DEFINE phase == IF loopPc \in {"borrow", "refill"} THEN "decide" ELSE loopPc
<1>s. ASSUME UNCHANGED <<request, seen, intervalSlot, intervalChanged, loopPc,
                         interval, reader>>
      PROVE  [Loop!Next]_(Loop!vars)
  BY <1>s DEF Loop!vars
<1>1. CASE (\E c \in Callers : CountRequest(c)) \/ Tick \/ OpenWindow
             \/ UNCHANGED vars
  BY <1>1, <1>s DEF CountRequest, Tick, OpenWindow, vars, callVars, setVars,
                    localVars
<1>2. CASE \E c \in Callers : ReplaceRequest(c)
  <2>1. Loop!Request
    BY <1>0, <1>2 DEF ReplaceRequest, Loop!Request, setVars, localVars
  <2>2. QED
    BY <2>1 DEF Loop!Next
<1>3. CASE SetBroadcastHz
  <2>1. Loop!SetBroadcastHz
    BY <1>3 DEF SetBroadcastHz, Loop!SetBroadcastHz, callVars, localVars
  <2>2. QED
    BY <2>1 DEF Loop!Next
<1>4. CASE IntervalReady
  <2>1. Loop!IntervalReady
    BY <1>4 DEF IntervalReady, Loop!IntervalReady, callVars, setVars, localVars
  <2>2. QED
    BY <2>1 DEF Loop!Next, Loop!LoopStep
<1>5. CASE ApplyInterval
  <2>1. Loop!ApplyInterval
    BY <1>5 DEF ApplyInterval, Loop!ApplyInterval, callVars, setVars
  <2>2. QED
    BY <2>1 DEF Loop!Next, Loop!LoopStep
<1>6. CASE RequestReady
  <2>1. Loop!RequestReady
    BY <1>6 DEF RequestReady, Loop!RequestReady, callVars, setVars, localVars
  <2>2. QED
    BY <2>1 DEF Loop!Next, Loop!LoopStep
<1>7. CASE BorrowPending
  <2>1. phase' = phase /\ UNCHANGED <<request, seen, intervalSlot,
                                      intervalChanged, interval, reader>>
    BY <1>7 DEF BorrowPending, callVars, setVars
  <2>2. QED
    BY <2>1 DEF Loop!vars
<1>8. CASE TakeToken \/ DropRequest
  <2>1. phase = "decide" /\ phase' \in {"record", "select"}
        /\ UNCHANGED <<request, seen, intervalSlot, intervalChanged, interval,
                       reader>>
    BY <1>8 DEF TakeToken, DropRequest, Refill, callVars, setVars
  <2>2. Loop!Decide
    BY <2>1 DEF Loop!Decide, Loop!LoopMoves
  <2>3. QED
    BY <2>2 DEF Loop!Next, Loop!LoopStep
<1>9. CASE RecordBroadcast \/ RecordSerializationError
  <2>1. phase = "record" /\ phase' \in {"send", "select"}
        /\ reader.pc = "idle"
        /\ UNCHANGED <<request, seen, intervalSlot, intervalChanged, interval,
                       reader>>
    BY <1>9 DEF RecordBroadcast, RecordSerializationError, callVars, setVars,
                localVars
  <2>2. Loop!Record
    BY <2>1 DEF Loop!Record, Loop!LoopMoves
  <2>3. QED
    BY <2>2 DEF Loop!Next, Loop!LoopStep
<1>10. CASE SendFrame
  <2>1. phase = "send" /\ phase' = "select"
        /\ UNCHANGED <<request, seen, intervalSlot, intervalChanged, interval,
                       reader>>
    BY <1>10 DEF SendFrame, callVars, setVars
  <2>2. Loop!SendFrame
    BY <2>1 DEF Loop!SendFrame, Loop!LoopMoves
  <2>3. QED
    BY <2>2 DEF Loop!Next, Loop!LoopStep
<1>11. CASE StatsLock
  <2>1. Loop!StatsLock
    BY <1>11 DEF StatsLock, StatsStep, Loop!StatsLock, callVars, setVars,
                 localVars
  <2>2. QED
    BY <2>1 DEF Loop!Next
<1>12. CASE StatsLoadRequests
  BY <1>12 DEF StatsLoadRequests, StatsStep, Loop!vars, callVars, setVars,
               localVars
<1>13. CASE StatsReadBroadcasts
  <2>1. Loop!StatsUnlock
    BY <1>13 DEF StatsReadBroadcasts, StatsStep, Loop!StatsUnlock, callVars,
                 setVars, localVars
  <2>2. QED
    BY <2>1 DEF Loop!Next
<1>14. QED
  BY <1>1, <1>2, <1>3, <1>4, <1>5, <1>6, <1>7, <1>8, <1>9, <1>10, <1>11,
     <1>12, <1>13 DEF Next, LoopStep, Publish

\* run_broadcast_loop takes from its channels and waits for the mutex as
\* BroadcastLoop says, whatever the callers, the rates and the clock do.
THEOREM LoopIsImplemented == Spec => ImplementsLoop
<1>1. Init => WakeUpInv
  BY DEF Init, WakeUpInv
<1>2. Init => Loop!Init
  BY DEF Init, Loop!Init
<1>3. QED
  BY <1>1, <1>2, TypeInvInit, TypeInvNext, WakeUpInvNext, LoopNext, PTL
     DEF Spec, ImplementsLoop, Loop!Spec
=============================================================================
