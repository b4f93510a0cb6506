----------------------- MODULE TelemetryDeliveryProofs -----------------------
(***************************************************************************)
(* Proofs about TelemetryDelivery, for any clients, tasks and capacity, and *)
(* any number of updates and requests.                                      *)
(***************************************************************************)
EXTENDS TelemetryDelivery, TLAPS

USE SourcesAssumption, BoundsAssumption

-----------------------------------------------------------------------------
(***************************************************************************)
(* Typing                                                                   *)
(***************************************************************************)

SourceOK ==
    /\ stored \in Nat
    /\ carried \in [Sources -> 0 .. stored]
    /\ requests \in Seq(1 .. stored)

ChannelOK ==
    /\ published \in 0 .. Len(requests)
    /\ floor \in published .. Len(requests)
    /\ credit \in 0 .. Capacity

HandlerOK ==
    /\ pc \in [Clients -> Points]
    /\ unseen \in [Clients -> BOOLEAN]
    /\ \A c \in Clients : unseen[c] => pc[c] # "closed"
    /\ hand \in [Clients -> 0 .. stored]
    /\ frame \in [Clients -> 0 .. Len(requests)]
    /\ sent \in [Clients -> 0 .. stored]
    /\ last \in [Clients -> 0 .. Len(requests)]

LEMMA TypeParts == TypeOK <=> SourceOK /\ ChannelOK /\ HandlerOK
  BY DEF TypeOK, SourceOK, ChannelOK, HandlerOK

\* What is in the channel is stored.
LEMMA PublishedIsStored ==
    ASSUME TypeOK
    PROVE  /\ Len(requests) \in Nat
           /\ SnapshotOf(published) \in 0 .. stored
  BY DEF TypeOK, SnapshotOf

\* The tasks only add to the store and to the requests.
LEMMA SourceStepAdds ==
    ASSUME TypeOK, SourceStep
    PROVE  /\ SourceOK'
           /\ stored' >= stored
           /\ Len(requests') >= Len(requests)
           /\ \A n \in 1 .. Len(requests) : requests'[n] = requests[n]
           /\ UNCHANGED <<channel, handler>>
<1> DEFINE Adds == /\ SourceOK'
                   /\ stored' >= stored
                   /\ Len(requests') >= Len(requests)
                   /\ \A n \in 1 .. Len(requests) : requests'[n] = requests[n]
                   /\ UNCHANGED <<channel, handler>>
<1>0. stored \in Nat /\ requests \in Seq(1 .. stored) /\ Len(requests) \in Nat
  BY DEF TypeOK
<1>1. ASSUME NEW s \in Writers, Update(s) PROVE Adds
  <2>1. stored' = stored + 1 /\ UNCHANGED <<requests, channel, handler>>
    BY <1>1 DEF Update
  <2>2. carried' \in [Sources -> 0 .. stored']
    BY <1>1 DEF Update, Sources, TypeOK
  <2>3. requests' \in Seq(1 .. stored')
    BY <1>0, <2>1
  <2>4. QED
    BY <1>0, <2>1, <2>2, <2>3 DEF SourceOK
<1>2. ASSUME NEW s \in Repeaters, Reread(s) PROVE Adds
  <2>1. UNCHANGED <<stored, requests, channel, handler>>
    BY <1>2 DEF Reread
  <2>2. carried' \in [Sources -> 0 .. stored]
    BY <1>2 DEF Reread, Sources, TypeOK
  <2>3. QED
    BY <1>0, <2>1, <2>2 DEF SourceOK
<1>3. ASSUME NEW s \in Sources, RequestBroadcast(s) PROVE Adds
  <2>1. carried[s] \in 1 .. stored
    BY <1>3 DEF RequestBroadcast, TypeOK
  <2>2. /\ requests' = Append(requests, carried[s])
        /\ carried' = [carried EXCEPT ![s] = 0]
        /\ UNCHANGED <<stored, channel, handler>>
    BY <1>3 DEF RequestBroadcast, Throttle!Request, channel
  <2>3. requests' \in Seq(1 .. stored)
    BY <1>0, <2>1, <2>2
  <2>4. /\ Len(requests') = Len(requests) + 1
        /\ \A n \in 1 .. Len(requests) : requests'[n] = requests[n]
    BY <1>0, <2>1, <2>2
  <2>5. carried' \in [Sources -> 0 .. stored]
    BY <1>0, <2>2 DEF TypeOK
  <2>6. QED
    BY <1>0, <2>2, <2>3, <2>4, <2>5 DEF SourceOK
<1>4. QED
  BY <1>1, <1>2, <1>3 DEF SourceStep

\* The throttle never goes back.
LEMMA ThrottleStepForward ==
    ASSUME TypeOK, Earn \/ Drop \/ Publish
    PROVE  /\ ChannelOK'
           /\ published' >= published
           /\ UNCHANGED <<source, pc, hand, frame, sent, last>>
           /\ \/ published' = published /\ unseen' = unseen
              \/ NotifyReceivers
<1>1. CASE Earn
  BY <1>1 DEF Earn, Throttle!Earn, TypeOK, ChannelOK, source, handler
<1>2. CASE Drop
  BY <1>2 DEF Drop, Throttle!Drop, TypeOK, ChannelOK, source, handler
<1>3. CASE Publish
  BY <1>3 DEF Publish, Throttle!Publish, TypeOK, ChannelOK, source
<1>4. QED
  BY <1>1, <1>2, <1>3

ClientsStep == \E c \in Clients : HandlerStep(c) \/ ClientStep(c)

LEMMA ClientsStepType == TypeOK /\ ClientsStep => HandlerOK' /\ UNCHANGED <<source, channel>>
<1> SUFFICES ASSUME TypeOK, NEW c \in Clients, HandlerStep(c) \/ ClientStep(c)
             PROVE  HandlerOK' /\ UNCHANGED <<source, channel>>
  BY DEF ClientsStep
<1>1. SnapshotOf(published) \in 0 .. stored /\ Len(requests) \in Nat
  BY PublishedIsStored
<1> USE DEF TypeOK, HandlerOK, Points, source, channel
<1>2. CASE Subscribe(c)
  <2>1. /\ UNCHANGED <<source, channel, hand, frame, sent>>
        /\ pc' = [pc EXCEPT ![c] = "upgrade"]
        /\ unseen' = [unseen EXCEPT ![c] = FALSE]
        /\ last' = [last EXCEPT ![c] = 0]
    BY <1>2 DEF Subscribe
  <2>2. pc' \in [Clients -> Points] /\ unseen' \in [Clients -> BOOLEAN]
    BY <2>1
  <2>3. last' \in [Clients -> 0 .. Len(requests)]
    BY <1>1, <2>1
  <2>4. \A a \in Clients : unseen'[a] => pc'[a] # "closed"
    BY <2>1
  <2>5. QED
    BY <2>1, <2>2, <2>3, <2>4
<1>3. CASE UpgradeFails(c) \/ SendFails(c) \/ SendTimesOut(c)
  BY <1>3 DEF UpgradeFails, SendFails, SendTimesOut, Close
<1>4. CASE UpgradeSucceeds(c) \/ NothingToGreetWith(c) \/ Changed(c)
  BY <1>4 DEF UpgradeSucceeds, NothingToGreetWith, Changed
<1>5. CASE Greet(c)
  BY <1>1, <1>5 DEF Greet, Send
<1>6. CASE Borrow(c)
  BY <1>1, <1>6 DEF Borrow, Send
<1>7. CASE SendSucceeds(c)
  BY <1>7 DEF SendSucceeds
<1>8. QED
  BY <1>2, <1>3, <1>4, <1>5, <1>6, <1>7 DEF HandlerStep, ClientStep

LEMMA TypeOKNext == TypeOK /\ [Next]_vars => TypeOK'
<1> SUFFICES ASSUME TypeOK, [Next]_vars PROVE TypeOK'
  OBVIOUS
<1>1. CASE UNCHANGED vars
  BY <1>1 DEF vars, source, channel, handler, TypeOK
<1>2. CASE SourceStep
  <2>1. stored' >= stored /\ Len(requests') >= Len(requests)
        /\ SourceOK' /\ UNCHANGED <<channel, handler>>
    BY <1>2, SourceStepAdds
  <2>2. Len(requests) \in Nat /\ Len(requests') \in Nat
    BY <2>1 DEF TypeOK, SourceOK
  <2>3. 0 .. stored \subseteq 0 .. stored' /\ 0 .. Len(requests) \subseteq 0 .. Len(requests')
    BY <2>1, <2>2 DEF TypeOK, SourceOK
  <2>4. HandlerOK'
    BY <2>1, <2>3 DEF TypeOK, HandlerOK, handler
  <2>5. ChannelOK'
    BY <2>1, <2>2 DEF TypeOK, ChannelOK, channel
  <2>6. QED
    BY <2>1, <2>4, <2>5, TypeParts DEF TypeOK, SourceOK, ChannelOK, HandlerOK
<1>3. CASE Earn \/ Drop \/ Publish
  BY <1>3, ThrottleStepForward
     DEF TypeOK, ChannelOK, NotifyReceivers, source
<1>4. CASE ClientsStep
  BY <1>4, ClientsStepType DEF TypeOK, HandlerOK, source, channel
<1>5. QED
  BY <1>1, <1>2, <1>3, <1>4 DEF Next, ClientsStep

\* Every snapshot requested, published or sent is one that was stored.
THEOREM TypeCorrect == Spec => []TypeOK
<1>1. Init => TypeOK
  BY DEF Init, Throttle!Init, TypeOK, Points
<1>2. QED
  BY <1>1, TypeOKNext, PTL DEF Spec

-----------------------------------------------------------------------------
(***************************************************************************)
(* What a client has, and what it gets next                                 *)
(***************************************************************************)

\* A handler whose receiver has seen the channel has sent, or is sending,
\* nothing older than what the channel holds.
ServedInv ==
    \A c \in Clients : ~unseen[c] =>
        /\ pc[c] = "wait" => sent[c] >= SnapshotOf(published)
        /\ pc[c] \in {"greet", "send"} => hand[c] >= SnapshotOf(published)

LEMMA ServedInvNext == TypeOK /\ ServedInv /\ [Next]_vars => ServedInv'
<1> SUFFICES ASSUME TypeOK, ServedInv, [Next]_vars PROVE ServedInv'
  OBVIOUS
<1>1. SnapshotOf(published) \in 0 .. stored
  BY PublishedIsStored
<1>2. CASE UNCHANGED vars
  BY <1>2 DEF vars, source, channel, handler, ServedInv, SnapshotOf
<1>3. CASE SourceStep
  <2>1. SnapshotOf(published)' = SnapshotOf(published)
    BY <1>3, SourceStepAdds DEF SnapshotOf, TypeOK, channel
  <2>2. QED
    BY <1>3, <2>1, SourceStepAdds DEF ServedInv, handler
<1>4. CASE Earn \/ Drop \/ Publish
  <2>1. CASE published' = published /\ unseen' = unseen
    BY <1>4, <2>1, ThrottleStepForward DEF ServedInv, SnapshotOf, source
  <2>2. CASE NotifyReceivers
    BY <1>4, <2>2, ThrottleStepForward DEF ServedInv, NotifyReceivers
  <2>3. QED
    BY <1>4, <2>1, <2>2, ThrottleStepForward
<1>5. ASSUME NEW c \in Clients, HandlerStep(c) \/ ClientStep(c)
      PROVE  ServedInv'
  <2>1. SnapshotOf(published)' = SnapshotOf(published)
    BY <1>5, ClientsStepType DEF ClientsStep, SnapshotOf, source, channel
  <2> USE <2>1 DEF TypeOK, ServedInv
  <2>2. CASE Subscribe(c) \/ UpgradeSucceeds(c) \/ Changed(c)
    BY <2>2 DEF Subscribe, UpgradeSucceeds, Changed
  <2>3. CASE UpgradeFails(c) \/ SendFails(c) \/ SendTimesOut(c)
    BY <2>3 DEF UpgradeFails, SendFails, SendTimesOut, Close
  <2>4. CASE NothingToGreetWith(c) \/ Greet(c)
    BY <1>1, <2>4 DEF NothingToGreetWith, Greet, Send
  <2>5. CASE Borrow(c)
    BY <1>1, <2>5 DEF Borrow, Send
  <2>6. CASE SendSucceeds(c)
    BY <2>6 DEF SendSucceeds, Sending
  <2>7. QED
    BY <1>5, <2>2, <2>3, <2>4, <2>5, <2>6 DEF HandlerStep, ClientStep
<1>6. QED
  BY <1>2, <1>3, <1>4, <1>5 DEF Next

\* No frame is lost between the subscription and the greeting, or between two
\* frames.
THEOREM ClientsAreServed == Spec => []WaitingClientIsServed
<1>1. Init => ServedInv
  BY DEF Init, ServedInv
<1>2. ServedInv => WaitingClientIsServed
  BY DEF ServedInv, WaitingClientIsServed
<1>3. QED
  BY <1>1, <1>2, TypeCorrect, TypeOKNext, ServedInvNext, PTL DEF Spec

\* What a handler has forwarded is not ahead of the channel.
BehindInv == \A c \in Clients : frame[c] <= published /\ last[c] <= published

LEMMA BehindInvNext == TypeOK /\ BehindInv /\ [Next]_vars => BehindInv'
<1> SUFFICES ASSUME TypeOK, BehindInv, [Next]_vars PROVE BehindInv'
  OBVIOUS
<1> USE DEF BehindInv
<1>1. CASE UNCHANGED vars
  BY <1>1 DEF vars, channel, handler
<1>2. CASE SourceStep
  BY <1>2, SourceStepAdds DEF handler, channel
<1>3. CASE Earn \/ Drop \/ Publish
  BY <1>3, ThrottleStepForward DEF TypeOK, ChannelOK, source
<1>4. ASSUME NEW c \in Clients, HandlerStep(c) \/ ClientStep(c)
      PROVE  BehindInv'
  <2> USE DEF TypeOK, channel
  <2>1. published \in Nat
    BY PublishedIsStored
  <2>2. CASE Subscribe(c)
    BY <2>1, <2>2 DEF Subscribe
  <2>3. CASE UpgradeSucceeds(c) \/ NothingToGreetWith(c) \/ Changed(c)
    BY <2>3 DEF UpgradeSucceeds, NothingToGreetWith, Changed
  <2>4. CASE UpgradeFails(c) \/ SendFails(c) \/ SendTimesOut(c)
    BY <2>4 DEF UpgradeFails, SendFails, SendTimesOut, Close
  <2>5. CASE Greet(c)
    BY <2>1, <2>5 DEF Greet, Send
  <2>6. CASE Borrow(c)
    BY <2>1, <2>6 DEF Borrow, Send
  <2>7. CASE SendSucceeds(c)
    BY <2>7 DEF SendSucceeds
  <2>8. QED
    BY <1>4, <2>2, <2>3, <2>4, <2>5, <2>6, <2>7 DEF HandlerStep, ClientStep
<1>5. QED
  BY <1>1, <1>2, <1>3, <1>4 DEF Next

\* On one connection frames are forwarded in the order of their requests.
THEOREM FramesForward == Spec => FramesMoveForward
<1>1. Init => BehindInv
  <2> SUFFICES ASSUME Init, NEW c \in Clients
               PROVE  frame[c] <= published /\ last[c] <= published
    BY DEF BehindInv
  <2>1. published = 0 /\ frame[c] = 0 /\ last[c] = 0
    BY DEF Init, Throttle!Init
  <2>2. QED
    BY <2>1
<1>2. TypeOK /\ BehindInv =>
        [\A c \in Clients : Borrow(c) => frame'[c] >= last[c]]_vars
  BY DEF TypeOK, BehindInv, Borrow, Send
<1>3. QED
  BY <1>1, <1>2, TypeCorrect, TypeOKNext, BehindInvNext, PTL
     DEF Spec, FramesMoveForward

\* A new connection starts from the newest snapshot there is.
THEOREM ReconnectForward == Spec => ReconnectResumesForward
<1>1. TypeOK => [\A c \in Clients : Greet(c) => hand'[c] >= sent[c]]_vars
  BY DEF TypeOK, Greet, Send
<1>2. QED
  BY <1>1, TypeCorrect, PTL DEF ReconnectResumesForward
=============================================================================
