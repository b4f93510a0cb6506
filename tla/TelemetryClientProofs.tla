------------------------ MODULE TelemetryClientProofs ------------------------
(***************************************************************************)
(* Proofs about TelemetryClient, for any number of sockets on their way     *)
(* out.                                                                     *)
(***************************************************************************)
EXTENDS TelemetryClient, TLAPS

USE SocketsAssumption

\* The properties hold each other up: that there is one live socket needs that
\* a timer runs only when there is none, which needs that a stopped client has
\* neither.
ClientInv == TypeOK /\ OneConnection /\ NeverAbandoned /\ StatusTellsTruth

\* A new socket where there was none.
LEMMA ConnectKeeps ==
    ASSUME ClientInv, socket = NoSocket, Connect, shouldReconnect' = TRUE,
           timer' = "none", UNCHANGED <<hasLatest, network>>,
           fetching' \in BOOLEAN
    PROVE  ClientInv'
<1>1. PICK s \in Sockets :
        /\ ready[s] = "closed"
        /\ ready' = [ready EXCEPT ![s] = "connecting"]
        /\ socket' = s
        /\ status' \in {"reconnecting", "connecting"}
  BY DEF Connect
<1>2. TypeOK'
  BY <1>1 DEF ClientInv, TypeOK, Statuses
<1>3. \A a \in Sockets : ~Live(a)
  BY DEF ClientInv, OneConnection
<1>4. ready'[s] = "connecting" /\ \A a \in Sockets \ {s} : ready'[a] = ready[a]
  BY <1>1 DEF ClientInv, TypeOK
<1>5. OneConnection'
  BY <1>1, <1>3, <1>4 DEF OneConnection, Live
<1>6. NeverAbandoned' /\ StatusTellsTruth'
  BY <1>1, <1>4 DEF NeverAbandoned, StatusTellsTruth, Live
<1>7. QED
  BY <1>2, <1>5, <1>6 DEF ClientInv

\* A socket that is closed, the client's own or an old one.
LEMMA ClosedKeeps ==
    ASSUME ClientInv, NEW s \in Sockets, ready[s] # "closed", Closed(s)
    PROVE  ClientInv'
<1> USE DEF ClientInv
<1>1. /\ UNCHANGED <<shouldReconnect, hasLatest, fetching, network>>
      /\ ready' = [ready EXCEPT ![s] = "closed"]
  BY DEF Closed
<1>2. /\ ready' \in [Sockets -> {"closed", "connecting", "open", "closing"}]
      /\ ready'[s] = "closed"
      /\ \A a \in Sockets \ {s} : ready'[a] = ready[a]
  BY <1>1 DEF TypeOK
<1>3. CASE socket = s
  <2>1. shouldReconnect /\ timer = "none"
    BY <1>3 DEF TypeOK, NeverAbandoned
  <2>2. socket' = NoSocket /\ timer' = "set" /\ status' = "reconnecting"
    BY <1>3, <2>1 DEF Closed, ScheduleReconnect
  <2>3. TypeOK'
    BY <1>1, <1>2, <2>1, <2>2 DEF TypeOK, Statuses
  <2>4. OneConnection' /\ NeverAbandoned' /\ StatusTellsTruth'
    BY <1>2, <1>3, <2>2
       DEF OneConnection, NeverAbandoned, StatusTellsTruth, Live
  <2>5. QED
    BY <2>3, <2>4
<1>4. CASE socket # s
  <2>1. UNCHANGED <<socket, timer, status>>
    BY <1>4 DEF Closed
  <2>2. TypeOK'
    BY <1>1, <1>2, <2>1 DEF TypeOK
  <2>3. OneConnection' /\ NeverAbandoned' /\ StatusTellsTruth'
    BY <1>1, <1>2, <1>4, <2>1
       DEF TypeOK, OneConnection, NeverAbandoned, StatusTellsTruth, Live
  <2>4. QED
    BY <2>2, <2>3
<1>5. QED
  BY <1>3, <1>4

LEMMA OpenKeeps ==
    ASSUME ClientInv, NEW s \in Sockets, OpenEvent(s)
    PROVE  ClientInv'
<1> USE DEF ClientInv
<1>1. socket = s
  BY DEF OpenEvent, OneConnection, Live
<1>2. /\ UNCHANGED <<shouldReconnect, socket, timer, hasLatest, fetching, network>>
      /\ status' = "connected"
      /\ ready' \in [Sockets -> {"closed", "connecting", "open", "closing"}]
      /\ ready'[s] = "open"
      /\ \A a \in Sockets \ {s} : ready'[a] = ready[a]
  BY <1>1 DEF OpenEvent, TypeOK
<1>3. TypeOK'
  BY <1>2 DEF TypeOK, Statuses
<1>4. OneConnection' /\ NeverAbandoned' /\ StatusTellsTruth'
  BY <1>1, <1>2 DEF OneConnection, NeverAbandoned, StatusTellsTruth, Live
<1>5. QED
  BY <1>3, <1>4

LEMMA StopKeeps == ASSUME ClientInv, Stop PROVE ClientInv'
<1> USE DEF ClientInv
<1>1. /\ shouldReconnect' = FALSE /\ timer' = "none" /\ socket' = NoSocket
      /\ status' = "disconnected"
      /\ UNCHANGED <<hasLatest, fetching, network>>
      /\ ready' \in [Sockets -> {"closed", "connecting", "open", "closing"}]
  BY DEF Stop, CloseSocket, TypeOK
<1>2. TypeOK'
  BY <1>1 DEF TypeOK, Statuses
<1>3. \A s \in Sockets : ready'[s] = IF socket = s THEN "closing" ELSE ready[s]
  BY DEF Stop, CloseSocket, TypeOK
<1>4. OneConnection'
  BY <1>3 DEF OneConnection, Live
<1>5. QED
  BY <1>1, <1>2, <1>4 DEF NeverAbandoned, StatusTellsTruth

LEMMA ClientInvNext == ClientInv /\ [Next]_vars => ClientInv'
<1> SUFFICES ASSUME ClientInv, [Next]_vars PROVE ClientInv'
  OBVIOUS
<1> USE DEF ClientInv
<1>1. CASE UNCHANGED vars
  BY <1>1
     DEF vars, TypeOK, OneConnection, NeverAbandoned, StatusTellsTruth, Live
<1>2. CASE Start
  <2>1. socket = NoSocket /\ timer = "none"
    BY <1>2 DEF Start, TypeOK
  <2>2. QED
    BY <1>2, <2>1, ConnectKeeps DEF Start
<1>3. CASE Stop
  BY <1>3, StopKeeps
<1>4. CASE TimerFires
  <2>1. shouldReconnect /\ socket = NoSocket
    BY <1>4 DEF TimerFires, TypeOK, NeverAbandoned
  <2>2. shouldReconnect' = TRUE /\ timer' = "none" /\ Connect
        /\ UNCHANGED <<hasLatest, fetching, network>>
    BY <1>4, <2>1 DEF TimerFires, TypeOK
  <2>3. fetching' \in BOOLEAN
    BY <2>2 DEF TypeOK
  <2>4. QED
    BY <2>1, <2>2, <2>3, ConnectKeeps
<1>5. CASE \/ FetchEnds \/ NetworkChanges \/ \E s \in Sockets : MessageEvent(s)
  <2>1. /\ UNCHANGED <<shouldReconnect, socket, ready, timer, status>>
        /\ hasLatest' \in BOOLEAN /\ fetching' \in BOOLEAN
        /\ network' \in BOOLEAN
    BY <1>5 DEF FetchEnds, NetworkChanges, MessageEvent, TypeOK
  <2>2. QED
    BY <2>1 DEF TypeOK, OneConnection, NeverAbandoned, StatusTellsTruth, Live
<1>6. ASSUME NEW s \in Sockets, OpenEvent(s) PROVE ClientInv'
  BY <1>6, OpenKeeps
<1>7. ASSUME NEW s \in Sockets,
             CloseCompletes(s) \/ ConnectionFails(s) \/ ServerCloses(s)
      PROVE  ClientInv'
  BY <1>7, ClosedKeeps DEF CloseCompletes, ConnectionFails, ServerCloses
<1>8. QED
  BY <1>1, <1>2, <1>3, <1>4, <1>5, <1>6, <1>7 DEF Next, SocketEvent

LEMMA ClientInvAlways == Spec => []ClientInv
<1>1. Init => ClientInv
  BY DEF Init, ClientInv, TypeOK, OneConnection, NeverAbandoned,
         StatusTellsTruth, Live, Statuses
<1>2. QED
  BY <1>1, ClientInvNext, PTL DEF Spec

\* The client's fields keep their types, and a stopped client has no socket and
\* no timer.
THEOREM TypeCorrect == Spec => []TypeOK
<1>1. ClientInv => TypeOK
  BY DEF ClientInv
<1>2. QED
  BY <1>1, ClientInvAlways, PTL

\* A page never keeps two connections to the server.
THEOREM ConnectionsAreSingle == Spec => []OneConnection
<1>1. ClientInv => OneConnection
  BY DEF ClientInv
<1>2. QED
  BY <1>1, ClientInvAlways, PTL

\* A mounted client always has something under way that will connect it.
THEOREM ClientsKeepTrying == Spec => []NeverAbandoned
<1>1. ClientInv => NeverAbandoned
  BY DEF ClientInv
<1>2. QED
  BY <1>1, ClientInvAlways, PTL

\* The status shown is that of the socket in use.
THEOREM StatusIsTrue == Spec => []StatusTellsTruth
<1>1. ClientInv => StatusTellsTruth
  BY DEF ClientInv
<1>2. QED
  BY <1>1, ClientInvAlways, PTL
=============================================================================
