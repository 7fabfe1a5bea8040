---------------------- MODULE WebSocketConnectionProofs ----------------------
(***************************************************************************)
(* What WebSocketConnection guarantees for any number of networks, sockets *)
(* and reconnect attempts.                                                 *)
(*                                                                         *)
(* The two safety invariants are inductive together with the type          *)
(* invariant: each action that takes a network's last witness away (a      *)
(* socket, a counted call, a timer, a close event) leaves another one or   *)
(* an excuse, and a socket that exists while the client is inactive is     *)
(* listed by the pending #closeAllConnections or was opened too late.      *)
(***************************************************************************)
EXTENDS WebSocketConnection, TLAPS

IInv == TypeOK /\ AttendedUnlessExcused /\ InactiveLeavesOnlyStragglers

USE AttemptsAssumption, BoundsAssumption

\* At first there is no socket, no event and no call.
LEMMA InitInvariant == Init => IInv
<1> SUFFICES ASSUME Init PROVE IInv
  OBVIOUS
<1>1. TypeOK
  BY DEF Init, TypeOK, Zero
<1>2. AttendedUnlessExcused
  BY DEF Init, AttendedUnlessExcused, Attended
<1>3. InactiveLeavesOnlyStragglers
  BY DEF Init, InactiveLeavesOnlyStragglers
<1> QED
  BY <1>1, <1>2, <1>3 DEF IInv

\* A socket is a record with a status and a network, or no socket.
LEMMA ListedSocket ==
  ASSUME TypeOK, NEW id \in Listed
  PROVE  /\ id \in SocketIds
         /\ socket[id] \in Sockets
         /\ socket[id].network \in Networks
BY DEF TypeOK, Listed, Sockets

(***************************************************************************)
(* Type correctness, one lemma per group of actions.                       *)
(***************************************************************************)
LEMMA ServiceTypes ==
  ASSUME TypeOK
  PROVE  /\ SetupConnections => TypeOK'
         /\ ListSockets => TypeOK'
         /\ \A n \in Networks :
              (CheckExisting(n) \/ RefuseSocket(n) \/ TimerFires(n)) => TypeOK'
<1>1. ASSUME SetupConnections PROVE TypeOK'
  BY <1>1 DEF TypeOK, SetupConnections, OpenConnectionsForActiveNetworks,
     CloseAllConnections, Zero, host, budget, history
<1>2. ASSUME ListSockets PROVE TypeOK'
  BY <1>2 DEF TypeOK, ListSockets, Listed, host, budget, history
<1>3. ASSUME NEW n \in Networks, CheckExisting(n) PROVE TypeOK'
  BY <1>3 DEF TypeOK, CheckExisting, host, budget, history
<1>4. ASSUME NEW n \in Networks, RefuseSocket(n) PROVE TypeOK'
  BY <1>4 DEF TypeOK, RefuseSocket, host, budget, history
<1>5. ASSUME NEW n \in Networks, TimerFires(n) PROVE TypeOK'
  BY <1>5 DEF TypeOK, TimerFires, host, budget, history
<1> QED
  BY <1>1, <1>2, <1>3, <1>4, <1>5

\* The events of the client and of the timers keep the types.
LEMMA EventTypes ==
  ASSUME TypeOK
  PROVE  /\ \A n \in Networks :
              (HandleDisconnected(n) \/ HandleCleanClose(n)) => TypeOK'
         /\ \A id \in SocketIds : HandleConnected(id) => TypeOK'
<1>1. ASSUME NEW n \in Networks, HandleDisconnected(n) PROVE TypeOK'
  <2>1. closed' \in [Networks -> [CloseKinds -> Nat]]
    BY <1>1 DEF TypeOK, HandleDisconnected, CloseKinds
  <2>3. retryAttempts[n] + 1 \in Nat /\ timers[n] + 1 \in Nat
    BY DEF TypeOK
  <2>4. Excuse(n, {"gaveUp"}) => excuse' \in [Networks -> SUBSET Excuses]
    BY DEF TypeOK, Excuse, Excuses
  <2>2. /\ retryAttempts' \in [Networks -> Nat]
        /\ timers' \in [Networks -> Nat]
        /\ excuse' \in [Networks -> SUBSET Excuses]
    BY <1>1, <2>3, <2>4
    DEF TypeOK, HandleDisconnected, AttemptReconnect
  <2> QED
    BY <1>1, <2>1, <2>2 DEF TypeOK, HandleDisconnected, budget
<1>2. ASSUME NEW n \in Networks, HandleCleanClose(n) PROVE TypeOK'
  <2>1. closed' \in [Networks -> [CloseKinds -> Nat]]
    BY <1>2 DEF TypeOK, HandleCleanClose, CloseKinds
  <2> QED
    BY <1>2, <2>1 DEF TypeOK, HandleCleanClose, service, budget, history
<1>3. ASSUME NEW id \in SocketIds, HandleConnected(id) PROVE TypeOK'
  <2>1. CASE id \in Listed
    <3>1. socket[id].network \in Networks
      BY <2>1, ListedSocket
    <3>2. /\ retryAttempts' \in [Networks -> Nat]
          /\ recovered' \subseteq SocketIds
      BY <1>3, <2>1, <3>1 DEF TypeOK, HandleConnected
    <3> QED
      BY <1>3, <3>2 DEF TypeOK, HandleConnected, budget
  <2>2. CASE id \notin Listed
    BY <1>3, <2>2 DEF TypeOK, HandleConnected, budget
  <2> QED
    BY <2>1, <2>2
<1> QED
  BY <1>1, <1>2, <1>3

\* So do the sockets and the client that serves them.
LEMMA SocketTypes ==
  ASSUME TypeOK
  PROVE  /\ \A n \in Networks : OpenSocket(n) => TypeOK'
         /\ \A id \in SocketIds :
              (CloseSocket(id) \/ CloseMissingSocket(id) \/ Connects(id)
               \/ Fails(id)) => TypeOK'
<1>1. ASSUME NEW n \in Networks, OpenSocket(n) PROVE TypeOK'
  <2>1. [status |-> "connecting", network |-> n] \in Sockets
    BY DEF Sockets
  <2>2. /\ socket' \in [SocketIds -> Sockets \cup {NoSocket}]
        /\ recovered' \subseteq SocketIds
        /\ straggler' \subseteq SocketIds
    BY <1>1, <2>1 DEF TypeOK, OpenSocket
  <2> QED
    BY <1>1, <2>2 DEF TypeOK, OpenSocket, budget
<1>2. ASSUME NEW id \in Listed, NEW c \in CloseKinds, Drop(id, c)
      PROVE  /\ socket' \in [SocketIds -> Sockets \cup {NoSocket}]
             /\ closed' \in [Networks -> [CloseKinds -> Nat]]
  <2>1. socket[id].network \in Networks
    BY ListedSocket
  <2> DEFINE m == socket[id].network
  <2>2. closed[m][c] + 1 \in Nat
    BY <2>1 DEF TypeOK
  <2>3. closed' = [closed EXCEPT ![m][c] = closed[m][c] + 1]
    BY <1>2 DEF Drop
  <2>4. closed \in [Networks -> [CloseKinds -> Nat]]
    BY DEF TypeOK
  <2> HIDE DEF m
  <2>5. closed' \in [Networks -> [CloseKinds -> Nat]]
    BY <2>1, <2>2, <2>3, <2>4 DEF m
  <2>6. socket' \in [SocketIds -> Sockets \cup {NoSocket}]
    BY <1>2 DEF TypeOK, Drop
  <2> QED
    BY <2>5, <2>6
<1>3. ASSUME NEW id \in SocketIds, CloseSocket(id) PROVE TypeOK'
  <2>1. id \in Listed /\ socket[id].network \in Networks
    BY <1>3, ListedSocket DEF CloseSocket
  <2>2. PICK c \in CloseKinds :
          /\ Drop(id, c)
          /\ Excuse(socket[id].network,
                    IF active /\ c = "clean" THEN {"closedLate"} ELSE {})
    BY <1>3 DEF CloseSocket, CloseKinds
  <2>3. excuse' \in [Networks -> SUBSET Excuses]
    BY <2>1, <2>2 DEF TypeOK, Excuse, Excuses
  <2> QED
    BY <1>2, <1>3, <2>1, <2>2, <2>3 DEF TypeOK, CloseSocket, budget
<1>4. ASSUME NEW id \in SocketIds, CloseMissingSocket(id) PROVE TypeOK'
  BY <1>4 DEF TypeOK, CloseMissingSocket, host, budget, history
<1>5. ASSUME NEW id \in SocketIds, Connects(id) PROVE TypeOK'
  <2>1. [status |-> "open", network |-> socket[id].network] \in Sockets
    BY <1>5, ListedSocket DEF Connects, Sockets
  <2>2. socket' \in [SocketIds -> Sockets \cup {NoSocket}]
    BY <1>5, <2>1 DEF TypeOK, Connects
  <2> QED
    BY <1>5, <2>2 DEF TypeOK, Connects, service, budget, history
<1>6. ASSUME NEW id \in SocketIds, Fails(id) PROVE TypeOK'
  <2>1. id \in Listed /\ socket[id].network \in Networks
    BY <1>6, ListedSocket DEF Fails
  <2>2. PICK c \in CloseKinds :
          /\ Drop(id, c)
          /\ Excuse(socket[id].network,
                    IF c = "clean" THEN {"serverClosed"} ELSE {})
    BY <1>6 DEF Fails, CloseKinds
  <2>3. excuse' \in [Networks -> SUBSET Excuses]
    BY <2>1, <2>2 DEF TypeOK, Excuse, Excuses
  <2>4. failures' \in 0..MaxFailures
    BY <1>6 DEF TypeOK, Fails
  <2> QED
    BY <1>2, <1>6, <2>1, <2>2, <2>3, <2>4 DEF TypeOK, Fails, service
<1> QED
  BY <1>1, <1>3, <1>4, <1>5, <1>6

\* So do the client's activity, restarts and losses.
LEMMA ClientTypes ==
  ASSUME TypeOK
  PROVE  (BecomeActive \/ BecomeInactive \/ Restart) => TypeOK'
<1>1. ASSUME BecomeActive PROVE TypeOK'
  <2>1. switches' \in 0..MaxSwitches
    BY <1>1 DEF TypeOK, BecomeActive
  <2> QED
    BY <1>1, <2>1 DEF TypeOK, BecomeActive, OpenConnectionsForActiveNetworks, Zero,
       history
<1>2. ASSUME BecomeInactive PROVE TypeOK'
  <2>1. switches' \in 0..MaxSwitches
    BY <1>2 DEF TypeOK, BecomeInactive
  <2>2. active' \in BOOLEAN
    BY <1>2 DEF BecomeInactive
  <2>3. lists \in Nat /\ lists' = lists + 1
    BY <1>2 DEF TypeOK, BecomeInactive, CloseAllConnections
  <2> QED
    BY <1>2, <2>1, <2>2, <2>3
    DEF TypeOK, BecomeInactive, CloseAllConnections, history
<1>3. ASSUME Restart PROVE TypeOK'
  BY <1>3 DEF TypeOK, Restart, Zero
<1> QED
  BY <1>1, <1>2, <1>3

\* Every step keeps the types: one case per group of actions.
LEMMA NextTypes == TypeOK /\ [Next]_vars => TypeOK'
<1>1. ASSUME TypeOK, UNCHANGED vars PROVE TypeOK'
  BY <1>1 DEF TypeOK, vars, host, service, budget, history
<1> QED
  BY <1>1, ServiceTypes, EventTypes, SocketTypes, ClientTypes DEF Next

(***************************************************************************)
(* AttendedUnlessExcused.                                                  *)
(***************************************************************************)

\* Which sockets a network has depends on the host's table only.
LEMMA SameTable ==
  ASSUME UNCHANGED socket
  PROVE  Listed' = Listed /\ \A n \in Networks : SocketsOf(n)' = SocketsOf(n)
BY DEF Listed, SocketsOf

\* The steps of the service that keep every socket and every excuse.
LEMMA ServiceAttends ==
  ASSUME TypeOK, AttendedUnlessExcused, NEW n \in Networks, active',
         \/ SetupConnections
         \/ ListSockets
         \/ \E m \in Networks : \/ CheckExisting(m)
                                \/ RefuseSocket(m)
                                \/ HandleCleanClose(m)
                                \/ TimerFires(m)
         \/ \E id \in SocketIds : HandleConnected(id) \/ CloseMissingSocket(id)
  PROVE  Attended(n)' \/ excuse'[n] # {}
<1>1. UNCHANGED <<active, socket, excuse>>
  BY DEF SetupConnections, ListSockets, CheckExisting, RefuseSocket,
     HandleCleanClose, TimerFires, HandleConnected, CloseMissingSocket,
     host, history
<1>2. SocketsOf(n)' = SocketsOf(n)
  BY <1>1, SameTable
<1>3. Attended(n) \/ excuse[n] # {}
  BY <1>1 DEF AttendedUnlessExcused
<1>4. CASE SetupConnections
  <2>1. checks'[n] > 0
    BY <1>1, <1>4 DEF TypeOK, SetupConnections, OpenConnectionsForActiveNetworks
  <2> QED
    BY <2>1 DEF Attended
<1>5. CASE ListSockets
  BY <1>1, <1>2, <1>3, <1>5 DEF Attended, ListSockets, host
<1>6. ASSUME NEW m \in Networks, CheckExisting(m)
      PROVE  Attended(n)' \/ excuse'[n] # {}
  <2>1. UNCHANGED <<closed, setups, timers>>
    BY <1>6 DEF CheckExisting, host
  <2>2. CASE m # n
    <3>1. checks'[n] = checks[n] /\ opens'[n] = opens[n]
      BY <1>6, <2>2 DEF TypeOK, CheckExisting
    <3> QED
      BY <1>1, <1>2, <1>3, <2>1, <3>1 DEF Attended
  <2>3. CASE m = n /\ SocketsOf(n) = {}
    <3>1. opens'[n] > 0
      BY <1>6, <2>3 DEF TypeOK, CheckExisting
    <3> QED
      BY <3>1 DEF Attended
  <2>4. CASE SocketsOf(n) # {}
    BY <1>2, <2>4 DEF Attended
  <2> QED
    BY <2>2, <2>3, <2>4
<1>7. ASSUME NEW m \in Networks, RefuseSocket(m)
      PROVE  Attended(n)' \/ excuse'[n] # {}
  <2>1. UNCHANGED <<closed, setups, checks, timers>>
    BY <1>7 DEF RefuseSocket, host
  <2>2. CASE m = n
    BY <1>2, <1>7, <2>2 DEF Attended, RefuseSocket
  <2>3. CASE m # n
    <3>1. opens'[n] = opens[n]
      BY <1>7, <2>3 DEF TypeOK, RefuseSocket
    <3> QED
      BY <1>1, <1>2, <1>3, <2>1, <3>1 DEF Attended
  <2> QED
    BY <2>2, <2>3
<1>8. ASSUME NEW m \in Networks, HandleCleanClose(m)
      PROVE  Attended(n)' \/ excuse'[n] # {}
  <2>1. UNCHANGED <<setups, checks, opens, timers>>
    BY <1>8 DEF HandleCleanClose, service
  <2>2. closed'[n]["unclean"] = closed[n]["unclean"]
    BY <1>8 DEF TypeOK, HandleCleanClose, CloseKinds
  <2> QED
    BY <1>1, <1>2, <1>3, <2>1, <2>2 DEF Attended
<1>9. ASSUME NEW m \in Networks, TimerFires(m)
      PROVE  Attended(n)' \/ excuse'[n] # {}
  <2>1. UNCHANGED <<closed, setups, opens>>
    BY <1>9 DEF TimerFires, host
  <2>2. CASE m = n
    <3>1. checks'[n] > 0
      BY <1>9, <2>2 DEF TypeOK, TimerFires
    <3> QED
      BY <3>1 DEF Attended
  <2>3. CASE m # n
    <3>1. checks'[n] = checks[n] /\ timers'[n] = timers[n]
      BY <1>9, <2>3 DEF TypeOK, TimerFires
    <3> QED
      BY <1>1, <1>2, <1>3, <2>1, <3>1 DEF Attended
  <2> QED
    BY <2>2, <2>3
<1>10. ASSUME NEW id \in SocketIds, HandleConnected(id)
       PROVE  Attended(n)' \/ excuse'[n] # {}
  BY <1>1, <1>2, <1>3, <1>10 DEF Attended, HandleConnected
<1>11. ASSUME NEW id \in SocketIds, CloseMissingSocket(id)
       PROVE  Attended(n)' \/ excuse'[n] # {}
  BY <1>1, <1>2, <1>3, <1>11 DEF Attended, CloseMissingSocket, host
<1> QED
  BY <1>4, <1>5, <1>6, <1>7, <1>8, <1>9, <1>10, <1>11

\* An unclean close event is answered by a timer or by giving up.
LEMMA DisconnectAttends ==
  ASSUME TypeOK, AttendedUnlessExcused, NEW n \in Networks, active',
         NEW m \in Networks, HandleDisconnected(m)
  PROVE  Attended(n)' \/ excuse'[n] # {}
<1>1. UNCHANGED <<active, socket, setups, checks, opens>>
  BY DEF HandleDisconnected
<1>2. SocketsOf(n)' = SocketsOf(n)
  BY <1>1, SameTable
<1>3. Attended(n) \/ excuse[n] # {}
  BY <1>1 DEF AttendedUnlessExcused
<1>4. CASE m = n
  <2>1. CASE retryAttempts[n] + 1 > MaxReconnectAttempts
    <3>1. Excuse(n, {"gaveUp"})
      BY <1>4, <2>1 DEF HandleDisconnected, AttemptReconnect
    <3>2. excuse'[n] # {}
      BY <3>1 DEF TypeOK, Excuse
    <3> QED
      BY <3>2
  <2>2. CASE ~(retryAttempts[n] + 1 > MaxReconnectAttempts)
    <3>1. timers'[n] > 0
      BY <1>4, <2>2 DEF TypeOK, HandleDisconnected, AttemptReconnect
    <3> QED
      BY <3>1 DEF Attended
  <2> QED
    BY <2>1, <2>2
<1>5. CASE m # n
  <2>1. closed'[n] = closed[n]
    BY <1>5 DEF TypeOK, HandleDisconnected
  <2>2. timers'[n] = timers[n] /\ excuse'[n] = excuse[n]
    BY <1>5 DEF TypeOK, HandleDisconnected, AttemptReconnect, Excuse
  <2> QED
    BY <1>1, <1>2, <1>3, <2>1, <2>2 DEF Attended
<1> QED
  BY <1>4, <1>5

\* A network that loses a socket gets an unclean close event or an excuse.
LEMMA DropAttends ==
  ASSUME TypeOK, AttendedUnlessExcused, NEW n \in Networks, active,
         NEW id \in Listed, NEW kind \in CloseKinds, NEW why \in SUBSET Excuses,
         Drop(id, kind), Excuse(socket[id].network, why),
         kind = "clean" => why # {},
         UNCHANGED <<setups, checks, opens, timers>>
  PROVE  Attended(n)' \/ excuse'[n] # {}
<1> DEFINE m == socket[id].network
<1>1. m \in Networks
  BY ListedSocket
<1>2. Attended(n) \/ excuse[n] # {}
  BY DEF AttendedUnlessExcused
<1>3. closed \in [Networks -> [CloseKinds -> Nat]]
  BY DEF TypeOK
<1>4. closed' = [closed EXCEPT ![m][kind] = closed[m][kind] + 1]
  BY DEF Drop
<1>5. excuse' = [excuse EXCEPT ![m] = excuse[m] \cup why]
  BY DEF Excuse
<1>6. CASE n = m /\ kind = "clean"
  BY <1>5, <1>6 DEF TypeOK
<1>7. CASE n = m /\ kind = "unclean"
  <2>1. closed[n]["unclean"] \in Nat
    BY <1>3 DEF CloseKinds
  <2>2. closed'[n]["unclean"] = closed[n]["unclean"] + 1
    BY <1>1, <1>3, <1>4, <1>7 DEF CloseKinds
  <2> QED
    BY <2>1, <2>2 DEF Attended
<1>8. CASE n # m
  <2>1. SocketsOf(n)' = SocketsOf(n)
    BY <1>8 DEF TypeOK, Drop, SocketsOf, Listed, NoSocket
  <2>2. closed'[n] = closed[n]
    BY <1>3, <1>4, <1>8
  <2>3. excuse'[n] = excuse[n]
    BY <1>5, <1>8 DEF TypeOK
  <2> QED
    BY <1>2, <2>1, <2>2, <2>3 DEF Attended
<1> QED
  BY <1>6, <1>7, <1>8 DEF CloseKinds

\* A socket that opens, fails or closes is answered, or is a reason.
LEMMA SocketAttends ==
  ASSUME TypeOK, AttendedUnlessExcused, NEW n \in Networks, active',
         \/ \E m \in Networks : OpenSocket(m)
         \/ \E id \in SocketIds : \/ CloseSocket(id)
                                  \/ Connects(id)
                                  \/ Fails(id)
  PROVE  Attended(n)' \/ excuse'[n] # {}
<1>1. active
  BY DEF OpenSocket, CloseSocket, Connects, Fails
<1>2. Attended(n) \/ excuse[n] # {}
  BY <1>1 DEF AttendedUnlessExcused
<1>3. ASSUME NEW m \in Networks, OpenSocket(m)
      PROVE  Attended(n)' \/ excuse'[n] # {}
  <2>1. PICK id \in SocketIds \ (Listed \cup opened \cup doomed) :
          socket' = [socket EXCEPT ![id] =
                       [status |-> "connecting", network |-> m]]
    BY <1>3 DEF OpenSocket
  <2>2. CASE m = n
    <3>1. id \in SocketsOf(n)'
      BY <2>1, <2>2 DEF TypeOK, SocketsOf, Listed, NoSocket
    <3> QED
      BY <3>1 DEF Attended
  <2>3. CASE m # n
    <3>1. SocketsOf(n) \subseteq SocketsOf(n)'
      BY <2>1 DEF TypeOK, SocketsOf, Listed
    <3>2. opens'[n] = opens[n] /\ excuse'[n] = excuse[n]
      BY <1>3, <2>3 DEF TypeOK, OpenSocket
    <3>3. UNCHANGED <<closed, setups, checks, timers>>
      BY <1>3 DEF OpenSocket
    <3> QED
      BY <1>2, <3>1, <3>2, <3>3 DEF Attended
  <2> QED
    BY <2>2, <2>3
<1>4. ASSUME NEW id \in SocketIds, CloseSocket(id)
      PROVE  Attended(n)' \/ excuse'[n] # {}
  <2>1. id \in Listed
    BY <1>4 DEF CloseSocket
  <2>2. PICK kind \in CloseKinds :
          /\ Drop(id, kind)
          /\ Excuse(socket[id].network,
                    IF active /\ kind = "clean" THEN {"closedLate"} ELSE {})
    BY <1>4 DEF CloseSocket, CloseKinds
  <2> DEFINE why == IF active /\ kind = "clean" THEN {"closedLate"} ELSE {}
  <2>3. why \in SUBSET Excuses /\ (kind = "clean" => why # {})
    BY <1>1 DEF Excuses
  <2>4. UNCHANGED <<setups, checks, opens, timers>>
    BY <1>4 DEF CloseSocket
  <2> QED
    BY <1>1, <2>1, <2>2, <2>3, <2>4, DropAttends
<1>5. ASSUME NEW id \in SocketIds, Connects(id)
      PROVE  Attended(n)' \/ excuse'[n] # {}
  <2>1. SocketsOf(n) \subseteq SocketsOf(n)'
    BY <1>5 DEF TypeOK, Connects, SocketsOf, Listed, NoSocket
  <2>2. UNCHANGED <<closed, setups, checks, opens, timers, excuse>>
    BY <1>5 DEF Connects, service, history
  <2> QED
    BY <1>2, <2>1, <2>2 DEF Attended
<1>6. ASSUME NEW id \in SocketIds, Fails(id)
      PROVE  Attended(n)' \/ excuse'[n] # {}
  <2>1. id \in Listed
    BY <1>6 DEF Fails
  <2>2. PICK kind \in CloseKinds :
          /\ Drop(id, kind)
          /\ Excuse(socket[id].network,
                    IF kind = "clean" THEN {"serverClosed"} ELSE {})
    BY <1>6 DEF Fails, CloseKinds
  <2> DEFINE why == IF kind = "clean" THEN {"serverClosed"} ELSE {}
  <2>3. why \in SUBSET Excuses /\ (kind = "clean" => why # {})
    BY DEF Excuses
  <2>4. UNCHANGED <<setups, checks, opens, timers>>
    BY <1>6 DEF Fails, service
  <2> QED
    BY <1>1, <2>1, <2>2, <2>3, <2>4, DropAttends
<1> QED
  BY <1>3, <1>4, <1>5, <1>6

\* Every step attends every network, or notes why it does not.
LEMMA NextAttends ==
  TypeOK /\ AttendedUnlessExcused /\ [Next]_vars => AttendedUnlessExcused'
<1> SUFFICES ASSUME TypeOK, AttendedUnlessExcused, [Next]_vars,
                    active', NEW n \in Networks
             PROVE  Attended(n)' \/ excuse'[n] # {}
  BY DEF AttendedUnlessExcused
<1>1. CASE BecomeActive
  <2>1. checks'[n] > 0
    BY <1>1 DEF TypeOK, BecomeActive, OpenConnectionsForActiveNetworks
  <2> QED
    BY <2>1 DEF Attended
<1>2. CASE BecomeInactive
  BY <1>2 DEF BecomeInactive
<1>3. CASE Restart
  BY <1>3 DEF Restart, Attended
<1>4. CASE UNCHANGED vars
  <2>1. UNCHANGED <<active, socket, setups, checks, opens, timers, closed, excuse>>
    BY <1>4 DEF vars, host, service, history
  <2> QED
    BY <2>1, SameTable DEF AttendedUnlessExcused, Attended
<1> QED
  BY <1>1, <1>2, <1>3, <1>4, ServiceAttends, DisconnectAttends, SocketAttends
  DEF Next

(***************************************************************************)
(* InactiveLeavesOnlyStragglers.                                           *)
(***************************************************************************)
LEMMA NextLeavesOnlyStragglers ==
  TypeOK /\ InactiveLeavesOnlyStragglers /\ [Next]_vars
    => InactiveLeavesOnlyStragglers'
<1> SUFFICES ASSUME TypeOK, InactiveLeavesOnlyStragglers, [Next]_vars,
                    ~active', lists' = 0, setups' = 0, NEW id \in Listed'
             PROVE  id \in doomed' \cup straggler'
  BY DEF InactiveLeavesOnlyStragglers
<1>1. ASSUME UNCHANGED <<active, socket, lists, setups>>,
             doomed \subseteq doomed' \cup (SocketIds \ Listed),
             UNCHANGED straggler
      PROVE  id \in doomed' \cup straggler'
  BY <1>1, SameTable DEF InactiveLeavesOnlyStragglers
<1>2. CASE SetupConnections
  BY <1>2 DEF TypeOK, SetupConnections, CloseAllConnections, host
<1>3. CASE ListSockets
  BY <1>3, SameTable DEF ListSockets, host
<1>4. CASE BecomeActive \/ BecomeInactive
  BY <1>4 DEF TypeOK, BecomeActive, BecomeInactive, CloseAllConnections
<1>5. CASE Restart
  BY <1>5 DEF Restart
<1>6. ASSUME NEW n \in Networks, OpenSocket(n)
      PROVE  id \in doomed' \cup straggler'
  <2>1. PICK new \in SocketIds \ (Listed \cup opened \cup doomed) :
          /\ socket' = [socket EXCEPT ![new] =
                          [status |-> "connecting", network |-> n]]
          /\ straggler' = IF active THEN straggler \ {new}
                          ELSE straggler \cup {new}
    BY <1>6 DEF OpenSocket
  <2>2. UNCHANGED <<active, lists, setups, doomed>>
    BY <1>6 DEF OpenSocket
  <2>3. id = new \/ id \in Listed
    BY <2>1 DEF TypeOK, Listed
  <2> QED
    BY <2>1, <2>2, <2>3 DEF InactiveLeavesOnlyStragglers
<1>7. ASSUME NEW i \in Listed, NEW kind \in CloseKinds, Drop(i, kind),
             UNCHANGED <<active, lists, setups, straggler>>,
             doomed \ {i} \subseteq doomed'
      PROVE  id \in doomed' \cup straggler'
  <2>1. id \in Listed \ {i}
    BY <1>7 DEF TypeOK, Listed, Drop
  <2> QED
    BY <1>7, <2>1 DEF InactiveLeavesOnlyStragglers
<1>8. ASSUME NEW i \in SocketIds, CloseSocket(i)
      PROVE  id \in doomed' \cup straggler'
  BY <1>7, <1>8 DEF CloseSocket, CloseKinds
<1>9. ASSUME NEW i \in SocketIds, Fails(i)
      PROVE  id \in doomed' \cup straggler'
  BY <1>7, <1>9 DEF Fails, CloseKinds, service
<1>10. ASSUME NEW i \in SocketIds, Connects(i)
       PROVE  id \in doomed' \cup straggler'
  <2>1. id \in Listed
    BY <1>10 DEF TypeOK, Connects, Listed
  <2> QED
    BY <1>10, <2>1 DEF Connects, InactiveLeavesOnlyStragglers, service, history
<1>11. ASSUME NEW i \in SocketIds, CloseMissingSocket(i) \/ HandleConnected(i)
       PROVE  id \in doomed' \cup straggler'
  BY <1>1, <1>11 DEF CloseMissingSocket, HandleConnected, host, history
<1>12. ASSUME NEW n \in Networks,
              \/ CheckExisting(n) \/ RefuseSocket(n) \/ TimerFires(n)
              \/ HandleCleanClose(n) \/ HandleDisconnected(n)
       PROVE  id \in doomed' \cup straggler'
  BY <1>1, <1>12 DEF CheckExisting, RefuseSocket, TimerFires,
     HandleCleanClose, HandleDisconnected, host, service, history
<1>13. CASE UNCHANGED vars
  BY <1>1, <1>13 DEF vars, host, service, history
<1> QED
  BY <1>2, <1>3, <1>4, <1>5, <1>6, <1>8, <1>9, <1>10, <1>11, <1>12, <1>13
  DEF Next

(***************************************************************************)
(* The theorems.                                                           *)
(***************************************************************************)
LEMMA InvariantHolds == Spec => []IInv
<1>1. IInv /\ [Next]_vars => IInv'
  BY NextTypes, NextAttends, NextLeavesOnlyStragglers DEF IInv
<1> QED
  BY InitInvariant, <1>1, PTL DEF Spec

\* The service's maps and counters and the host's tables keep their types: no
\* count of calls, timers or events of WebSocketConnectionService goes below 0.
THEOREM TypeCorrect == Spec => []TypeOK
<1>1. IInv => TypeOK
  BY DEF IInv
<1> QED
  BY <1>1, InvariantHolds, PTL

\* Whatever the number of networks and sockets, an active client's network has
\* a connection, something under way that opens one, or one of three known
\* reasons to be without (openConnection, #attemptReconnect).
THEOREM NetworksAttended == Spec => []AttendedUnlessExcused
<1>1. IInv => AttendedUnlessExcused
  BY DEF IInv
<1> QED
  BY <1>1, InvariantHolds, PTL

\* #closeAllConnections leaves an inactive client only sockets that were opened
\* after it became inactive.
THEOREM OnlyStragglersSurvive == Spec => []InactiveLeavesOnlyStragglers
<1>1. IInv => InactiveLeavesOnlyStragglers
  BY DEF IInv
<1> QED
  BY <1>1, InvariantHolds, PTL
==============================================================================
