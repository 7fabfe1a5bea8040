------------------------- MODULE WebSocketConnection -------------------------
(***************************************************************************)
(* The life of the snap's WebSocket connections: the service               *)
(* WebSocketConnectionService over the repository                          *)
(* WebSocketConnectionRepository, and the host that owns the sockets.      *)
(*                                                                         *)
(* The repository stores nothing: snap_getWebSockets, snap_openWebSocket   *)
(* and snap_closeWebSocket are its SELECT, INSERT and DELETE.  Each is an  *)
(* await, so every handler of the service is cut there: a step is one      *)
(* answer of the host together with the JavaScript that follows it.        *)
(*                                                                         *)
(* Calls of openConnection for the same network differ only in how far     *)
(* they got, so they are counted: `checks` have asked for the sockets,     *)
(* `opens` found none and have asked for one.  Time is abstracted: a       *)
(* reconnect timer fires at some point after it was set.                   *)
(***************************************************************************)
EXTENDS Naturals, FiniteSets

CONSTANTS
  Networks,              \* configProvider.get().activeNetworks
  SocketIds,             \* names the host gives to sockets, reused when free
  MaxReconnectAttempts,  \* configProvider.get().subscriptions
  MaxFailures,           \* bound: sockets closed by the environment
  MaxSwitches            \* bound: client switches, and restarts of the snap

ASSUME AttemptsAssumption == MaxReconnectAttempts \in Nat \ {0}
ASSUME BoundsAssumption == MaxFailures \in Nat /\ MaxSwitches \in Nat

VARIABLES
  active,         \* the client is open: snap_getClientStatus
  socket,         \* the host's sockets
  opened,         \* ids whose `open` event is not handled yet
  closed,         \* unhandled `close` events, by network and kind
  setups,         \* #setupConnections calls awaiting the client status
  checks,         \* openConnection calls awaiting findByNetwork
  opens,          \* openConnection calls awaiting save
  lists,          \* #closeAllConnections calls awaiting getAll
  doomed,         \* ids that #closeAllConnections is about to delete
  retryAttempts,  \* the service's map of the same name, 0 when unset
  timers,         \* reconnect timers that are running
  failures,       \* how many sockets the environment has closed
  switches,       \* how often the client switched or the snap restarted
  recovered,      \* history: ids whose recovery handlers were triggered
  straggler,      \* history: ids opened while the client was inactive
  excuse          \* history: why a network may be left without connection

host == <<active, socket, opened, closed>>
service == <<setups, checks, opens, lists, doomed, retryAttempts, timers>>
budget == <<failures, switches>>
history == <<recovered, straggler, excuse>>
vars == <<host, service, budget, history>>

NoSocket == [status |-> "none"]
Sockets == [status : {"connecting", "open"}, network : Networks]

\* The wasClean flag of a close event.
CloseKinds == {"clean", "unclean"}

\* The ways a network of an active client can be left without connection: the
\* retries are exhausted, the server closed it with a closing handshake, or a
\* #closeAllConnections that began while the client was inactive closed it.
Excuses == {"gaveUp", "serverClosed", "closedLate"}

TypeOK ==
  /\ active \in BOOLEAN
  /\ socket \in [SocketIds -> Sockets \cup {NoSocket}]
  /\ opened \subseteq SocketIds
  /\ closed \in [Networks -> [CloseKinds -> Nat]]
  /\ setups \in Nat
  /\ checks \in [Networks -> Nat]
  /\ opens \in [Networks -> Nat]
  /\ lists \in Nat
  /\ doomed \subseteq SocketIds
  /\ retryAttempts \in [Networks -> Nat]
  /\ timers \in [Networks -> Nat]
  /\ failures \in 0..MaxFailures
  /\ switches \in 0..MaxSwitches
  /\ recovered \subseteq SocketIds
  /\ straggler \subseteq SocketIds
  /\ excuse \in [Networks -> SUBSET Excuses]

\* What snap_getWebSockets lists, and the rows of one network among them.
Listed == {id \in SocketIds : socket[id] # NoSocket}
SocketsOf(n) == {id \in Listed : socket[id].network = n}

Zero == [n \in Networks |-> 0]

\* The snap has just been started by the host: its `setup` handler runs.
Init ==
  /\ active \in BOOLEAN
  /\ socket = [id \in SocketIds |-> NoSocket]
  /\ opened = {}
  /\ closed = [n \in Networks |-> [kind \in CloseKinds |-> 0]]
  /\ setups = 1
  /\ checks = Zero
  /\ opens = Zero
  /\ lists = 0
  /\ doomed = {}
  /\ retryAttempts = Zero
  /\ timers = Zero
  /\ failures = 0
  /\ switches = 0
  /\ recovered = {}
  /\ straggler = {}
  /\ excuse = [n \in Networks |-> {}]

------------------------------------------------------------------------------
(* The service's handlers.                                                 *)

\* Mutant: the retry map is cleared but no connection is requested.
OpenNothing ==
  /\ retryAttempts' = Zero
  /\ UNCHANGED <<checks, lists>>

\* #openConnectionsForActiveNetworks, up to the await of each openConnection.
OpenConnectionsForActiveNetworks ==
  /\ retryAttempts' = Zero
  /\ checks' = [n \in Networks |-> checks[n] + 1]
  /\ UNCHANGED lists

\* #closeAllConnections, up to the await of getAll.
CloseAllConnections ==
  /\ lists' = lists + 1
  /\ UNCHANGED <<retryAttempts, checks>>

\* #setupConnections: the host answers getClientStatus.
SetupConnections ==
  /\ setups > 0
  /\ setups' = setups - 1
  /\ IF active THEN OpenConnectionsForActiveNetworks ELSE CloseAllConnections
  /\ UNCHANGED <<host, opens, doomed, timers, budget, history>>

\* openConnection: the host answers findByNetwork.
CheckExisting(n) ==
  /\ checks[n] > 0
  /\ checks' = [checks EXCEPT ![n] = @ - 1]
  /\ opens' = IF SocketsOf(n) = {} THEN [opens EXCEPT ![n] = @ + 1] ELSE opens
  /\ UNCHANGED <<host, setups, lists, doomed, retryAttempts, timers, budget,
                 history>>

\* openConnection: the host executes save's snap_openWebSocket.
OpenSocket(n) ==
  /\ opens[n] > 0
  /\ opens' = [opens EXCEPT ![n] = @ - 1]
  /\ \E id \in SocketIds \ (Listed \cup opened \cup doomed) :
       /\ socket' = [socket EXCEPT ![id] =
                       [status |-> "connecting", network |-> n]]
       /\ recovered' = recovered \ {id}
       /\ straggler' = IF active THEN straggler \ {id} ELSE straggler \cup {id}
  /\ excuse' = [excuse EXCEPT ![n] = {}]
  /\ UNCHANGED <<active, opened, closed, setups, checks, lists, doomed,
                 retryAttempts, timers, budget>>

\* The host may also refuse a second socket for a URL: the rejection of save
\* is swallowed by allSettled and by the catch of #attemptReconnect.
RefuseSocket(n) ==
  /\ opens[n] > 0
  /\ SocketsOf(n) # {}
  /\ opens' = [opens EXCEPT ![n] = @ - 1]
  /\ UNCHANGED <<host, setups, checks, lists, doomed, retryAttempts, timers,
                 budget, history>>

\* Mutant: sockets that are still connecting are not closed.
ListOpenSockets ==
  /\ lists > 0
  /\ lists' = lists - 1
  /\ doomed' = doomed \cup {id \in Listed : socket[id].status = "open"}
  /\ UNCHANGED <<host, setups, checks, opens, retryAttempts, timers, budget,
                 history>>

\* #closeAllConnections: the host answers getAll.
ListSockets ==
  /\ lists > 0
  /\ lists' = lists - 1
  /\ doomed' = doomed \cup Listed
  /\ UNCHANGED <<host, setups, checks, opens, retryAttempts, timers, budget,
                 history>>

\* The host drops a socket and will report it as clean or unclean.
Drop(id, kind) ==
  /\ socket' = [socket EXCEPT ![id] = NoSocket]
  /\ closed' = [closed EXCEPT ![socket[id].network][kind] = @ + 1]

Excuse(n, why) == excuse' = [excuse EXCEPT ![n] = @ \cup why]

\* #closeConnection: the host executes snap_closeWebSocket.  Closing a socket
\* that is still connecting may be reported as unclean.
CloseSocket(id) ==
  /\ id \in doomed \cap Listed
  /\ doomed' = doomed \ {id}
  /\ \E kind \in IF socket[id].status = "open" THEN {"clean"} ELSE CloseKinds :
       /\ Drop(id, kind)
       /\ Excuse(socket[id].network,
                 IF active /\ kind = "clean" THEN {"closedLate"} ELSE {})
  /\ UNCHANGED <<active, opened, setups, checks, opens, lists, retryAttempts,
                 timers, budget, recovered, straggler>>

\* #closeConnection of a socket that is gone: the rejection is swallowed.
CloseMissingSocket(id) ==
  /\ id \in doomed \ Listed
  /\ doomed' = doomed \ {id}
  /\ UNCHANGED <<host, setups, checks, opens, lists, retryAttempts, timers,
                 budget, history>>

\* Mutant: the recovery handlers are called only after a failed attempt.
HandleConnectedAfterRetryOnly(id) ==
  /\ id \in opened
  /\ opened' = opened \ {id}
  /\ IF id \in Listed /\ retryAttempts[socket[id].network] > 0
       THEN /\ retryAttempts' = [retryAttempts EXCEPT ![socket[id].network] = 0]
            /\ recovered' = recovered \cup {id}
       ELSE UNCHANGED <<retryAttempts, recovered>>
  /\ UNCHANGED <<active, socket, closed, setups, checks, opens, lists, doomed,
                 timers, budget, straggler, excuse>>

\* #handleConnected: the host answers getById, then every recovery handler of
\* the network is called.
HandleConnected(id) ==
  /\ id \in opened
  /\ opened' = opened \ {id}
  /\ IF id \in Listed
       THEN /\ retryAttempts' = [retryAttempts EXCEPT ![socket[id].network] = 0]
            /\ recovered' = recovered \cup {id}
       ELSE UNCHANGED <<retryAttempts, recovered>>
  /\ UNCHANGED <<active, socket, closed, setups, checks, opens, lists, doomed,
                 timers, budget, straggler, excuse>>

\* #attemptReconnect: count, then give up or set a timer.
AttemptReconnect(n) ==
  /\ retryAttempts' = [retryAttempts EXCEPT ![n] = @ + 1]
  /\ IF retryAttempts[n] + 1 > MaxReconnectAttempts
       THEN Excuse(n, {"gaveUp"}) /\ UNCHANGED timers
       ELSE timers' = [timers EXCEPT ![n] = @ + 1] /\ UNCHANGED excuse

\* #handleDisconnected of a close event that is not clean.
HandleDisconnected(n) ==
  /\ closed[n]["unclean"] > 0
  /\ closed' = [closed EXCEPT ![n]["unclean"] = @ - 1]
  /\ AttemptReconnect(n)
  /\ UNCHANGED <<active, socket, opened, setups, checks, opens, lists, doomed,
                 budget, recovered, straggler>>

\* #handleDisconnected of a clean close event: nothing to do.
HandleCleanClose(n) ==
  /\ closed[n]["clean"] > 0
  /\ closed' = [closed EXCEPT ![n]["clean"] = @ - 1]
  /\ UNCHANGED <<active, socket, opened, service, budget, history>>

\* Mutant: the timer only logs.
TimerExpires(n) ==
  /\ timers[n] > 0
  /\ timers' = [timers EXCEPT ![n] = @ - 1]
  /\ UNCHANGED <<host, setups, checks, opens, lists, doomed, retryAttempts,
                 budget, history>>

\* The timer of #attemptReconnect calls openConnection.
TimerFires(n) ==
  /\ timers[n] > 0
  /\ timers' = [timers EXCEPT ![n] = @ - 1]
  /\ checks' = [checks EXCEPT ![n] = @ + 1]
  /\ UNCHANGED <<host, setups, opens, lists, doomed, retryAttempts, budget,
                 history>>

------------------------------------------------------------------------------
(* The host and the network.                                               *)

\* A connecting socket is established: an `open` event is on its way.
Connects(id) ==
  /\ id \in Listed
  /\ socket[id].status = "connecting"
  /\ socket' = [socket EXCEPT ![id] =
                  [status |-> "open", network |-> @.network]]
  /\ opened' = opened \cup {id}
  /\ UNCHANGED <<active, closed, service, budget, history>>

\* A socket fails, or the server ends it: possibly with a closing handshake.
Fails(id) ==
  /\ failures < MaxFailures
  /\ failures' = failures + 1
  /\ id \in Listed
  /\ \E kind \in IF socket[id].status = "open" THEN CloseKinds ELSE {"unclean"} :
       /\ Drop(id, kind)
       /\ Excuse(socket[id].network,
                 IF kind = "clean" THEN {"serverClosed"} ELSE {})
  /\ UNCHANGED <<active, opened, service, switches, recovered, straggler>>

\* The client opens: onActive.
BecomeActive ==
  /\ ~active
  /\ switches < MaxSwitches
  /\ switches' = switches + 1
  /\ active' = TRUE
  /\ OpenConnectionsForActiveNetworks
  /\ UNCHANGED <<socket, opened, closed, setups, opens, doomed, timers,
                 failures, history>>

\* The client closes: onInactive.
BecomeInactive ==
  /\ active
  /\ switches < MaxSwitches
  /\ switches' = switches + 1
  /\ active' = FALSE
  /\ CloseAllConnections
  /\ UNCHANGED <<socket, opened, closed, setups, opens, doomed, timers,
                 failures, history>>

\* The snap is restarted, updated or reinstalled: its memory and its sockets
\* are lost, and `setup` runs.
Restart ==
  /\ switches < MaxSwitches
  /\ switches' = switches + 1
  /\ socket' = [id \in SocketIds |-> NoSocket]
  /\ opened' = {}
  /\ closed' = [n \in Networks |-> [kind \in CloseKinds |-> 0]]
  /\ setups' = 1
  /\ checks' = Zero
  /\ opens' = Zero
  /\ lists' = 0
  /\ doomed' = {}
  /\ retryAttempts' = Zero
  /\ timers' = Zero
  /\ recovered' = {}
  /\ straggler' = {}
  /\ excuse' = [n \in Networks |-> {}]
  /\ UNCHANGED <<active, failures>>

Next ==
  \/ SetupConnections
  \/ \E n \in Networks : \/ CheckExisting(n)
                         \/ OpenSocket(n)
                         \/ RefuseSocket(n)
                         \/ HandleDisconnected(n)
                         \/ HandleCleanClose(n)
                         \/ TimerFires(n)
  \/ \E id \in SocketIds : \/ CloseSocket(id)
                           \/ CloseMissingSocket(id)
                           \/ HandleConnected(id)
                           \/ Connects(id)
                           \/ Fails(id)
  \/ ListSockets
  \/ BecomeActive
  \/ BecomeInactive
  \/ Restart

Spec == Init /\ [][Next]_vars

\* The host answers every request and delivers every event, timers fire, and a
\* connecting socket connects unless it fails.  Nothing makes the client
\* switch, a socket fail or the snap restart.
Fairness ==
  /\ WF_vars(SetupConnections)
  /\ WF_vars(ListSockets)
  /\ \A n \in Networks : /\ WF_vars(CheckExisting(n))
                         /\ WF_vars(OpenSocket(n) \/ RefuseSocket(n))
                         /\ WF_vars(HandleDisconnected(n))
                         /\ WF_vars(HandleCleanClose(n))
                         /\ WF_vars(TimerFires(n))
  /\ \A id \in SocketIds : /\ WF_vars(CloseSocket(id) \/ CloseMissingSocket(id))
                           /\ WF_vars(HandleConnected(id))
                           /\ WF_vars(Connects(id))

FairSpec == Spec /\ Fairness

------------------------------------------------------------------------------
(* Properties.                                                             *)

\* Something the service has started will give network n a connection, or it
\* has one.
Attended(n) ==
  \/ SocketsOf(n) # {}
  \/ setups > 0
  \/ checks[n] > 0
  \/ opens[n] > 0
  \/ timers[n] > 0
  \/ closed[n]["unclean"] > 0

\* While the client is active, no interleaving of the service's handlers
\* leaves a network with neither a connection nor anything that will open one,
\* except for the three known reasons (openConnection, #attemptReconnect,
\* #handleDisconnected).
AttendedUnlessExcused ==
  active => \A n \in Networks : Attended(n) \/ excuse[n] # {}

\* Once #closeAllConnections is done, an inactive client has only the sockets
\* that were opened after it became inactive, by a reconnect timer or by an
\* openConnection that was already under way.
InactiveLeavesOnlyStragglers ==
  (~active /\ lists = 0 /\ setups = 0) => Listed \subseteq doomed \cup straggler

\* If the client stays active, then from some point on every network has an
\* open connection, or one of the known reasons why not: the reconnect loop
\* neither stalls nor runs for ever.
IsOpen(n) == \E id \in SocketsOf(n) : socket[id].status = "open"
Reconnects ==
  <>[]active => <>[](\A n \in Networks : IsOpen(n) \/ excuse[n] # {})

\* Every socket that opens and stays open gets its recovery handlers called
\* (#handleConnected): subscriptions depend on it.
EveryOpeningRecovers ==
  \A id \in SocketIds :
    socket[id].status = "open" ~> (id \in recovered \/ socket[id].status # "open")
==============================================================================
