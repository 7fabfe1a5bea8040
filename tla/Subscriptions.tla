---------------------------- MODULE Subscriptions ----------------------------
(***************************************************************************)
(* The subscriptions of the snap to account, program and signature         *)
(* notifications: SubscriptionService over SubscriptionRepository, one     *)
(* network, and the RPC server at the other end of its connection.         *)
(*                                                                         *)
(* The records live in the persisted store, one path per subscription, so  *)
(* this module composes with SnapState: saving a record is its Write, and  *)
(* every deletion is its two-step update of the whole document.  A call of *)
(* the service is a task that advances by one answer of the host at a      *)
(* time; tasks interleave at every await.                                  *)
(*                                                                         *)
(* The connection is reduced to what the service sees of it.  That an      *)
(* `open` event of a connection that stays up reaches the recovery         *)
(* handlers is EveryOpeningRecovers of WebSocketConnection.                *)
(***************************************************************************)
EXTENDS Naturals, FiniteSets

CONSTANTS
  Calls,           \* identities of the tasks that can be in flight
  Ids,             \* subscription ids: the hash of the request
  RpcIds,          \* numbers the server gives, unique within a connection
  NoSub,           \* "no such record"
  Nobody,          \* "no such subscription", for the server
  MaxConnections,  \* bound: connections
  MaxRequests,     \* bound: subscribe and unsubscribe calls of the monitors
  MaxDisturbances  \* bound: updates of other slices of the state, and
                   \* restarts of the snap

ASSUME BoundsAssumption ==
  MaxConnections \in Nat /\ MaxRequests \in Nat /\ MaxDisturbances \in Nat
ASSUME NobodyAssumption == Nobody \notin Ids \cup RpcIds

VARIABLES
  subs,         \* the slice `subscriptions` of the persisted state
  update,       \* whole-state updates between their two requests
  task,         \* the service's calls in flight
  link,         \* the connection of the network
  conn,         \* its number
  opened,       \* its `open` event is not handled yet
  inbox,        \* answers of the server that are on their way
  live,         \* the server's subscriptions on this connection
  wanted,       \* history: subscribed and not unsubscribed by the monitors
  excuse,       \* history: why a subscription may be deaf, or remain
  raced,        \* history: ids an unsubscribe and another call were both about
  budget        \* what is left of the bounds

stored == <<subs, update>>
wire == <<link, conn, opened, inbox, live>>
vars == <<stored, task, wire, wanted, excuse, raced, budget>>

Pending == [status |-> "pending", rpc |-> Nobody]
Confirmed(rpc) == [status |-> "confirmed", rpc |-> rpc]
Records == {Pending} \cup {Confirmed(rpc) : rpc \in RpcIds}
ASSUME NoSubAssumption == NoSub \notin Records

Store == INSTANCE SnapState WITH
           Keys <- Ids, LegacyKeys <- {}, Values <- Records, Absent <- NoSub,
           store <- subs, call <- update, migrate <- FALSE,
           overwritten <- {}

\* A task: the operation, the await it stands at, the subscriptions it is
\* about, and what it holds of an earlier answer.  A "subscribe" task at its
\* "lookup" is one call of subscribe per id, none of them answered yet.
Operations == {"subscribe", "unsubscribe", "confirm", "fail", "reSubscribe",
               "other"}
Awaits == {"lookup", "getAll", "delete", "write", "save", "find", "send"}
Idle == [op |-> "idle"]
Task(op, at, ids, rpc, on) ==
  [op |-> op, at |-> at, ids |-> ids, rpc |-> rpc, conn |-> on]
Tasks == {t \in [op : Operations, at : Awaits, ids : SUBSET Ids,
                 rpc : RpcIds \cup {Nobody}, conn : 0..MaxConnections] :
           t.op = "confirm" => t.rpc \in RpcIds}
Answers == [type : {"confirm"}, id : Ids, rpc : RpcIds]
             \cup [type : {"fail"}, id : Ids, rpc : {Nobody}]

\* The ways a subscription can end up other than its monitor asked for.
Excuses ==
  {"refused",           \* the server answered a request for it with an error
   "clobbered",         \* an update of other paths wrote back an old record
   "lateConfirmation",  \* a confirmation of an earlier connection was saved
   "cancelled",         \* an unsubscribe for another id named its rpc id, or one named
                        \* it while its confirmation was still on its way
   "unsent",            \* its unsubscribe message could not be sent
   "interrupted"}       \* a restart fell between deleting and saving it

TypeOK ==
  /\ Store!StoreTypeOK
  /\ task \in [Calls -> {Idle} \cup Tasks]
  /\ link \in {"down", "connecting", "open"}
  /\ conn \in 0..MaxConnections
  /\ opened \in BOOLEAN
  /\ inbox \subseteq Answers
  /\ live \in [RpcIds -> Ids \cup {Nobody}]
  /\ wanted \subseteq Ids
  /\ excuse \in [Ids -> SUBSET Excuses]
  /\ raced \subseteq Ids
  /\ budget \in [requests : 0..MaxRequests, disturbances : 0..MaxDisturbances]

Init ==
  /\ subs = [id \in Ids |-> NoSub]
  /\ update = [c \in Calls |-> Store!Idle]
  /\ task = [c \in Calls |-> Idle]
  /\ link = "down"
  /\ conn = 0
  /\ opened = FALSE
  /\ inbox = {}
  /\ live = [r \in RpcIds |-> Nobody]
  /\ wanted = {}
  /\ excuse = [id \in Ids |-> {}]
  /\ raced = {}
  /\ budget = [requests |-> MaxRequests, disturbances |-> MaxDisturbances]

At(c, op, at) == task[c] # Idle /\ task[c].op = op /\ task[c].at = at
Moves(c, t) == task' = [task EXCEPT ![c] = t]
Ends(c) == Moves(c, Idle)
Goes(c, at) ==
  Moves(c, Task(task[c].op, at, task[c].ids, task[c].rpc, task[c].conn))
Spend(what) ==
  /\ budget[what] > 0
  /\ budget' = [budget EXCEPT ![what] = @ - 1]
Excuse(ids, why) ==
  excuse' = [id \in Ids |-> excuse[id] \cup IF id \in ids THEN {why} ELSE {}]

\* Ids that an unsubscribe shares with another call in flight.
Contended ==
  {id \in Ids : \E c, d \in Calls :
     /\ c # d
     /\ task[c] # Idle /\ task[c].op = "unsubscribe" /\ id \in task[c].ids
     /\ task[d] # Idle /\ id \in task[d].ids}

------------------------------------------------------------------------------
(* The calls of the monitors, and the events that start a task.            *)

\* subscribe, up to the await of getById; #generateId is a hash of the request.
Subscribe(c, id) ==
  /\ task[c] = Idle
  /\ Moves(c, Task("subscribe", "lookup", {id}, Nobody, 0))
  /\ wanted' = wanted \cup {id}
  /\ Spend("requests")
  /\ UNCHANGED <<stored, wire, excuse>>

\* unsubscribe, up to the await of getById.
Unsubscribe(c, id) ==
  /\ task[c] = Idle
  /\ Moves(c, Task("unsubscribe", "lookup", {id}, Nobody, 0))
  /\ wanted' = wanted \ {id}
  /\ Spend("requests")
  /\ UNCHANGED <<stored, wire, excuse>>

\* The connection service calls #reSubscribe, up to the await of getAll.
Recover(c) ==
  /\ opened
  /\ opened' = FALSE
  /\ task[c] = Idle
  /\ Moves(c, Task("reSubscribe", "getAll", {}, Nobody, 0))
  /\ UNCHANGED <<stored, link, conn, inbox, live, wanted, excuse, budget>>

\* #handleWebSocketEvent: the connection of the message exists, and the answer
\* is dispatched up to the await of getById.
Receive(c, m) ==
  /\ m \in inbox
  /\ inbox' = inbox \ {m}
  /\ task[c] = Idle
  /\ Moves(c, Task(m.type, "lookup", {m.id}, m.rpc, conn))
  /\ UNCHANGED <<stored, link, conn, opened, live, wanted, excuse, budget>>

\* Any other slice of the state: an update that leaves the subscriptions alone.
UpdateOther(c) ==
  /\ task[c] = Idle
  /\ Moves(c, Task("other", "write", {}, Nobody, 0))
  /\ Store!BeginUpdate(c, Store!Unset({}))
  /\ Spend("disturbances")
  /\ UNCHANGED <<wire, wanted, excuse>>

------------------------------------------------------------------------------
(* The answers of the store.                                               *)

\* Mutant of GetAll: only the confirmed subscriptions are taken up again.
GetAllConfirmed(c) ==
  /\ At(c, "reSubscribe", "getAll")
  /\ Moves(c, Task("reSubscribe", "delete",
                   {id \in Ids : subs[id] \notin {NoSub, Pending}}, Nobody, 0))
  /\ UNCHANGED <<stored, wire, wanted, excuse, budget>>

\* #reSubscribe: getAll answers.
GetAll(c) ==
  /\ At(c, "reSubscribe", "getAll")
  /\ Moves(c, Task("reSubscribe", "delete",
                   {id \in Ids : subs[id] # NoSub}, Nobody, 0))
  /\ UNCHANGED <<stored, wire, wanted, excuse, budget>>

\* subscribe: getById answers one of the calls of task c.  A call that goes on
\* becomes a task of its own, d, unless it is the last one.
LookupToSubscribe(c, d, id) ==
  LET rest == task[c].ids \ {id}
      waiting == IF rest = {} THEN Idle
                 ELSE Task("subscribe", "lookup", rest, Nobody, 0)
      next == Task("subscribe", IF subs[id] = NoSub THEN "save" ELSE "delete",
                   {id}, Nobody, 0)
  IN /\ At(c, "subscribe", "lookup")
     /\ id \in task[c].ids
     /\ \/ /\ subs[id] \notin {NoSub, Pending}
           /\ d = c
           /\ Moves(c, waiting)
        \/ /\ subs[id] \in {NoSub, Pending}
           /\ IF rest = {} THEN d = c ELSE task[d] = Idle
           /\ task' = [task EXCEPT ![c] = waiting, ![d] = next]
     /\ UNCHANGED <<stored, wire, wanted, excuse, budget>>

\* Mutant of LookupToUnsubscribe: a pending subscription is not deleted.
LookupToUnsubscribeConfirmed(c) ==
  /\ At(c, "unsubscribe", "lookup")
  /\ \E id \in task[c].ids :
       \/ subs[id] \in {NoSub, Pending} /\ Ends(c)
       \/ /\ subs[id] \notin {NoSub, Pending}
          /\ Moves(c, Task("unsubscribe", "find", {id}, subs[id].rpc, 0))
  /\ UNCHANGED <<stored, wire, wanted, excuse, budget>>

\* unsubscribe: getById answers.
LookupToUnsubscribe(c) ==
  /\ At(c, "unsubscribe", "lookup")
  /\ \E id \in task[c].ids :
       \/ subs[id] = NoSub /\ Ends(c)
       \/ subs[id] = Pending /\ Goes(c, "delete")
       \/ /\ subs[id] \notin {NoSub, Pending}
          /\ Moves(c, Task("unsubscribe", "find", {id}, subs[id].rpc, 0))
  /\ UNCHANGED <<stored, wire, wanted, excuse, budget>>

\* #handleSubscriptionConfirmation: getById answers.
LookupToConfirm(c) ==
  /\ At(c, "confirm", "lookup")
  /\ \E id \in task[c].ids :
       IF subs[id] = Pending THEN Goes(c, "save") ELSE Ends(c)
  /\ UNCHANGED <<stored, wire, wanted, excuse, budget>>

\* #handleFailure: getById answers.
LookupToFail(c) ==
  /\ At(c, "fail", "lookup")
  /\ \E id \in task[c].ids :
       IF subs[id] = Pending THEN Goes(c, "delete") ELSE Ends(c)
  /\ UNCHANGED <<stored, wire, wanted, excuse, budget>>

\* delete and deleteMany: the first request of State.update answers.
ReadState(c) ==
  /\ task[c] # Idle /\ task[c].at = "delete"
  /\ Store!BeginUpdate(c, Store!Unset(task[c].ids))
  /\ Goes(c, "write")
  /\ UNCHANGED <<wire, wanted, excuse, budget>>

\* What follows the second request of State.update: subscribe saves, and
\* #reSubscribe calls subscribe for every id.
AfterWrite(c) ==
  CASE task[c].op = "subscribe" -> Goes(c, "save")
    [] task[c].op = "reSubscribe" /\ task[c].ids # {} ->
         Moves(c, Task("subscribe", "lookup", task[c].ids, Nobody, 0))
    [] OTHER -> Ends(c)

\* The second request of State.update answers.
WriteState(c) ==
  /\ task[c] # Idle /\ task[c].at = "write"
  /\ Store!FinishUpdate(c)
  /\ AfterWrite(c)
  /\ Excuse({id \in Ids \ task[c].ids : subs'[id] # subs[id]}, "clobbered")
  /\ UNCHANGED <<wire, wanted, budget>>

\* subscribe: the pending record is saved.
SavePending(c) ==
  /\ At(c, "subscribe", "save")
  /\ \E id \in task[c].ids : Store!Write(id, Pending)
  /\ Goes(c, "find")
  /\ UNCHANGED <<wire, wanted, excuse, budget>>

\* #handleSubscriptionConfirmation: the confirmed record is saved.
SaveConfirmed(c) ==
  /\ At(c, "confirm", "save")
  /\ \E id \in task[c].ids : Store!Write(id, Confirmed(task[c].rpc))
  /\ Ends(c)
  /\ Excuse(IF link = "open" /\ conn = task[c].conn THEN {} ELSE task[c].ids,
            "lateConfirmation")
  /\ UNCHANGED <<wire, wanted, budget>>

------------------------------------------------------------------------------
(* The connection and the server.                                          *)

\* findByNetwork answers: a socket that is still connecting counts.
Find(c) ==
  /\ task[c] # Idle /\ task[c].at = "find"
  /\ IF link # "down"
       THEN Moves(c, Task(task[c].op, "send", task[c].ids, task[c].rpc, conn))
       ELSE IF task[c].op = "unsubscribe" THEN Goes(c, "delete") ELSE Ends(c)
  /\ UNCHANGED <<stored, wire, wanted, excuse, budget>>

Reachable(c) == link = "open" /\ conn = task[c].conn

\* #sendMessage of subscribe: the server accepts the request.
Accept(c) ==
  /\ At(c, "subscribe", "send")
  /\ Reachable(c)
  /\ Ends(c)
  /\ \E id \in task[c].ids, rpc \in RpcIds :
       /\ live[rpc] = Nobody
       /\ live' = [live EXCEPT ![rpc] = id]
       /\ inbox' = inbox \cup {[type |-> "confirm", id |-> id, rpc |-> rpc]}
  /\ UNCHANGED <<stored, link, conn, opened, wanted, excuse, budget>>

\* #sendMessage of subscribe: the server answers with an error.
Refuse(c) ==
  /\ At(c, "subscribe", "send")
  /\ Reachable(c)
  /\ Ends(c)
  /\ \E id \in task[c].ids :
       inbox' = inbox \cup {[type |-> "fail", id |-> id, rpc |-> Nobody]}
  /\ Excuse(task[c].ids, "refused")
  /\ UNCHANGED <<stored, link, conn, opened, live, wanted, budget>>

\* #sendMessage of unsubscribe: the server drops whatever has that rpc id.  Its
\* answer names no subscription.
Cancel(c) ==
  /\ At(c, "unsubscribe", "send")
  /\ Reachable(c)
  /\ Goes(c, "delete")
  /\ live' = [live EXCEPT ![task[c].rpc] = Nobody]
  /\ Excuse(({live[task[c].rpc]} \ task[c].ids)
              \cup {m.id : m \in {n \in inbox : n.rpc = task[c].rpc}}, "cancelled")
  /\ UNCHANGED <<stored, link, conn, opened, inbox, wanted, budget>>

\* #sendMessage is rejected by the host: subscribe leaves its pending record,
\* and unsubscribe throws before it deletes.
SendFails(c) ==
  /\ task[c] # Idle /\ task[c].at = "send"
  /\ ~Reachable(c)
  /\ Ends(c)
  /\ Excuse(IF task[c].op = "unsubscribe" THEN task[c].ids ELSE {}, "unsent")
  /\ UNCHANGED <<stored, wire, wanted, budget>>

Connect ==
  /\ link = "down"
  /\ conn < MaxConnections
  /\ link' = "connecting"
  /\ conn' = conn + 1
  /\ UNCHANGED <<stored, task, opened, inbox, live, wanted, excuse, budget>>

Establish ==
  /\ link = "connecting"
  /\ link' = "open"
  /\ opened' = TRUE
  /\ UNCHANGED <<stored, task, conn, inbox, live, wanted, excuse, budget>>

\* The connection is lost with everything on it: events of a socket that is
\* gone are ignored, since findById does not find it.
Lost ==
  /\ link' = "down"
  /\ opened' = FALSE
  /\ inbox' = {}
  /\ live' = [r \in RpcIds |-> Nobody]
  /\ UNCHANGED conn

Drop ==
  /\ link # "down"
  /\ conn < MaxConnections
  /\ Lost
  /\ UNCHANGED <<stored, task, wanted, excuse, budget>>

\* The snap restarts: its tasks are lost, and its connection.
Restart ==
  /\ conn < MaxConnections
  /\ Spend("disturbances")
  /\ Lost
  /\ task' = [c \in Calls |-> Idle]
  /\ update' = [c \in Calls |-> Store!Idle]
  /\ Excuse(UNION {task[c].ids : c \in {d \in Calls : task[d] # Idle}},
            "interrupted")
  /\ UNCHANGED <<subs, wanted>>

Step ==
  \/ \E c \in Calls :
       \/ \E id \in Ids : \/ Subscribe(c, id)
                          \/ Unsubscribe(c, id)
                          \/ \E d \in Calls : LookupToSubscribe(c, d, id)
       \/ Recover(c)
       \/ \E m \in inbox : Receive(c, m)
       \/ UpdateOther(c)
       \/ GetAll(c)
       \/ LookupToUnsubscribe(c)
       \/ LookupToConfirm(c)
       \/ LookupToFail(c)
       \/ ReadState(c)
       \/ WriteState(c)
       \/ SavePending(c)
       \/ SaveConfirmed(c)
       \/ Find(c)
       \/ Accept(c)
       \/ Refuse(c)
       \/ Cancel(c)
       \/ SendFails(c)
  \/ Connect
  \/ Establish
  \/ Drop
  \/ Restart

Next == Step /\ raced' = raced \cup Contended'

Spec == Init /\ [][Next]_vars

------------------------------------------------------------------------------
(* Properties.                                                             *)

Excused(id) == excuse[id] # {} \/ id \in raced

\* Nothing is in flight.
Quiet ==
  /\ \A c \in Calls : task[c] = Idle
  /\ inbox = {}
  /\ ~opened

\* #routeNotification: the records a notification with this rpc id may go to.
FindByRpcId(rpc) == {id \in Ids : subs[id] = Confirmed(rpc)}

\* The server notifies id, and its notifications are routed to no other record.
Heard(id) == \E rpc \in RpcIds : live[rpc] = id /\ FindByRpcId(rpc) = {id}

\* An excused record may hold a number of an earlier connection that is now
\* the one of id, and get its notifications instead.
Shadowed(id) ==
  \E rpc \in RpcIds : /\ live[rpc] = id
                      /\ id \in FindByRpcId(rpc)
                      /\ \A other \in FindByRpcId(rpc) \ {id} : Excused(other)

\* Whatever the order of confirmations, losses of the connection, overlapping
\* calls and re-subscriptions, once all is quiet on an open connection every
\* subscription the monitors hold is heard, or one of the known reasons says
\* why not (subscribe, #reSubscribe, #handleSubscriptionConfirmation).
HeardUnlessExcused ==
  Quiet /\ link = "open" => 
    \A id \in wanted : Heard(id) \/ Shadowed(id) \/ Excused(id)

\* A subscription that was given up leaves no record behind, which a later
\* #reSubscribe would bring to life again (unsubscribe, #handleFailure). It may be live
\* all the same until the connection ends: nothing is sent to unsubscribe one that is not
\* confirmed, and the notifications the server goes on sending are routed to no record.
GoneUnlessExcused ==
  Quiet => \A id \in Ids \ wanted : subs[id] = NoSub \/ Excused(id)

==============================================================================
