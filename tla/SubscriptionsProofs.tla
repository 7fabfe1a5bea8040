------------------------- MODULE SubscriptionsProofs -------------------------
(***************************************************************************)
(* Proofs about Subscriptions, for any number of subscriptions, calls,     *)
(* connections and numbers of the server: its state has the declared       *)
(* types, and all it does to the persisted state are steps of the store    *)
(* as SnapState describes it.                                              *)
(***************************************************************************)
EXTENDS Subscriptions, TLAPS

------------------------------------------------------------------------------
(* The store.                                                              *)

\* What an update holds is a document and a patch.
LEMMA HeldUpdate ==
  ASSUME Store!StoreTypeOK, NEW c \in Calls, update[c] # Store!Idle
  PROVE  update[c].snapshot \in Store!Document /\ update[c].patch \in Store!Patches
BY DEF Store!StoreTypeOK, Store!Pending

\* Deleting subscriptions, even none, is a patch.
LEMMA UnsetType ==
  ASSUME NEW ids \in SUBSET Ids
  PROVE  Store!Unset(ids) \in Store!Patches
<1>1. Store!Unset(ids) \in [ids -> Records \cup {NoSub}]
  BY DEF Store!Unset
<1> QED BY <1>1 DEF Store!Patches

\* Patching a table of records gives a table of records.
LEMMA ApplyType ==
  ASSUME NEW d \in Store!Document, NEW p \in Store!Patches
  PROVE  Store!Apply(p, d) \in Store!Document
<1>1. PICK targets \in SUBSET Ids : p \in [targets -> Records \cup {NoSub}]
  BY DEF Store!Patches
<1>2. ASSUME NEW id \in Ids
      PROVE  (IF id \in DOMAIN p THEN p[id] ELSE d[id]) \in Records \cup {NoSub}
  BY <1>1 DEF Store!Document
<1> QED BY <1>2 DEF Store!Apply, Store!Document

\* The steps of the store keep its types.
LEMMA StoreKept == Store!StoreTypeOK /\ [Store!StoreNext]_(Store!stored) => Store!StoreTypeOK'
<1> SUFFICES ASSUME Store!StoreTypeOK, [Store!StoreNext]_(Store!stored) PROVE Store!StoreTypeOK'
  OBVIOUS
<1>1. ASSUME NEW id \in Ids, NEW r \in Records, Store!Write(id, r)
      PROVE  Store!StoreTypeOK'
  BY <1>1 DEF Store!Write, Store!StoreTypeOK, Store!Document
<1>2. ASSUME NEW c \in Calls, NEW p \in Store!Patches, Store!BeginUpdate(c, p)
      PROVE  Store!StoreTypeOK'
  <2>1. [phase |-> "write", snapshot |-> subs, patch |-> p] \in Store!Pending
    BY DEF Store!StoreTypeOK, Store!Pending
  <2> QED BY <1>2, <2>1 DEF Store!BeginUpdate, Store!StoreTypeOK
<1>3. ASSUME NEW c \in Calls, Store!FinishUpdate(c) PROVE Store!StoreTypeOK'
  <2>1. subs' \in Store!Document
    BY <1>3, HeldUpdate, ApplyType DEF Store!FinishUpdate
  <2> QED BY <1>3, <2>1 DEF Store!FinishUpdate, Store!StoreTypeOK
<1>4. ASSUME NEW lost \in SUBSET Calls, Store!Abandon(lost) PROVE Store!StoreTypeOK'
  BY <1>4 DEF Store!Abandon, Store!StoreTypeOK
<1>5. CASE UNCHANGED Store!stored
  BY <1>5 DEF Store!stored, Store!StoreTypeOK
<1> QED BY <1>1, <1>2, <1>3, <1>4, <1>5 DEF Store!StoreNext

------------------------------------------------------------------------------
(* Types.                                                                  *)

\* The types of everything but the store.
ServiceTypes ==
  /\ task \in [Calls -> {Idle} \cup Tasks]
  /\ link \in {"down", "connecting", "open"}
  /\ conn \in 0..MaxConnections
  /\ opened \in BOOLEAN
  /\ inbox \subseteq Answers
  /\ live \in [RpcIds -> Ids \cup {Nobody}]
  /\ wanted \subseteq Ids
  /\ excuse \in [Ids -> SUBSET Excuses]
  /\ budget \in [requests : 0..MaxRequests, disturbances : 0..MaxDisturbances]

\* TypeOK is the conjunction of its parts.
LEMMA TypesByPart == TypeOK <=> Store!StoreTypeOK /\ ServiceTypes /\ raced \subseteq Ids
BY DEF TypeOK, ServiceTypes

\* A call that goes on.
LEMMA Tasked ==
  ASSUME NEW op \in Operations, NEW at \in Awaits, NEW ids \in SUBSET Ids,
         NEW rpc \in RpcIds \cup {Nobody}, NEW on \in 0..MaxConnections,
         op = "confirm" => rpc \in RpcIds
  PROVE  Task(op, at, ids, rpc, on) \in Tasks
BY DEF Task, Tasks

\* A task of the service is one of Tasks.
LEMMA HeldTask ==
  ASSUME ServiceTypes, NEW c \in Calls, task[c] # Idle
  PROVE  /\ task[c].op \in Operations /\ task[c].at \in Awaits
         /\ task[c].ids \in SUBSET Ids /\ task[c].rpc \in RpcIds \cup {Nobody}
         /\ task[c].conn \in 0..MaxConnections
         /\ task[c].op = "confirm" => task[c].rpc \in RpcIds
BY DEF ServiceTypes, Tasks

\* A call that goes on to an operation has the declared type.
LEMMA GoesTypes ==
  ASSUME ServiceTypes, NEW c \in Calls, task[c] # Idle, NEW at \in Awaits, Goes(c, at)
  PROVE  task' \in [Calls -> {Idle} \cup Tasks]
<1>1. Task(task[c].op, at, task[c].ids, task[c].rpc, task[c].conn) \in Tasks
  BY HeldTask, Tasked
<1> QED BY <1>1 DEF Goes, Moves, ServiceTypes

\* So has one that goes on to its next await.
LEMMA MovesTypes ==
  ASSUME ServiceTypes, NEW c \in Calls, NEW t \in Tasks
  PROVE  /\ Moves(c, t) => task' \in [Calls -> {Idle} \cup Tasks]
         /\ Ends(c) => task' \in [Calls -> {Idle} \cup Tasks]
BY DEF Moves, Ends, ServiceTypes

\* So has one that ends.
LEMMA EndsTypes ==
  ASSUME ServiceTypes, NEW c \in Calls, Ends(c)
  PROVE  task' \in [Calls -> {Idle} \cup Tasks]
BY DEF Moves, Ends, ServiceTypes

\* A reason that is noted is one of the reasons.
LEMMA ExcuseTypes ==
  ASSUME ServiceTypes, NEW ids, NEW why \in Excuses, Excuse(ids, why)
  PROVE  excuse' \in [Ids -> SUBSET Excuses]
BY DEF Excuse, ServiceTypes

\* What is spent stays within its bound.
LEMMA SpendTypes ==
  ASSUME ServiceTypes, NEW what \in {"requests", "disturbances"}, Spend(what)
  PROVE  budget' \in [requests : 0..MaxRequests, disturbances : 0..MaxDisturbances]
BY BoundsAssumption DEF Spend, ServiceTypes

\* The operations, awaits and reasons that the actions name are such.
LEMMA Names ==
  /\ Operations = {"subscribe", "unsubscribe", "confirm", "fail", "reSubscribe", "other"}
  /\ Awaits = {"lookup", "getAll", "delete", "write", "save", "find", "send"}
  /\ Excuses = {"refused", "clobbered", "lateConfirmation", "cancelled", "unsent",
                "interrupted"}
  /\ 0 \in 0..MaxConnections
BY BoundsAssumption DEF Operations, Awaits, Excuses

\* The calls of the monitors and the events that start a task.
LEMMA StartTypes ==
  ASSUME TypeOK, NEW c \in Calls
  PROVE  /\ \A id \in Ids : Subscribe(c, id) \/ Unsubscribe(c, id) =>
                             ServiceTypes' /\ UNCHANGED stored
         /\ Recover(c) => ServiceTypes' /\ UNCHANGED stored
         /\ \A m \in inbox : Receive(c, m) => ServiceTypes' /\ UNCHANGED stored
         /\ UpdateOther(c) => ServiceTypes' /\ Store!StoreNext
<1> USE TypesByPart
<1>1. ASSUME NEW id \in Ids, Subscribe(c, id) \/ Unsubscribe(c, id)
      PROVE  ServiceTypes' /\ UNCHANGED stored
  <2>1. /\ Task("subscribe", "lookup", {id}, Nobody, 0) \in Tasks
        /\ Task("unsubscribe", "lookup", {id}, Nobody, 0) \in Tasks
    BY Tasked, Names
  <2>2. task' \in [Calls -> {Idle} \cup Tasks]
    BY <1>1, <2>1, MovesTypes DEF Subscribe, Unsubscribe
  <2>3. budget' \in [requests : 0..MaxRequests, disturbances : 0..MaxDisturbances]
    BY <1>1, SpendTypes DEF Subscribe, Unsubscribe
  <2> QED BY <1>1, <2>2, <2>3 DEF Subscribe, Unsubscribe, ServiceTypes, wire, stored
<1>2. ASSUME Recover(c) PROVE ServiceTypes' /\ UNCHANGED stored
  <2>1. Task("reSubscribe", "getAll", {}, Nobody, 0) \in Tasks
    BY Tasked, Names
  <2>2. task' \in [Calls -> {Idle} \cup Tasks]
    BY <1>2, <2>1, MovesTypes DEF Recover
  <2> QED BY <1>2, <2>2 DEF Recover, ServiceTypes, stored
<1>3. ASSUME NEW m \in inbox, Receive(c, m) PROVE ServiceTypes' /\ UNCHANGED stored
  <2>1. /\ m.type \in {"confirm", "fail"} /\ m.id \in Ids /\ m.rpc \in RpcIds \cup {Nobody}
        /\ m.type = "confirm" => m.rpc \in RpcIds
    BY DEF ServiceTypes, Answers
  <2>2. Task(m.type, "lookup", {m.id}, m.rpc, conn) \in Tasks
    BY <2>1, Tasked, Names DEF ServiceTypes
  <2>3. task' \in [Calls -> {Idle} \cup Tasks]
    BY <1>3, <2>2, MovesTypes DEF Receive
  <2> QED BY <1>3, <2>3 DEF Receive, ServiceTypes, stored
<1>4. ASSUME UpdateOther(c) PROVE ServiceTypes' /\ Store!StoreNext
  <2>1. Task("other", "write", {}, Nobody, 0) \in Tasks
    BY Tasked, Names
  <2>2. task' \in [Calls -> {Idle} \cup Tasks]
    BY <1>4, <2>1, MovesTypes DEF UpdateOther
  <2>3. budget' \in [requests : 0..MaxRequests, disturbances : 0..MaxDisturbances]
    BY <1>4, SpendTypes DEF UpdateOther
  <2>4. Store!StoreNext
    BY <1>4, UnsetType DEF UpdateOther, Store!StoreNext
  <2> QED BY <1>4, <2>2, <2>3, <2>4 DEF UpdateOther, ServiceTypes, wire
<1> QED BY <1>1, <1>2, <1>3, <1>4

\* The answers of the store that only move a call on.
LEMMA LookupTypes ==
  ASSUME TypeOK, NEW c \in Calls,
         \/ GetAll(c) \/ LookupToUnsubscribe(c) \/ LookupToConfirm(c) \/ LookupToFail(c)
         \/ \E d \in Calls, id \in Ids : LookupToSubscribe(c, d, id)
  PROVE  ServiceTypes' /\ UNCHANGED stored
<1> USE TypesByPart
<1> SUFFICES task' \in [Calls -> {Idle} \cup Tasks]
  BY DEF GetAll, LookupToUnsubscribe, LookupToConfirm, LookupToFail, LookupToSubscribe,
         ServiceTypes, wire
<1>1. ASSUME GetAll(c) PROVE task' \in [Calls -> {Idle} \cup Tasks]
  <2>1. Task("reSubscribe", "delete", {id \in Ids : subs[id] # NoSub}, Nobody, 0) \in Tasks
    BY Tasked, Names
  <2> QED BY <1>1, <2>1, MovesTypes DEF GetAll
<1>2. ASSUME LookupToUnsubscribe(c) PROVE task' \in [Calls -> {Idle} \cup Tasks]
  <2>1. PICK id \in task[c].ids :
          \/ Ends(c)
          \/ Goes(c, "delete")
          \/ /\ subs[id] \notin {NoSub, Pending}
             /\ Moves(c, Task("unsubscribe", "find", {id}, subs[id].rpc, 0))
    BY <1>2 DEF LookupToUnsubscribe
  <2>2. task[c] # Idle /\ id \in Ids
    BY <1>2, HeldTask DEF LookupToUnsubscribe, At
  <2>3. subs[id] \notin {NoSub, Pending} => subs[id].rpc \in RpcIds
    BY <2>2 DEF Store!StoreTypeOK, Store!Document, Records, Confirmed
  <2>4. subs[id] \notin {NoSub, Pending} =>
          Task("unsubscribe", "find", {id}, subs[id].rpc, 0) \in Tasks
    BY <2>2, <2>3, Tasked, Names
  <2> QED BY <2>1, <2>2, <2>4, Names, MovesTypes, EndsTypes, GoesTypes
<1>3. ASSUME LookupToConfirm(c) \/ LookupToFail(c) PROVE task' \in [Calls -> {Idle} \cup Tasks]
  <2>1. task[c] # Idle /\ (Ends(c) \/ Goes(c, "save") \/ Goes(c, "delete"))
    BY <1>3 DEF LookupToConfirm, LookupToFail, At
  <2> QED BY <2>1, Names, EndsTypes, GoesTypes
<1>4. ASSUME NEW d \in Calls, NEW id \in Ids, LookupToSubscribe(c, d, id)
      PROVE  task' \in [Calls -> {Idle} \cup Tasks]
  <2> DEFINE rest == task[c].ids \ {id}
  <2> DEFINE waiting == IF rest = {} THEN Idle ELSE Task("subscribe", "lookup", rest, Nobody, 0)
  <2> DEFINE next == Task("subscribe", IF subs[id] = NoSub THEN "save" ELSE "delete",
                          {id}, Nobody, 0)
  <2>1. rest \in SUBSET Ids
    BY <1>4, HeldTask DEF LookupToSubscribe, At
  <2>2. waiting \in {Idle} \cup Tasks /\ next \in Tasks
    BY <2>1, Tasked, Names
  <2>3. Moves(c, waiting) \/ task' = [task EXCEPT ![c] = waiting, ![d] = next]
    BY <1>4 DEF LookupToSubscribe
  <2> HIDE DEF rest, waiting, next
  <2> QED BY <2>2, <2>3 DEF Moves, ServiceTypes
<1> QED BY <1>1, <1>2, <1>3, <1>4

\* The steps that read or write the slice.
LEMMA StoreStepTypes ==
  ASSUME TypeOK, NEW c \in Calls,
         ReadState(c) \/ WriteState(c) \/ SavePending(c) \/ SaveConfirmed(c)
  PROVE  ServiceTypes' /\ Store!StoreNext
<1> USE TypesByPart
<1>1. ASSUME ReadState(c) PROVE ServiceTypes' /\ Store!StoreNext
  <2>1. task[c] # Idle
    BY <1>1 DEF ReadState
  <2>2. Store!StoreNext
    BY <1>1, <2>1, HeldTask, UnsetType DEF ReadState, Store!StoreNext
  <2>3. task' \in [Calls -> {Idle} \cup Tasks]
    BY <1>1, <2>1, Names, GoesTypes DEF ReadState
  <2> QED BY <1>1, <2>2, <2>3 DEF ReadState, ServiceTypes, wire
<1>2. ASSUME WriteState(c) PROVE ServiceTypes' /\ Store!StoreNext
  <2>1. task[c] # Idle /\ AfterWrite(c)
    BY <1>2 DEF WriteState
  <2>2. Store!StoreNext
    BY <1>2 DEF WriteState, Store!StoreNext
  <2>3. Task("subscribe", "lookup", task[c].ids, Nobody, 0) \in Tasks
    BY <2>1, HeldTask, Tasked, Names
  <2>4. \/ Goes(c, "save") \/ Ends(c)
        \/ Moves(c, Task("subscribe", "lookup", task[c].ids, Nobody, 0))
    BY <2>1 DEF AfterWrite
  <2>5. task' \in [Calls -> {Idle} \cup Tasks]
    BY <2>1, <2>3, <2>4, Names, GoesTypes, EndsTypes, MovesTypes
  <2>6. excuse' \in [Ids -> SUBSET Excuses]
    BY <1>2, Names, ExcuseTypes DEF WriteState
  <2> QED BY <1>2, <2>2, <2>5, <2>6 DEF WriteState, ServiceTypes, wire
<1>3. ASSUME SavePending(c) PROVE ServiceTypes' /\ Store!StoreNext
  <2>1. task[c] # Idle /\ Pending \in Records
    BY <1>3 DEF SavePending, At, Records
  <2>2. Store!StoreNext
    BY <1>3, <2>1, HeldTask DEF SavePending, Store!StoreNext
  <2>3. task' \in [Calls -> {Idle} \cup Tasks]
    BY <1>3, <2>1, Names, GoesTypes DEF SavePending
  <2> QED BY <1>3, <2>2, <2>3 DEF SavePending, ServiceTypes, wire
<1>4. ASSUME SaveConfirmed(c) PROVE ServiceTypes' /\ Store!StoreNext
  <2>1. task[c] # Idle
    BY <1>4 DEF SaveConfirmed, At
  <2>2. Store!StoreNext
    <3>1. Confirmed(task[c].rpc) \in Records
      BY <1>4, <2>1, HeldTask DEF SaveConfirmed, At, Records
    <3> QED BY <1>4, <2>1, <3>1, HeldTask DEF SaveConfirmed, Store!StoreNext
  <2>3. task' \in [Calls -> {Idle} \cup Tasks]
    BY <1>4, EndsTypes DEF SaveConfirmed
  <2>4. excuse' \in [Ids -> SUBSET Excuses]
    BY <1>4, Names, ExcuseTypes DEF SaveConfirmed
  <2> QED BY <1>4, <2>2, <2>3, <2>4 DEF SaveConfirmed, ServiceTypes, wire
<1> QED BY <1>1, <1>2, <1>3, <1>4

\* The connection and the server.
LEMMA ServerTypes ==
  ASSUME TypeOK, NEW c \in Calls,
         Find(c) \/ Accept(c) \/ Refuse(c) \/ Cancel(c) \/ SendFails(c)
  PROVE  ServiceTypes' /\ UNCHANGED stored
<1> USE TypesByPart
<1>1. ASSUME Find(c) PROVE ServiceTypes' /\ UNCHANGED stored
  <2>1. task[c] # Idle
    BY <1>1 DEF Find
  <2>2. Task(task[c].op, "send", task[c].ids, task[c].rpc, conn) \in Tasks
    BY <2>1, HeldTask, Tasked, Names DEF ServiceTypes
  <2>3. \/ Moves(c, Task(task[c].op, "send", task[c].ids, task[c].rpc, conn))
        \/ Goes(c, "delete") \/ Ends(c)
    BY <1>1 DEF Find
  <2>4. task' \in [Calls -> {Idle} \cup Tasks]
    BY <2>1, <2>2, <2>3, Names, GoesTypes, EndsTypes, MovesTypes
  <2> QED BY <1>1, <2>4 DEF Find, ServiceTypes, wire
<1>2. ASSUME Accept(c) PROVE ServiceTypes' /\ UNCHANGED stored
  <2>1. task[c] # Idle
    BY <1>2 DEF Accept, At
  <2>2. PICK id \in task[c].ids, rpc \in RpcIds :
          /\ live' = [live EXCEPT ![rpc] = id]
          /\ inbox' = inbox \cup {[type |-> "confirm", id |-> id, rpc |-> rpc]}
    BY <1>2 DEF Accept
  <2>3. id \in Ids
    BY <2>1, HeldTask
  <2>4. live' \in [RpcIds -> Ids \cup {Nobody}] /\ inbox' \subseteq Answers
    BY <2>2, <2>3 DEF ServiceTypes, Answers
  <2>5. task' \in [Calls -> {Idle} \cup Tasks]
    BY <1>2, EndsTypes DEF Accept
  <2> QED BY <1>2, <2>4, <2>5 DEF Accept, ServiceTypes
<1>3. ASSUME Refuse(c) PROVE ServiceTypes' /\ UNCHANGED stored
  <2>1. task[c] # Idle
    BY <1>3 DEF Refuse, At
  <2>2. PICK id \in task[c].ids :
          inbox' = inbox \cup {[type |-> "fail", id |-> id, rpc |-> Nobody]}
    BY <1>3 DEF Refuse
  <2>3. inbox' \subseteq Answers
    BY <2>1, <2>2, HeldTask DEF ServiceTypes, Answers
  <2>4. task' \in [Calls -> {Idle} \cup Tasks]
    BY <1>3, EndsTypes DEF Refuse
  <2>5. excuse' \in [Ids -> SUBSET Excuses]
    BY <1>3, Names, ExcuseTypes DEF Refuse
  <2> QED BY <1>3, <2>3, <2>4, <2>5 DEF Refuse, ServiceTypes
<1>4. ASSUME Cancel(c) PROVE ServiceTypes' /\ UNCHANGED stored
  <2>1. task[c] # Idle
    BY <1>4 DEF Cancel, At
  <2>2. live' \in [RpcIds -> Ids \cup {Nobody}]
    BY <1>4 DEF Cancel, ServiceTypes
  <2>3. task' \in [Calls -> {Idle} \cup Tasks]
    BY <1>4, <2>1, Names, GoesTypes DEF Cancel
  <2>4. excuse' \in [Ids -> SUBSET Excuses]
    BY <1>4, Names, ExcuseTypes DEF Cancel
  <2> QED BY <1>4, <2>2, <2>3, <2>4 DEF Cancel, ServiceTypes
<1>5. ASSUME SendFails(c) PROVE ServiceTypes' /\ UNCHANGED stored
  <2>1. task' \in [Calls -> {Idle} \cup Tasks]
    BY <1>5, EndsTypes DEF SendFails
  <2>2. excuse' \in [Ids -> SUBSET Excuses]
    BY <1>5, Names, ExcuseTypes DEF SendFails
  <2> QED BY <1>5, <2>1, <2>2 DEF SendFails, ServiceTypes, wire
<1> QED BY <1>1, <1>2, <1>3, <1>4, <1>5

\* The connection, and the host that stops the snap.
LEMMA LinkTypes ==
  ASSUME TypeOK, Connect \/ Establish \/ Drop \/ Restart
  PROVE  ServiceTypes' /\ [Store!StoreNext]_(Store!stored)
<1> USE TypesByPart
<1>1. ASSUME Connect \/ Establish PROVE ServiceTypes' /\ UNCHANGED stored
  <2>1. /\ link' \in {"down", "connecting", "open"}
        /\ opened' \in BOOLEAN
        /\ UNCHANGED <<stored, task, inbox, live, wanted, excuse, budget>>
    BY <1>1 DEF Connect, Establish, ServiceTypes
  <2>2. conn' \in 0..MaxConnections
    BY <1>1, BoundsAssumption DEF Connect, Establish, ServiceTypes
  <2> QED BY <2>1, <2>2 DEF ServiceTypes
<1>2. ASSUME Lost
      PROVE  /\ link' \in {"down", "connecting", "open"} /\ conn' = conn
             /\ opened' \in BOOLEAN /\ inbox' \subseteq Answers
             /\ live' \in [RpcIds -> Ids \cup {Nobody}]
  BY <1>2 DEF Lost
<1>3. ASSUME Drop PROVE ServiceTypes' /\ UNCHANGED stored
  BY <1>2, <1>3 DEF Drop, ServiceTypes
<1>4. ASSUME Restart PROVE ServiceTypes' /\ Store!StoreNext
  <2>1. Store!Abandon(Calls)
    BY <1>4 DEF Restart, Store!Abandon
  <2>2. Store!StoreNext
    BY <2>1 DEF Store!StoreNext
  <2>3. budget' \in [requests : 0..MaxRequests, disturbances : 0..MaxDisturbances]
    BY <1>4, SpendTypes DEF Restart
  <2>4. excuse' \in [Ids -> SUBSET Excuses]
    BY <1>4, Names, ExcuseTypes DEF Restart
  <2>5. task' \in [Calls -> {Idle} \cup Tasks]
    BY <1>4 DEF Restart
  <2> QED BY <1>2, <1>4, <2>2, <2>3, <2>4, <2>5 DEF Restart, ServiceTypes
<1> QED BY <1>1, <1>3, <1>4 DEF stored, Store!stored

\* One step per action.
LEMMA StepTypes ==
  ASSUME TypeOK, [Next]_vars
  PROVE  TypeOK' /\ [Store!StoreNext]_(Store!stored)
<1>1. ASSUME Next PROVE ServiceTypes' /\ [Store!StoreNext]_(Store!stored)
  BY <1>1, StartTypes, LookupTypes, StoreStepTypes, ServerTypes, LinkTypes
  DEF Next, Step, stored, Store!stored
<1>2. ASSUME Next PROVE raced' \subseteq Ids
  BY <1>2 DEF Next, Contended, TypeOK
<1>3. ASSUME UNCHANGED vars PROVE TypeOK' /\ UNCHANGED Store!stored
  BY <1>3 DEF vars, stored, wire, TypeOK, Store!StoreTypeOK, Store!stored
<1>4. ASSUME Next PROVE TypeOK'
  <2>1. Store!StoreTypeOK /\ [Store!StoreNext]_(Store!stored)
    BY <1>1, <1>4, TypesByPart
  <2>2. Store!StoreTypeOK'
    BY <2>1, StoreKept
  <2> QED BY <1>1, <1>2, <1>4, <2>2 DEF TypeOK, ServiceTypes
<1> QED BY <1>1, <1>3, <1>4

\* The initial state has the declared types, and is the store's.
LEMMA Initially == Init => TypeOK /\ Store!StoreInit
<1> SUFFICES ASSUME Init PROVE TypeOK /\ Store!StoreInit
  OBVIOUS
<1>1. Store!StoreTypeOK /\ Store!StoreInit
  BY DEF Init, Store!StoreTypeOK, Store!StoreInit, Store!Document
<1>2. ServiceTypes /\ raced \subseteq Ids
  <2>1. conn \in 0..MaxConnections
    BY BoundsAssumption DEF Init
  <2>2. budget \in [requests : 0..MaxRequests, disturbances : 0..MaxDisturbances]
    BY BoundsAssumption DEF Init
  <2> QED BY <2>1, <2>2 DEF Init, ServiceTypes
<1> QED BY <1>1, <1>2, TypesByPart

\* The records, the calls, what the server holds and what is on its way always have the
\* declared types; in particular a confirmation that is saved carries a number.
THEOREM TypeCorrect == Spec => []TypeOK
BY Initially, StepTypes, PTL DEF Spec

\* All that the subscription service does to the persisted state, in whatever order its
\* calls overlap, lose their connection or are cut off by a restart, are steps of the
\* store: what SnapState promises of its updates holds for the slice of subscriptions.
THEOREM ImplementsStore == Spec => Store!StoreSpec
BY Initially, StepTypes, TypeCorrect, PTL DEF Spec, Store!StoreSpec

------------------------------------------------------------------------------
(* The inductive invariant behind both properties.                         *)

About(c, id) == task[c] # Idle /\ id \in task[c].ids
Unsubscribing(c, id) == About(c, id) /\ task[c].op = "unsubscribe"

\* The awaits of each operation, and what the update of a call unsets.
Shapely(c) ==
  /\ task[c].at = "getAll" => task[c].op = "reSubscribe"
  /\ task[c].at = "save" => task[c].op \in {"subscribe", "confirm"}
  /\ task[c].at \in {"find", "send"} => task[c].op \in {"subscribe", "unsubscribe"}
  /\ task[c].at \in {"delete", "write"} => task[c].op # "confirm"
  /\ task[c].op \in {"unsubscribe", "confirm", "fail"} => \E id \in Ids : task[c].ids = {id}
  /\ task[c].op = "subscribe" /\ task[c].at # "lookup" => \E id \in Ids : task[c].ids = {id}
  /\ task[c].op = "other" => task[c].ids = {}
  /\ task[c].at = "write" => /\ update[c] # Store!Idle
                             /\ update[c].patch = Store!Unset(task[c].ids)
WellFormed == \A c \in Calls : task[c] # Idle => Shapely(c)

\* What the server said of id, on its way or being handled, is true of this connection.
Truthful(id) ==
  /\ \A m \in inbox : m.id = id => m.type = "confirm" /\ live[m.rpc] = id
  /\ \A c \in Calls : About(c, id) =>
       /\ task[c].op # "fail"
       /\ task[c].op = "unsubscribe" => id \notin wanted
       /\ task[c].op = "confirm" =>
            /\ task[c].conn <= conn
            /\ link = "connecting" => task[c].conn < conn
            /\ link = "open" /\ task[c].conn = conn => live[task[c].rpc] = id

\* What is not wanted has no record, nor a call in flight that would make one; or a call
\* is about to see to that.
Forgotten(id) ==
  /\ subs[id] = NoSub
  /\ \A c \in Calls : About(c, id) => task[c].op = "confirm" /\ task[c].at = "lookup"
Gone(id) == id \in wanted \/ Forgotten(id) \/ \E c \in Calls : Unsubscribing(c, id)

\* A call that will delete the record and then subscribe again.
Erasing(c, id) ==
  /\ About(c, id)
  /\ task[c].op \in {"subscribe", "reSubscribe"}
  /\ task[c].at \in {"delete", "write"}

\* The record, whatever it says, is going to be renewed.
Renewing(id) ==
  \/ link # "open"
  \/ opened
  \/ \E c \in Calls : At(c, "reSubscribe", "getAll") \/ Erasing(c, id)

\* A call that will save a pending record, and one that will see the server confirm it.
Saving(c, id) ==
  \/ Erasing(c, id)
  \/ About(c, id) /\ task[c].op = "subscribe" /\ task[c].at \in {"lookup", "save"}
Asking(c, id) ==
  /\ About(c, id)
  /\ \/ task[c].op = "subscribe" /\ task[c].at \in {"save", "find"}
     \/ task[c].op = "subscribe" /\ task[c].at = "send" /\ task[c].conn = conn
     \/ task[c].op = "confirm" /\ task[c].conn = conn

\* What is wanted is recorded, or about to be; a pending record waits for something, and a
\* confirmed one is live under its number or about to be renewed.
Recorded(id) == subs[id] = NoSub => \E c \in Calls : Saving(c, id)
Awaited(id) ==
  subs[id] = Pending =>
    \/ Renewing(id)
    \/ \E m \in inbox : m.id = id
    \/ \E c \in Calls : Asking(c, id)
Live(id) == \A rpc \in RpcIds : subs[id] = Confirmed(rpc) => Renewing(id) \/ live[rpc] = id
Kept(id) == id \in wanted => Recorded(id) /\ Awaited(id) /\ Live(id)

Good(id) == Excused(id) \/ (Truthful(id) /\ Gone(id) /\ Kept(id))

IInv ==
  /\ TypeOK
  /\ WellFormed
  /\ Contended \subseteq raced
  /\ inbox # {} => link = "open"
  /\ \A id \in Ids : Good(id)

\* Neither a record nor its number.
LEMMA NoSubIsNoRecord == NoSub # Pending /\ \A rpc \in RpcIds : NoSub # Confirmed(rpc)
BY NoSubAssumption DEF Records

\* At first nobody wants anything and the server knows nothing.
LEMMA GoodInitially == Init => IInv
<1> SUFFICES ASSUME Init PROVE IInv
  OBVIOUS
<1>1. TypeOK
  BY Initially
<1>2. WellFormed /\ Contended \subseteq raced /\ inbox = {}
  BY DEF Init, WellFormed, Contended
<1>3. ASSUME NEW id \in Ids PROVE Good(id)
  BY DEF Init, Good, Truthful, Gone, Forgotten, Kept, About
<1> QED BY <1>1, <1>2, <1>3 DEF IInv

\* What the moves of a call come to.
LEMMA TaskFields ==
  ASSUME NEW op, NEW at, NEW ids, NEW rpc, NEW on
  PROVE  /\ Task(op, at, ids, rpc, on).op = op /\ Task(op, at, ids, rpc, on).at = at
         /\ Task(op, at, ids, rpc, on).ids = ids /\ Task(op, at, ids, rpc, on).rpc = rpc
         /\ Task(op, at, ids, rpc, on).conn = on
         /\ Task(op, at, ids, rpc, on) # Idle
BY DEF Task, Idle

Others(c) == \A d \in Calls \ {c} : task'[d] = task[d]
Becomes(c, op, at, ids, rpc, on) ==
  /\ task'[c] # Idle
  /\ task'[c].op = op /\ task'[c].at = at /\ task'[c].ids = ids
  /\ task'[c].rpc = rpc /\ task'[c].conn = on

\* A call that moves keeps its subscriptions and its connection.
LEMMA MovesTo ==
  ASSUME TypeOK, NEW c \in Calls, NEW op, NEW at, NEW ids, NEW rpc, NEW on,
         Moves(c, Task(op, at, ids, rpc, on))
  PROVE  Others(c) /\ Becomes(c, op, at, ids, rpc, on)
<1>1. Others(c) /\ task'[c] = Task(op, at, ids, rpc, on)
  BY DEF Moves, TypeOK, Others
<1> QED BY <1>1, TaskFields DEF Becomes

\* A call that goes on is at the named await of the named operation.
LEMMA GoesTo ==
  ASSUME TypeOK, NEW c \in Calls, NEW at, Goes(c, at)
  PROVE  Others(c) /\ Becomes(c, task[c].op, at, task[c].ids, task[c].rpc, task[c].conn)
BY MovesTo DEF Goes

\* A call that ends is idle and the others are where they were.
LEMMA EndsAt ==
  ASSUME TypeOK, NEW c \in Calls, Ends(c)
  PROVE  Others(c) /\ task'[c] = Idle
BY DEF Ends, Moves, TypeOK, Others

\* Reasons stay, and an unsubscribe that meets another call about the same id is one.
Steady ==
  /\ \A id \in Ids : Excused(id) => Excused(id)'
  /\ \A id \in Ids, c, d \in Calls :
       c # d /\ Unsubscribing(c, id)' /\ About(d, id)' => Excused(id)'
LEMMA ExcuseGrows ==
  ASSUME TypeOK, NEW ids, NEW why, Excuse(ids, why), NEW id \in Ids
  PROVE  excuse[id] \subseteq excuse'[id] /\ (id \in ids => excuse'[id] # {})
BY DEF Excuse, TypeOK

\* Every step is steady, and what it contends for it records.
LEMMA IsSteady == TypeOK /\ Next => Steady /\ (Contended \subseteq raced)'
<1> SUFFICES ASSUME TypeOK, Next PROVE Steady /\ (Contended \subseteq raced)'
  OBVIOUS
<1>1. Contended' \subseteq raced' /\ raced \subseteq raced'
  BY DEF Next
<1>2. ASSUME NEW id \in Ids PROVE excuse[id] \subseteq excuse'[id]
  <2>1. CASE UNCHANGED excuse
    BY <2>1
  <2>2. ASSUME NEW c \in Calls,
               WriteState(c) \/ SaveConfirmed(c) \/ Refuse(c) \/ Cancel(c) \/ SendFails(c)
        PROVE  excuse[id] \subseteq excuse'[id]
    BY <2>2 DEF WriteState, SaveConfirmed, Refuse, Cancel, SendFails, Excuse
  <2>3. CASE Restart
    BY <2>3 DEF Restart, Excuse
  <2> QED
    BY <2>1, <2>2, <2>3
    DEF Next, Step, Subscribe, Unsubscribe, LookupToSubscribe, Recover, Receive, UpdateOther,
        GetAll, LookupToUnsubscribe, LookupToConfirm, LookupToFail, ReadState, SavePending,
        Find, Accept, Connect, Establish, Drop
<1>3. ASSUME NEW id \in Ids, Excused(id) PROVE Excused(id)'
  BY <1>1, <1>2, <1>3 DEF Excused
<1>4. ASSUME NEW id \in Ids, NEW c \in Calls, NEW d \in Calls,
             c # d, Unsubscribing(c, id)', About(d, id)'
      PROVE  Excused(id)'
  BY <1>1, <1>4 DEF Excused, Contended, Unsubscribing, About
<1> QED BY <1>1, <1>3, <1>4 DEF Steady

\* Unless there is a reason, an unsubscribe is alone with its subscription.
LEMMA Alone ==
  ASSUME IInv, NEW id \in Ids, ~Excused(id), NEW c \in Calls, NEW d \in Calls, c # d,
         Unsubscribing(c, id)
  PROVE  ~About(d, id)
BY DEF IInv, Excused, Contended, Unsubscribing, About

\* What remains to be shown of one subscription.
LEMMA GoodLater ==
  ASSUME IInv, Steady, NEW id \in Ids,
         ~Excused(id)' /\ Truthful(id) /\ Gone(id) /\ Kept(id) /\ ~Excused(id) =>
           Truthful(id)' /\ Gone(id)' /\ Kept(id)'
  PROVE  Good(id)'
BY DEF IInv, Good, Steady

\* What each lemma shows of one action.
Later ==
  /\ WellFormed'
  /\ inbox' # {} => link' = "open"
  /\ \A id \in Ids : Good(id)'

\* subscribe and monitor want a subscription and start its call.
LEMMA SubscribeKeeps ==
  ASSUME IInv, Steady, NEW c \in Calls, NEW i \in Ids, Subscribe(c, i)
  PROVE  Later
<1>1. Others(c) /\ Becomes(c, "subscribe", "lookup", {i}, Nobody, 0)
  BY MovesTo DEF Subscribe, IInv
<1>2. task[c] = Idle /\ wanted' = wanted \cup {i} /\ UNCHANGED <<stored, wire, excuse>>
  BY DEF Subscribe
<1>3. WellFormed'
  BY <1>1, <1>2 DEF IInv, WellFormed, Shapely, Others, Becomes, stored
<1>4. ASSUME NEW id \in Ids, ~Excused(id)', ~Excused(id), Truthful(id), Gone(id), Kept(id)
      PROVE  Truthful(id)' /\ Gone(id)' /\ Kept(id)'
  <2>1. Truthful(id)'
    <3>1. ASSUME id = i, NEW d \in Calls PROVE ~Unsubscribing(d, id)
      BY <1>1, <1>2, <1>4, <3>1 DEF Steady, Others, Becomes, Unsubscribing, About
    <3> QED BY <1>1, <1>2, <1>4, <3>1 DEF Truthful, Others, Becomes, Unsubscribing, About, wire
  <2>2. Gone(id)'
    BY <1>1, <1>2, <1>4 DEF Gone, Forgotten, Others, Becomes, Unsubscribing, About, stored
  <2>3. Kept(id)'
    <3>1. CASE id = i /\ id \notin wanted
      <4>1. \A d \in Calls : ~Unsubscribing(d, id)
        BY <1>1, <1>2, <1>4, <3>1 DEF Steady, Others, Becomes, Unsubscribing, About
      <4>2. subs'[id] = NoSub /\ Saving(c, id)'
        BY <1>1, <1>2, <1>4, <3>1, <4>1
        DEF Gone, Forgotten, Saving, Others, Becomes, About, stored
      <4> QED BY <4>2, NoSubIsNoRecord DEF Kept, Recorded, Awaited, Live
    <3>2. CASE id \in wanted
      <4>1. \A d \in Calls : /\ Saving(d, id) => Saving(d, id)'
                             /\ Asking(d, id) => Asking(d, id)'
        BY <1>1, <1>2 DEF Saving, Asking, Erasing, About, Others, wire
      <4>2. Renewing(id) => Renewing(id)'
        BY <1>1, <1>2 DEF Renewing, Erasing, About, At, Others, wire
      <4> QED BY <1>2, <1>4, <3>2, <4>1, <4>2 DEF Kept, Recorded, Awaited, Live, stored, wire
    <3> QED BY <1>2, <3>1, <3>2 DEF Kept
  <2> QED BY <2>1, <2>2, <2>3
<1> QED BY <1>2, <1>3, <1>4, GoodLater DEF Later, IInv, wire

\* A call moves on, and of what concerns id nothing else changes.
LEMMA Elsewhere ==
  ASSUME NEW c \in Calls, NEW id \in Ids, Others(c), ~About(c, id), ~About(c, id)',
         ~At(c, "reSubscribe", "getAll"),
         subs'[id] = subs[id], UNCHANGED <<wire, wanted>>,
         Truthful(id), Gone(id), Kept(id)
  PROVE  Truthful(id)' /\ Gone(id)' /\ Kept(id)'
<1>1. \A d \in Calls : /\ About(d, id) <=> About(d, id)'
                       /\ About(d, id) => task'[d] = task[d]
  BY DEF Others, About
<1>2. Truthful(id)'
  BY <1>1 DEF Truthful, wire
<1>3. Gone(id)'
  BY <1>1 DEF Gone, Forgotten, Unsubscribing
<1>4. Kept(id)'
  <2>1. \A d \in Calls : /\ Erasing(d, id) => Erasing(d, id)'
                         /\ Saving(d, id) => Saving(d, id)'
                         /\ Asking(d, id) => Asking(d, id)'
    BY <1>1 DEF Saving, Asking, Erasing, wire
  <2>2. \A d \in Calls : At(d, "reSubscribe", "getAll") => At(d, "reSubscribe", "getAll")'
    BY DEF Others, At
  <2>3. Renewing(id) => Renewing(id)'
    BY <2>1, <2>2 DEF Renewing, wire
  <2> QED BY <2>1, <2>3 DEF Kept, Recorded, Awaited, Live, wire
<1> QED BY <1>2, <1>3, <1>4

\* unsubscribe starts to forget one.
LEMMA UnsubscribeKeeps ==
  ASSUME IInv, Steady, NEW c \in Calls, NEW i \in Ids, Unsubscribe(c, i)
  PROVE  Later
<1>1. Others(c) /\ Becomes(c, "unsubscribe", "lookup", {i}, Nobody, 0)
  BY MovesTo DEF Unsubscribe, IInv
<1>2. task[c] = Idle /\ wanted' = wanted \ {i} /\ UNCHANGED <<stored, wire, excuse>>
  BY DEF Unsubscribe
<1>3. WellFormed'
  BY <1>1, <1>2 DEF IInv, WellFormed, Shapely, Others, Becomes, stored
<1>4. ASSUME NEW id \in Ids, ~Excused(id)', ~Excused(id), Truthful(id), Gone(id), Kept(id)
      PROVE  Truthful(id)' /\ Gone(id)' /\ Kept(id)'
  <2>1. Truthful(id)'
    BY <1>1, <1>2, <1>4 DEF Truthful, Others, Becomes, About, wire
  <2>2. Gone(id)'
    BY <1>1, <1>2, <1>4 DEF Gone, Forgotten, Others, Becomes, Unsubscribing, About, stored
  <2>3. Kept(id)'
    <3>1. \A d \in Calls : /\ Saving(d, id) => Saving(d, id)'
                           /\ Asking(d, id) => Asking(d, id)'
      BY <1>1, <1>2 DEF Saving, Asking, Erasing, About, Others, wire
    <3>2. Renewing(id) => Renewing(id)'
      BY <1>1, <1>2 DEF Renewing, Erasing, About, At, Others, wire
    <3> QED BY <1>2, <1>4, <3>1, <3>2 DEF Kept, Recorded, Awaited, Live, stored, wire
  <2> QED BY <2>1, <2>2, <2>3
<1> QED BY <1>2, <1>3, <1>4, GoodLater DEF Later, IInv, wire

\* An opening starts to renew all that are in the records.
LEMMA RecoverKeeps ==
  ASSUME IInv, Steady, NEW c \in Calls, Recover(c)
  PROVE  Later
<1>1. Others(c) /\ Becomes(c, "reSubscribe", "getAll", {}, Nobody, 0)
  BY MovesTo DEF Recover, IInv
<1>2. task[c] = Idle /\ UNCHANGED <<stored, link, conn, inbox, live, wanted, excuse>>
  BY DEF Recover
<1>3. WellFormed'
  BY <1>1, <1>2 DEF IInv, WellFormed, Shapely, Others, Becomes, stored
<1>4. ASSUME NEW id \in Ids, ~Excused(id)', ~Excused(id), Truthful(id), Gone(id), Kept(id)
      PROVE  Truthful(id)' /\ Gone(id)' /\ Kept(id)'
  <2>1. Truthful(id)'
    BY <1>1, <1>2, <1>4 DEF Truthful, Others, Becomes, About
  <2>2. Gone(id)'
    BY <1>1, <1>2, <1>4 DEF Gone, Forgotten, Others, Becomes, Unsubscribing, About, stored
  <2>3. Kept(id)'
    <3>1. \A d \in Calls : /\ Saving(d, id) => Saving(d, id)'
                           /\ Asking(d, id) => Asking(d, id)'
      BY <1>1, <1>2 DEF Saving, Asking, Erasing, About, Others
    <3>2. Renewing(id)'
      BY <1>1 DEF Renewing, At, Becomes
    <3> QED BY <1>2, <1>4, <3>1, <3>2 DEF Kept, Recorded, Awaited, Live, stored
  <2> QED BY <2>1, <2>2, <2>3
<1> QED BY <1>2, <1>3, <1>4, GoodLater DEF Later, IInv

\* An answer becomes a call that has to save or forget it.
LEMMA ReceiveKeeps ==
  ASSUME IInv, Steady, NEW c \in Calls, NEW m \in inbox, Receive(c, m)
  PROVE  Later
<1>1. Others(c) /\ Becomes(c, m.type, "lookup", {m.id}, m.rpc, conn)
  BY MovesTo DEF Receive, IInv
<1>2. /\ task[c] = Idle /\ inbox' = inbox \ {m} /\ link = "open"
      /\ UNCHANGED <<stored, link, conn, opened, live, wanted, excuse>>
  BY DEF Receive, IInv
<1>3. m.type \in {"confirm", "fail"} /\ m.id \in Ids
  BY DEF IInv, TypeOK, Answers
<1>4. WellFormed'
  BY <1>1, <1>2, <1>3 DEF IInv, WellFormed, Shapely, Others, Becomes, stored
<1>5. ASSUME NEW id \in Ids, ~Excused(id)', ~Excused(id), Truthful(id), Gone(id), Kept(id)
      PROVE  Truthful(id)' /\ Gone(id)' /\ Kept(id)'
  <2>1. Truthful(id)'
    <3>1. conn <= conn
      BY DEF IInv, TypeOK
    <3> QED BY <1>1, <1>2, <1>5, <3>1 DEF Truthful, Others, Becomes, About
  <2>2. Gone(id)'
    BY <1>1, <1>2, <1>5 DEF Truthful, Gone, Forgotten, Others, Becomes, Unsubscribing, About, stored
  <2>3. Kept(id)'
    <3>1. \A d \in Calls : /\ Saving(d, id) => Saving(d, id)'
                           /\ Asking(d, id) => Asking(d, id)'
      BY <1>1, <1>2 DEF Saving, Asking, Erasing, About, Others
    <3>2. Renewing(id) => Renewing(id)'
      BY <1>1, <1>2 DEF Renewing, Erasing, About, At, Others
    <3>3. id = m.id => Asking(c, id)'
      BY <1>1, <1>2, <1>5 DEF Truthful, Asking, About, Becomes
    <3> QED BY <1>2, <1>5, <3>1, <3>2, <3>3 DEF Kept, Recorded, Awaited, Live, stored
  <2> QED BY <2>1, <2>2, <2>3
<1> QED BY <1>2, <1>4, <1>5, GoodLater DEF Later

\* An update of another slice leaves the subscriptions alone.
LEMMA UpdateOtherKeeps ==
  ASSUME IInv, Steady, NEW c \in Calls, UpdateOther(c)
  PROVE  Later
<1>1. Others(c) /\ Becomes(c, "other", "write", {}, Nobody, 0)
  BY MovesTo DEF UpdateOther, IInv
<1>2. task[c] = Idle /\ UNCHANGED <<subs, wire, wanted, excuse>>
  BY DEF UpdateOther, Store!BeginUpdate
<1>3. /\ update'[c] # Store!Idle /\ update'[c].patch = Store!Unset({})
      /\ \A d \in Calls \ {c} : update'[d] = update[d]
  BY DEF UpdateOther, Store!BeginUpdate, IInv, TypeOK, Store!StoreTypeOK, Store!Idle
<1>4. WellFormed'
  BY <1>1, <1>3 DEF IInv, WellFormed, Shapely, Others, Becomes
<1>5. ASSUME NEW id \in Ids, ~Excused(id)', ~Excused(id), Truthful(id), Gone(id), Kept(id)
      PROVE  Truthful(id)' /\ Gone(id)' /\ Kept(id)'
  <2>1. ~About(c, id) /\ ~About(c, id)' /\ ~At(c, "reSubscribe", "getAll")
    BY <1>1, <1>2 DEF About, Becomes, At
  <2> QED BY <1>1, <1>2, <1>5, <2>1, Elsewhere
<1> QED BY <1>2, <1>4, <1>5, GoodLater DEF Later, IInv, wire

\* The steps of one call at a look-up, which leave everything but the call alone.
LEMMA GetAllKeeps ==
  ASSUME IInv, Steady, NEW c \in Calls, GetAll(c)
  PROVE  Later
<1> DEFINE recorded == {id \in Ids : subs[id] # NoSub}
<1>1. Others(c) /\ Becomes(c, "reSubscribe", "delete", recorded, Nobody, 0)
  BY MovesTo DEF GetAll, IInv
<1>2. At(c, "reSubscribe", "getAll") /\ UNCHANGED <<stored, wire, wanted, excuse>>
  BY DEF GetAll
<1>3. WellFormed'
  BY <1>1, <1>2 DEF IInv, WellFormed, Shapely, Others, Becomes, stored
<1>4. ASSUME NEW id \in Ids, ~Excused(id)', ~Excused(id), Truthful(id), Gone(id), Kept(id)
      PROVE  Truthful(id)' /\ Gone(id)' /\ Kept(id)'
  <2>1. Truthful(id)'
    BY <1>1, <1>2, <1>4 DEF Truthful, Others, Becomes, About, wire
  <2>2. Gone(id)'
    BY <1>1, <1>2, <1>4
    DEF Gone, Forgotten, Others, Becomes, Unsubscribing, About, At, stored
  <2>3. Kept(id)'
    <3>1. CASE subs[id] = NoSub
      <4>1. \A d \in Calls : Saving(d, id) => d # c
        BY <1>2 DEF Saving, Erasing, At, About
      <4>2. \A d \in Calls : Saving(d, id) => Saving(d, id)'
        BY <1>1, <4>1 DEF Saving, Erasing, About, Others
      <4> QED BY <1>2, <1>4, <3>1, <4>2, NoSubIsNoRecord
              DEF Kept, Recorded, Awaited, Live, stored
    <3>2. CASE subs[id] # NoSub
      <4>1. Renewing(id)'
        BY <1>1, <3>2 DEF Renewing, Erasing, About, Becomes
      <4> QED BY <1>2, <3>2, <4>1 DEF Kept, Recorded, Awaited, Live, stored
    <3> QED BY <3>1, <3>2
  <2> QED BY <2>1, <2>2, <2>3
<1> QED BY <1>2, <1>3, <1>4, GoodLater DEF Later, IInv, wire

\* The look-up of subscribe: known already, or on to save it.
LEMMA LookupToSubscribeKeeps ==
  ASSUME IInv, Steady, NEW c \in Calls, NEW d \in Calls, NEW i \in Ids,
         LookupToSubscribe(c, d, i)
  PROVE  Later
<1> DEFINE rest == task[c].ids \ {i}
<1> DEFINE at == IF subs[i] = NoSub THEN "save" ELSE "delete"
<1>1. At(c, "subscribe", "lookup") /\ i \in task[c].ids /\ UNCHANGED <<stored, wire, wanted, excuse>>
  BY DEF LookupToSubscribe
<1>2. \/ /\ subs[i] \notin {NoSub, Pending}
         /\ d = c
         /\ task' = [task EXCEPT ![c] = IF rest = {} THEN Idle
                                         ELSE Task("subscribe", "lookup", rest, Nobody, 0)]
      \/ /\ subs[i] \in {NoSub, Pending}
         /\ IF rest = {} THEN d = c ELSE task[d] = Idle
         /\ task' = [task EXCEPT ![c] = IF rest = {} THEN Idle
                                         ELSE Task("subscribe", "lookup", rest, Nobody, 0),
                                 ![d] = Task("subscribe", at, {i}, Nobody, 0)]
  BY DEF LookupToSubscribe, Moves
<1>3. \A e \in Calls \ {c, d} : task'[e] = task[e]
  BY <1>2 DEF IInv, TypeOK
<1>4. rest # {} => Becomes(c, "subscribe", "lookup", rest, Nobody, 0)
  BY <1>1, <1>2, TaskFields DEF IInv, TypeOK, Becomes, At
<1>5. subs[i] \in {NoSub, Pending} => Becomes(d, "subscribe", at, {i}, Nobody, 0)
  BY <1>2, TaskFields DEF IInv, TypeOK, Becomes
<1>6. rest = {} /\ subs[i] \notin {NoSub, Pending} => task'[c] = Idle
  BY <1>2 DEF IInv, TypeOK
<1>7. d # c => task[d] = Idle
  BY <1>2
<1>8. \A e \in {c, d} : /\ task'[e] # Idle => task'[e].op = "subscribe"
                        /\ task'[e] # Idle /\ task'[e].at # "lookup" => task'[e].ids = {i}
                        /\ task'[e] # Idle => task'[e].at \in {"lookup", "save", "delete"}
                        /\ \A id : About(e, id)' => About(c, id)
  <2>1. CASE subs[i] \in {NoSub, Pending} /\ rest # {}
    BY <1>1, <1>4, <1>5, <2>1 DEF Becomes, About, At
  <2>2. CASE subs[i] \in {NoSub, Pending} /\ rest = {}
    BY <1>1, <1>2, <1>5, <2>2 DEF Becomes, About, At
  <2>3. CASE subs[i] \notin {NoSub, Pending}
    BY <1>1, <1>2, <1>4, <1>6, <2>3 DEF Becomes, About, At
  <2> QED BY <2>1, <2>2, <2>3
<1> HIDE DEF rest, at
<1>9. WellFormed'
  BY <1>1, <1>3, <1>8 DEF IInv, WellFormed, Shapely, stored
<1>10. ASSUME NEW id \in Ids, ~Excused(id)', ~Excused(id), Truthful(id), Gone(id), Kept(id)
       PROVE  Truthful(id)' /\ Gone(id)' /\ Kept(id)'
  <2>1. Truthful(id)'
    BY <1>1, <1>3, <1>8, <1>10 DEF Truthful, About, wire
  <2>2. Gone(id)'
    BY <1>1, <1>3, <1>7, <1>8, <1>10 DEF Gone, Forgotten, Unsubscribing, About, At, stored
  <2>3. Kept(id)'
    <3>1. \A e \in Calls \ {c, d} : /\ Saving(e, id) => Saving(e, id)'
                                    /\ Asking(e, id) => Asking(e, id)'
                                    /\ Erasing(e, id) => Erasing(e, id)'
      BY <1>1, <1>3 DEF Saving, Asking, Erasing, About, wire
    <3>2. \A e \in {c, d} : ~Asking(e, id) /\ ~Erasing(e, id) /\ ~At(e, "reSubscribe", "getAll")
      BY <1>1, <1>7 DEF Asking, Erasing, About, At
    <3>3. Renewing(id) => Renewing(id)'
      BY <1>1, <1>3, <3>1, <3>2 DEF Renewing, At, wire
    <3>4. Recorded(id) => Recorded(id)'
      <4>1. CASE subs[id] = NoSub /\ id = i
        <5>1. Saving(d, id)'
          BY <1>5, <4>1 DEF Saving, About, Becomes, at
        <5> QED BY <5>1 DEF Recorded
      <4>2. CASE subs[id] = NoSub /\ id # i /\ About(c, id)
        <5>1. Saving(c, id)'
          BY <1>4, <4>2 DEF Saving, About, Becomes, rest
        <5> QED BY <5>1 DEF Recorded
      <4>3. CASE subs[id] = NoSub /\ id # i /\ ~About(c, id)
        <5>1. \A e \in {c, d} : ~Saving(e, id)
          BY <1>7, <4>3 DEF Saving, Erasing, About
        <5> QED BY <1>1, <3>1, <5>1 DEF Recorded, stored
      <4>4. CASE subs[id] # NoSub
        BY <1>1, <4>4 DEF Recorded, stored
      <4> QED BY <4>1, <4>2, <4>3, <4>4
    <3>5. Awaited(id) => Awaited(id)'
      BY <1>1, <3>1, <3>2, <3>3 DEF Awaited, stored, wire
    <3> QED BY <1>1, <1>10, <3>3, <3>4, <3>5 DEF Kept, Live, stored, wire
  <2> QED BY <2>1, <2>2, <2>3
<1> QED BY <1>1, <1>9, <1>10, GoodLater DEF Later, IInv, wire

\* The look-up of unsubscribe: nothing known, or on to delete it.
LEMMA LookupToUnsubscribeKeeps ==
  ASSUME IInv, Steady, NEW c \in Calls, LookupToUnsubscribe(c)
  PROVE  Later
<1>1. At(c, "unsubscribe", "lookup") /\ UNCHANGED <<stored, wire, wanted, excuse>>
  BY DEF LookupToUnsubscribe
<1>2. PICK i \in Ids : task[c].ids = {i}
  BY <1>1 DEF At, IInv, WellFormed, Shapely
<1>3. /\ Others(c)
      /\ \/ subs[i] = NoSub /\ task'[c] = Idle
         \/ /\ task'[c] # Idle
            /\ task'[c].op = "unsubscribe" /\ task'[c].ids = {i}
            /\ task'[c].at \in {"find", "delete"}
  <2>1. CASE subs[i] = NoSub /\ Ends(c)
    BY <2>1, EndsAt DEF IInv
  <2>2. CASE Goes(c, "delete")
    BY <1>1, <1>2, <2>2, GoesTo DEF IInv, Becomes, At
  <2>3. CASE Moves(c, Task("unsubscribe", "find", {i}, subs[i].rpc, 0))
    BY <2>3, MovesTo DEF IInv, Becomes
  <2> QED BY <1>2, <2>1, <2>2, <2>3 DEF LookupToUnsubscribe
<1>4. WellFormed'
  BY <1>1, <1>3 DEF IInv, WellFormed, Shapely, Others, stored
<1>5. ASSUME NEW id \in Ids, ~Excused(id)', ~Excused(id), Truthful(id), Gone(id), Kept(id)
      PROVE  Truthful(id)' /\ Gone(id)' /\ Kept(id)'
  <2>1. CASE id # i
    <3>1. ~About(c, id) /\ ~About(c, id)' /\ ~At(c, "reSubscribe", "getAll")
      BY <1>1, <1>2, <1>3, <2>1 DEF About, At
    <3> QED BY <1>1, <1>3, <1>5, <3>1, Elsewhere DEF stored
  <2>2. CASE id = i
    <3>1. Unsubscribing(c, id) /\ id \notin wanted
      BY <1>1, <1>2, <1>5, <2>2 DEF Unsubscribing, About, At, Truthful
    <3>2. \A d \in Calls \ {c} : ~About(d, id) /\ ~About(d, id)'
      BY <1>3, <1>5, <3>1, Alone DEF Others, About
    <3>3. Truthful(id)'
      BY <1>1, <1>3, <1>5, <3>1, <3>2 DEF Truthful, About, wire
    <3>4. Gone(id)'
      BY <1>1, <1>3, <2>2, <3>2 DEF Gone, Forgotten, Unsubscribing, About, stored
    <3> QED BY <1>1, <3>1, <3>3, <3>4 DEF Kept
  <2> QED BY <2>1, <2>2
<1> QED BY <1>1, <1>4, <1>5, GoodLater DEF Later, IInv, wire

\* The look-up of a confirmation: dropped, or on to save it.
LEMMA LookupToConfirmKeeps ==
  ASSUME IInv, Steady, NEW c \in Calls, LookupToConfirm(c)
  PROVE  Later
<1>1. At(c, "confirm", "lookup") /\ UNCHANGED <<stored, wire, wanted, excuse>>
  BY DEF LookupToConfirm
<1>2. PICK i \in Ids : task[c].ids = {i}
  BY <1>1 DEF At, IInv, WellFormed, Shapely
<1>3. /\ Others(c)
      /\ IF subs[i] = Pending
           THEN Becomes(c, "confirm", "save", {i}, task[c].rpc, task[c].conn)
           ELSE task'[c] = Idle
  BY <1>1, <1>2, EndsAt, GoesTo DEF IInv, LookupToConfirm, At
<1>4. WellFormed'
  BY <1>1, <1>3 DEF IInv, WellFormed, Shapely, Others, Becomes, stored
<1>5. ASSUME NEW id \in Ids, ~Excused(id)', ~Excused(id), Truthful(id), Gone(id), Kept(id)
      PROVE  Truthful(id)' /\ Gone(id)' /\ Kept(id)'
  <2>1. CASE id # i
    <3>1. ~About(c, id) /\ ~About(c, id)' /\ ~At(c, "reSubscribe", "getAll")
      BY <1>1, <1>2, <1>3, <2>1 DEF About, At, Becomes
    <3> QED BY <1>1, <1>3, <1>5, <3>1, Elsewhere DEF stored
  <2>2. CASE id = i
    <3>1. Truthful(id)'
      BY <1>1, <1>2, <1>3, <1>5 DEF Truthful, About, At, Others, Becomes, wire
    <3>2. Gone(id)'
      BY <1>1, <1>3, <1>5, <2>2, NoSubIsNoRecord
      DEF Gone, Forgotten, Unsubscribing, About, At, Others, stored
    <3>3. Kept(id)'
      <4>1. \A d \in Calls : /\ Saving(d, id) => Saving(d, id)'
                             /\ Asking(d, id) /\ subs[id] = Pending => Asking(d, id)'
        <5>1. ~Saving(c, id)
          BY <1>1 DEF Saving, Erasing, At
        <5>2. Asking(c, id) /\ subs[id] = Pending => Asking(c, id)'
          BY <1>1, <1>3, <2>2 DEF Asking, About, At, Becomes, wire
        <5> QED BY <1>1, <1>3, <5>1, <5>2 DEF Saving, Asking, Erasing, About, Others, wire
      <4>2. Renewing(id) => Renewing(id)'
        BY <1>1, <1>3 DEF Renewing, Erasing, About, At, Others, wire
      <4> QED BY <1>1, <1>5, <4>1, <4>2 DEF Kept, Recorded, Awaited, Live, stored, wire
    <3> QED BY <3>1, <3>2, <3>3
  <2> QED BY <2>1, <2>2
<1> QED BY <1>1, <1>4, <1>5, GoodLater DEF Later, IInv, wire

\* The look-up of a failure: nothing known, or on to delete it.
LEMMA LookupToFailKeeps ==
  ASSUME IInv, Steady, NEW c \in Calls, LookupToFail(c)
  PROVE  Later
<1>1. At(c, "fail", "lookup") /\ UNCHANGED <<stored, wire, wanted, excuse>>
  BY DEF LookupToFail
<1>2. PICK i \in Ids : task[c].ids = {i}
  BY <1>1 DEF At, IInv, WellFormed, Shapely
<1>3. /\ Others(c)
      /\ \/ Becomes(c, "fail", "delete", {i}, task[c].rpc, task[c].conn)
         \/ task'[c] = Idle
  BY <1>1, <1>2, EndsAt, GoesTo DEF IInv, LookupToFail, At
<1>4. WellFormed'
  BY <1>1, <1>3 DEF IInv, WellFormed, Shapely, Others, Becomes, stored
<1>5. ASSUME NEW id \in Ids, ~Excused(id)', ~Excused(id), Truthful(id), Gone(id), Kept(id)
      PROVE  Truthful(id)' /\ Gone(id)' /\ Kept(id)'
  <2>1. id # i
    BY <1>1, <1>2, <1>5 DEF Truthful, About, At
  <2>2. ~About(c, id) /\ ~About(c, id)' /\ ~At(c, "reSubscribe", "getAll")
    BY <1>1, <1>2, <1>3, <2>1 DEF About, At, Becomes
  <2> QED BY <1>1, <1>3, <1>5, <2>2, Elsewhere DEF stored
<1> QED BY <1>1, <1>4, <1>5, GoodLater DEF Later, IInv, wire

\* The steps of the store.
LEMMA ReadStateKeeps ==
  ASSUME IInv, Steady, NEW c \in Calls, ReadState(c)
  PROVE  Later
<1>1. /\ task[c] # Idle /\ task[c].at = "delete"
      /\ UNCHANGED <<subs, wire, wanted, excuse>>
  BY DEF ReadState, Store!BeginUpdate
<1>2. Others(c) /\ Becomes(c, task[c].op, "write", task[c].ids, task[c].rpc, task[c].conn)
  BY GoesTo DEF ReadState, IInv
<1>3. /\ update'[c] # Store!Idle /\ update'[c].patch = Store!Unset(task[c].ids)
      /\ \A d \in Calls \ {c} : update'[d] = update[d]
  BY DEF ReadState, Store!BeginUpdate, IInv, TypeOK, Store!StoreTypeOK, Store!Idle
<1>4. WellFormed'
  BY <1>1, <1>2, <1>3 DEF IInv, WellFormed, Shapely, Others, Becomes
<1>5. ASSUME NEW id \in Ids, ~Excused(id)', ~Excused(id), Truthful(id), Gone(id), Kept(id)
      PROVE  Truthful(id)' /\ Gone(id)' /\ Kept(id)'
  <2>1. Truthful(id)'
    BY <1>1, <1>2, <1>5 DEF Truthful, About, Others, Becomes, wire
  <2>2. Gone(id)'
    BY <1>1, <1>2, <1>5 DEF Gone, Forgotten, Unsubscribing, About, Others, Becomes
  <2>3. Kept(id)'
    <3>1. \A d \in Calls : /\ Saving(d, id) => Saving(d, id)'
                           /\ Asking(d, id) => Asking(d, id)'
                           /\ Erasing(d, id) => Erasing(d, id)'
      <4>1. ~Asking(c, id)
        BY <1>1 DEF Asking, IInv, WellFormed, Shapely
      <4> QED BY <1>1, <1>2, <4>1 DEF Saving, Asking, Erasing, About, Others, Becomes, wire
    <3>2. Renewing(id) => Renewing(id)'
      BY <1>1, <1>2, <3>1 DEF Renewing, At, Others, wire
    <3> QED BY <1>1, <1>5, <3>1, <3>2 DEF Kept, Recorded, Awaited, Live, wire
  <2> QED BY <2>1, <2>2, <2>3
<1> QED BY <1>1, <1>4, <1>5, GoodLater DEF Later, IInv, wire

\* Its second request writes back the snapshot and the patch.
LEMMA WriteStateKeeps ==
  ASSUME IInv, Steady, NEW c \in Calls, WriteState(c)
  PROVE  Later
<1>1. /\ task[c] # Idle /\ task[c].at = "write" /\ AfterWrite(c)
      /\ UNCHANGED <<wire, wanted>>
  BY DEF WriteState
<1>2. /\ task[c].op \in Operations /\ task[c].op # "confirm"
      /\ update[c].patch = Store!Unset(task[c].ids)
      /\ task[c].op \in {"unsubscribe", "subscribe"} => \E id \in Ids : task[c].ids = {id}
      /\ task[c].op = "other" => task[c].ids = {}
  BY <1>1, HeldTask, TypesByPart DEF IInv, WellFormed, Shapely
<1>3. /\ Others(c)
      /\ \/ /\ task[c].op = "subscribe"
            /\ Becomes(c, "subscribe", "save", task[c].ids, task[c].rpc, task[c].conn)
         \/ /\ task[c].op = "reSubscribe" /\ task[c].ids # {}
            /\ Becomes(c, "subscribe", "lookup", task[c].ids, Nobody, 0)
         \/ /\ task[c].op \in {"unsubscribe", "fail", "other"} \/ task[c].ids = {}
            /\ task'[c] = Idle
  <2>1. CASE task[c].op = "subscribe"
    <3>1. Goes(c, "save")
      BY <1>1, <2>1 DEF AfterWrite
    <3> QED BY <2>1, <3>1, GoesTo DEF IInv
  <2>2. CASE task[c].op = "reSubscribe" /\ task[c].ids # {}
    <3>1. Moves(c, Task("subscribe", "lookup", task[c].ids, Nobody, 0))
      BY <1>1, <2>2 DEF AfterWrite
    <3> QED BY <2>2, <3>1, MovesTo DEF IInv
  <2>3. CASE task[c].op # "subscribe" /\ ~(task[c].op = "reSubscribe" /\ task[c].ids # {})
    <3>1. Ends(c)
      BY <1>1, <2>3 DEF AfterWrite
    <3>2. task[c].op \in {"unsubscribe", "fail", "other"} \/ task[c].ids = {}
      BY <1>2, <2>3 DEF Operations
    <3> QED BY <3>1, <3>2, EndsAt DEF IInv
  <2> QED BY <2>1, <2>2, <2>3
<1>4. /\ \A id \in task[c].ids : subs'[id] = NoSub
      /\ \A d \in Calls \ {c} : update'[d] = update[d]
  <2>1. task[c].ids \subseteq Ids
    BY <1>1, HeldTask, TypesByPart DEF IInv
  <2> QED BY <1>2, <2>1
          DEF WriteState, Store!FinishUpdate, Store!Apply, Store!Unset, IInv, TypeOK,
              Store!StoreTypeOK
<1>5. \A id \in Ids \ task[c].ids : subs'[id] # subs[id] => Excused(id)'
  BY DEF WriteState, Excuse, Excused
<1>6. WellFormed'
  BY <1>1, <1>2, <1>3, <1>4 DEF IInv, WellFormed, Shapely, Others, Becomes
<1>7. ASSUME NEW id \in Ids, ~Excused(id)', ~Excused(id), Truthful(id), Gone(id), Kept(id)
      PROVE  Truthful(id)' /\ Gone(id)' /\ Kept(id)'
  <2>1. CASE ~About(c, id)
    <3>1. ~About(c, id)' /\ ~At(c, "reSubscribe", "getAll") /\ subs'[id] = subs[id]
      BY <1>1, <1>3, <1>5, <1>7, <2>1 DEF About, At, Becomes
    <3> QED BY <1>1, <1>3, <1>7, <2>1, <3>1, Elsewhere
  <2>2. CASE About(c, id)
    <3>1. subs'[id] = NoSub
      BY <1>4, <2>2 DEF About
    <3>2. Truthful(id)'
      BY <1>1, <1>3, <1>7 DEF Truthful, About, Others, Becomes, wire
    <3>3. CASE task[c].op = "unsubscribe"
      <4>1. /\ id \notin wanted' /\ task'[c] = Idle
            /\ \A d \in Calls \ {c} : ~About(d, id)'
        <5>1. \A d \in Calls \ {c} : ~About(d, id)
          BY <1>7, <2>2, <3>3, Alone DEF Unsubscribing
        <5>2. task'[c] = Idle
          BY <1>3, <2>2, <3>3 DEF Becomes, About
        <5> QED BY <1>1, <1>3, <1>7, <2>2, <3>3, <5>1, <5>2 DEF Truthful, Others, About
      <4> QED BY <3>1, <3>2, <4>1 DEF Gone, Forgotten, Kept, About
    <3>4. CASE task[c].op # "unsubscribe"
      <4>1. /\ task[c].op \in {"subscribe", "reSubscribe"}
            /\ task'[c] # Idle /\ task'[c].ids = task[c].ids /\ task'[c].op = "subscribe"
            /\ task'[c].at \in {"save", "lookup"}
        BY <1>2, <1>3, <1>7, <2>2, <3>4 DEF Truthful, About, Becomes
      <4>2. Gone(id)'
        BY <1>1, <1>3, <1>7, <2>2, <3>4, <4>1 DEF Gone, Forgotten, Unsubscribing, About, Others
      <4>3. Saving(c, id)'
        BY <2>2, <4>1 DEF Saving, About
      <4> QED BY <3>1, <3>2, <4>2, <4>3, NoSubIsNoRecord DEF Kept, Recorded, Awaited, Live
    <3> QED BY <3>3, <3>4
  <2> QED BY <2>1, <2>2
<1> QED BY <1>1, <1>6, <1>7, GoodLater DEF Later, IInv, wire

\* subscribe saves the subscription before it sends anything.
LEMMA SavePendingKeeps ==
  ASSUME IInv, Steady, NEW c \in Calls, SavePending(c)
  PROVE  Later
<1>1. /\ At(c, "subscribe", "save") /\ UNCHANGED <<update, wire, wanted, excuse>>
  BY DEF SavePending, Store!Write
<1>2. PICK i \in Ids : task[c].ids = {i}
  BY <1>1 DEF At, IInv, WellFormed, Shapely
<1>3. subs'[i] = Pending /\ \A id \in Ids \ {i} : subs'[id] = subs[id]
  BY <1>2 DEF SavePending, Store!Write, IInv, TypeOK, Store!StoreTypeOK, Store!Document
<1>4. Others(c) /\ Becomes(c, "subscribe", "find", {i}, task[c].rpc, task[c].conn)
  BY <1>1, <1>2, GoesTo DEF SavePending, IInv, At
<1>5. WellFormed'
  BY <1>1, <1>4 DEF IInv, WellFormed, Shapely, Others, Becomes
<1>6. ASSUME NEW id \in Ids, ~Excused(id)', ~Excused(id), Truthful(id), Gone(id), Kept(id)
      PROVE  Truthful(id)' /\ Gone(id)' /\ Kept(id)'
  <2>1. CASE id # i
    <3>1. ~About(c, id) /\ ~About(c, id)' /\ ~At(c, "reSubscribe", "getAll")
      BY <1>1, <1>2, <1>4, <2>1 DEF About, At, Becomes
    <3> QED BY <1>1, <1>3, <1>4, <1>6, <2>1, <3>1, Elsewhere
  <2>2. CASE id = i
    <3>1. Truthful(id)'
      BY <1>1, <1>4, <1>6 DEF Truthful, About, Others, Becomes, wire
    <3>2. Gone(id)'
      BY <1>1, <1>2, <1>4, <1>6, <2>2
      DEF Gone, Forgotten, Unsubscribing, About, At, Others, Becomes
    <3>3. Asking(c, id)'
      BY <1>4, <2>2 DEF Asking, About, Becomes
    <3>4. Kept(id)'
      <4>1. subs'[id] = Pending /\ NoSub # Pending /\ \A rpc \in RpcIds : Confirmed(rpc) # Pending
        BY <1>3, <2>2, NoSubIsNoRecord DEF Pending, Confirmed
      <4> QED BY <3>3, <4>1 DEF Kept, Recorded, Awaited, Live
    <3> QED BY <3>1, <3>2, <3>4
  <2> QED BY <2>1, <2>2
<1> QED BY <1>1, <1>5, <1>6, GoodLater DEF Later, IInv, wire

\* A confirmation saves the number that the server gave.
LEMMA SaveConfirmedKeeps ==
  ASSUME IInv, Steady, NEW c \in Calls, SaveConfirmed(c)
  PROVE  Later
<1>1. /\ At(c, "confirm", "save") /\ UNCHANGED <<update, wire, wanted>>
  BY DEF SaveConfirmed, Store!Write
<1>2. PICK i \in Ids : task[c].ids = {i}
  BY <1>1 DEF At, IInv, WellFormed, Shapely
<1>3. subs'[i] = Confirmed(task[c].rpc) /\ \A id \in Ids \ {i} : subs'[id] = subs[id]
  BY <1>2 DEF SaveConfirmed, Store!Write, IInv, TypeOK, Store!StoreTypeOK, Store!Document
<1>4. Others(c) /\ task'[c] = Idle
  BY EndsAt DEF SaveConfirmed, IInv
<1>5. ~Excused(i)' => link = "open" /\ conn = task[c].conn
  BY <1>2 DEF SaveConfirmed, Excuse, Excused
<1>6. WellFormed'
  BY <1>1, <1>4 DEF IInv, WellFormed, Shapely, Others
<1>7. ASSUME NEW id \in Ids, ~Excused(id)', ~Excused(id), Truthful(id), Gone(id), Kept(id)
      PROVE  Truthful(id)' /\ Gone(id)' /\ Kept(id)'
  <2>1. CASE id # i
    <3>1. ~About(c, id) /\ ~About(c, id)' /\ ~At(c, "reSubscribe", "getAll")
      BY <1>1, <1>2, <1>4, <2>1 DEF About, At
    <3> QED BY <1>1, <1>3, <1>4, <1>7, <2>1, <3>1, Elsewhere
  <2>2. CASE id = i
    <3>1. Truthful(id)'
      BY <1>1, <1>4, <1>7 DEF Truthful, About, Others, wire
    <3>2. Gone(id)'
      <4>1. ~Forgotten(id) /\ ~Unsubscribing(c, id)
        BY <1>1, <1>2, <2>2 DEF Forgotten, Unsubscribing, About, At
      <4> QED BY <1>1, <1>4, <1>7, <4>1 DEF Gone, Unsubscribing, About, Others
    <3>3. live'[task[c].rpc] = id
      BY <1>1, <1>2, <1>5, <1>7, <2>2 DEF Truthful, About, At, wire
    <3>4. Kept(id)'
      <4>1. task[c].rpc \in RpcIds
        BY <1>1, HeldTask, TypesByPart DEF IInv, At
      <4>2. /\ subs'[id] = Confirmed(task[c].rpc)
            /\ subs'[id] # NoSub /\ subs'[id] # Pending
            /\ \A rpc \in RpcIds : subs'[id] = Confirmed(rpc) => rpc = task[c].rpc
        BY <1>3, <2>2, <4>1, NoSubIsNoRecord DEF Pending, Confirmed
      <4> QED BY <3>3, <4>2 DEF Kept, Recorded, Awaited, Live
    <3> QED BY <3>1, <3>2, <3>4
  <2> QED BY <2>1, <2>2
<1> QED BY <1>1, <1>6, <1>7, GoodLater DEF Later, IInv, wire

\* The connection and the server.
LEMMA FindKeeps ==
  ASSUME IInv, Steady, NEW c \in Calls, Find(c)
  PROVE  Later
<1>1. /\ task[c] # Idle /\ task[c].at = "find" /\ task[c].op \in {"subscribe", "unsubscribe"}
      /\ UNCHANGED <<stored, wire, wanted, excuse>>
  BY DEF Find, IInv, WellFormed, Shapely
<1>2. PICK i \in Ids : task[c].ids = {i}
  BY <1>1 DEF IInv, WellFormed, Shapely
<1>3. /\ Others(c)
      /\ \/ link # "down" /\ Becomes(c, task[c].op, "send", {i}, task[c].rpc, conn)
         \/ /\ task[c].op = "unsubscribe"
            /\ Becomes(c, "unsubscribe", "delete", {i}, task[c].rpc, task[c].conn)
         \/ link = "down" /\ task[c].op = "subscribe" /\ task'[c] = Idle
  <2>1. CASE link # "down"
    BY <1>2, <2>1, MovesTo DEF Find, IInv
  <2>2. CASE link = "down" /\ task[c].op = "unsubscribe"
    BY <1>2, <2>2, GoesTo DEF Find, IInv
  <2>3. CASE link = "down" /\ task[c].op = "subscribe"
    BY <2>3, EndsAt DEF Find, IInv
  <2> QED BY <1>1, <2>1, <2>2, <2>3
<1>4. WellFormed'
  BY <1>1, <1>3 DEF IInv, WellFormed, Shapely, Others, Becomes, stored
<1>5. ASSUME NEW id \in Ids, ~Excused(id)', ~Excused(id), Truthful(id), Gone(id), Kept(id)
      PROVE  Truthful(id)' /\ Gone(id)' /\ Kept(id)'
  <2>1. Truthful(id)'
    BY <1>1, <1>2, <1>3, <1>5 DEF Truthful, About, Others, Becomes, wire
  <2>2. Gone(id)'
    BY <1>1, <1>2, <1>3, <1>5
    DEF Gone, Forgotten, Unsubscribing, About, Others, Becomes, stored
  <2>3. Kept(id)'
    <3>1. \A d \in Calls : /\ Saving(d, id) => Saving(d, id)'
                           /\ Asking(d, id) => Asking(d, id)' \/ link' # "open"
      <4>1. ~Saving(c, id)
        BY <1>1 DEF Saving, Erasing
      <4>2. Asking(c, id) => Asking(c, id)' \/ link' # "open"
        BY <1>1, <1>2, <1>3 DEF Asking, About, Becomes, wire
      <4> QED BY <1>1, <1>3, <4>1, <4>2 DEF Saving, Asking, Erasing, About, Others, wire
    <3>2. Renewing(id) => Renewing(id)'
      BY <1>1, <1>3 DEF Renewing, Erasing, About, At, Others, wire
    <3>3. link' # "open" => Renewing(id)'
      BY DEF Renewing
    <3> QED BY <1>1, <1>5, <3>1, <3>2, <3>3 DEF Kept, Recorded, Awaited, Live, stored, wire
  <2> QED BY <2>1, <2>2, <2>3
<1> QED BY <1>1, <1>4, <1>5, GoodLater DEF Later, IInv, wire

\* The server accepts and its answer is on its way.
LEMMA AcceptKeeps ==
  ASSUME IInv, Steady, NEW c \in Calls, Accept(c)
  PROVE  Later
<1>1. /\ At(c, "subscribe", "send") /\ Reachable(c)
      /\ UNCHANGED <<stored, link, conn, opened, wanted, excuse>>
  BY DEF Accept
<1>2. PICK i \in Ids : task[c].ids = {i}
  BY <1>1 DEF At, IInv, WellFormed, Shapely
<1>3. PICK rpc \in RpcIds :
        /\ live[rpc] = Nobody
        /\ live' = [live EXCEPT ![rpc] = i]
        /\ inbox' = inbox \cup {[type |-> "confirm", id |-> i, rpc |-> rpc]}
  BY <1>2 DEF Accept
<1>4. live'[rpc] = i /\ \A r \in RpcIds \ {rpc} : live'[r] = live[r]
  BY <1>3 DEF IInv, TypeOK
<1>5. Others(c) /\ task'[c] = Idle
  BY EndsAt DEF Accept, IInv
<1>6. WellFormed'
  BY <1>1, <1>5 DEF IInv, WellFormed, Shapely, Others, stored
<1>7. ASSUME NEW id \in Ids, NEW r \in RpcIds, live[r] = id
      PROVE  live'[r] = id
  BY <1>3, <1>4, <1>7, NobodyAssumption
<1>8. ASSUME NEW id \in Ids, ~Excused(id)', ~Excused(id), Truthful(id), Gone(id), Kept(id)
      PROVE  Truthful(id)' /\ Gone(id)' /\ Kept(id)'
  <2>1. Truthful(id)'
    <3>1. ASSUME NEW m \in inbox', m.id = id PROVE m.type = "confirm" /\ live'[m.rpc] = id
      <4>1. CASE m \in inbox
        <5>1. m.type = "confirm" /\ live[m.rpc] = id
          BY <1>8, <3>1, <4>1 DEF Truthful
        <5>2. m.rpc \in RpcIds
          BY <4>1, <5>1 DEF IInv, TypeOK, Answers
        <5> QED BY <1>7, <5>1, <5>2
      <4>2. CASE m \notin inbox
        BY <1>3, <1>4, <3>1, <4>2
      <4> QED BY <4>1, <4>2
    <3>2. ASSUME NEW d \in Calls, About(d, id), task[d].op = "confirm"
          PROVE  task[d].rpc \in RpcIds
      BY <3>2, HeldTask, TypesByPart DEF IInv, About
    <3> QED BY <1>1, <1>5, <1>7, <1>8, <3>1, <3>2 DEF Truthful, About, Others
  <2>2. Gone(id)'
    BY <1>1, <1>5, <1>8 DEF Gone, Forgotten, Unsubscribing, About, At, Others, stored
  <2>3. Kept(id)'
    <3>1. \A d \in Calls \ {c} : /\ Saving(d, id) => Saving(d, id)'
                                 /\ Asking(d, id) => Asking(d, id)'
                                 /\ Erasing(d, id) => Erasing(d, id)'
      BY <1>1, <1>5 DEF Saving, Asking, Erasing, About, Others
    <3>2. ~Saving(c, id) /\ ~At(c, "reSubscribe", "getAll") /\ (id # i => ~Asking(c, id))
      BY <1>1, <1>2 DEF Saving, Asking, Erasing, About, At
    <3>3. Renewing(id) => Renewing(id)'
      BY <1>1, <1>5, <3>1, <3>2 DEF Renewing, Saving, At, Others
    <3>4. id = i => \E m \in inbox' : m.id = id
      <4>1. [type |-> "confirm", id |-> i, rpc |-> rpc] \in inbox'
        BY <1>3
      <4>2. [type |-> "confirm", id |-> i, rpc |-> rpc].id = i
        OBVIOUS
      <4> QED BY <4>1, <4>2
    <3>5. Awaited(id) => Awaited(id)'
      BY <1>1, <1>3, <3>1, <3>2, <3>3, <3>4 DEF Awaited, stored
    <3>6. Recorded(id) => Recorded(id)'
      BY <1>1, <3>1, <3>2 DEF Recorded, stored
    <3>7. Live(id) => Live(id)'
      BY <1>1, <1>7, <3>3 DEF Live, stored
    <3> QED BY <1>1, <1>8, <3>5, <3>6, <3>7 DEF Kept
  <2> QED BY <2>1, <2>2, <2>3
<1> QED BY <1>1, <1>6, <1>8, GoodLater DEF Later, Reachable

\* The server refuses, which is a reason once the answer arrives.
LEMMA RefuseKeeps ==
  ASSUME IInv, Steady, NEW c \in Calls, Refuse(c)
  PROVE  Later
<1>1. /\ At(c, "subscribe", "send") /\ Reachable(c)
      /\ UNCHANGED <<stored, link, conn, opened, live, wanted>>
  BY DEF Refuse
<1>2. PICK i \in Ids : task[c].ids = {i}
  BY <1>1 DEF At, IInv, WellFormed, Shapely
<1>3. /\ inbox' = inbox \cup {[type |-> "fail", id |-> i, rpc |-> Nobody]}
      /\ Excused(i)'
  BY <1>2 DEF Refuse, Excuse, Excused
<1>4. Others(c) /\ task'[c] = Idle
  BY EndsAt DEF Refuse, IInv
<1>5. WellFormed'
  BY <1>1, <1>4 DEF IInv, WellFormed, Shapely, Others, stored
<1>6. ASSUME NEW id \in Ids, ~Excused(id)', ~Excused(id), Truthful(id), Gone(id), Kept(id)
      PROVE  Truthful(id)' /\ Gone(id)' /\ Kept(id)'
  <2>1. id # i
    BY <1>3, <1>6
  <2>2. Truthful(id)'
    BY <1>1, <1>3, <1>4, <1>6, <2>1 DEF Truthful, About, Others
  <2>3. Gone(id)'
    BY <1>1, <1>4, <1>6 DEF Gone, Forgotten, Unsubscribing, About, At, Others, stored
  <2>4. Kept(id)'
    <3>1. ~Saving(c, id) /\ ~At(c, "reSubscribe", "getAll") /\ ~Asking(c, id)
      BY <1>1, <1>2, <2>1 DEF Saving, Asking, Erasing, About, At
    <3>2. \A d \in Calls : /\ Saving(d, id) => Saving(d, id)'
                           /\ Asking(d, id) => Asking(d, id)'
                           /\ Erasing(d, id) => Erasing(d, id)'
      BY <1>1, <1>4, <3>1 DEF Saving, Asking, Erasing, About, Others
    <3>3. Renewing(id) => Renewing(id)'
      BY <1>1, <1>4, <3>1, <3>2 DEF Renewing, At, Others
    <3> QED BY <1>1, <1>3, <1>6, <3>2, <3>3 DEF Kept, Recorded, Awaited, Live, stored
  <2> QED BY <2>2, <2>3, <2>4
<1> QED BY <1>1, <1>5, <1>6, GoodLater DEF Later, Reachable

\* The server forgets a number, and whoever else it belongs to has a reason.
LEMMA CancelKeeps ==
  ASSUME IInv, Steady, NEW c \in Calls, Cancel(c)
  PROVE  Later
<1> DEFINE gone == task[c].rpc
<1>1. /\ At(c, "unsubscribe", "send") /\ Reachable(c)
      /\ UNCHANGED <<stored, link, conn, opened, inbox, wanted>>
  BY DEF Cancel
<1>2. PICK i \in Ids : task[c].ids = {i}
  BY <1>1 DEF At, IInv, WellFormed, Shapely
<1>3. Others(c) /\ Becomes(c, "unsubscribe", "delete", {i}, task[c].rpc, task[c].conn)
  BY <1>1, <1>2, GoesTo DEF Cancel, IInv, At
<1>4. \A r \in RpcIds : r # gone => live'[r] = live[r]
  BY DEF Cancel, IInv, TypeOK
<1>5. /\ \A id \in Ids : id = live[gone] /\ id # i => Excused(id)'
      /\ \A m \in inbox : m.id \in Ids /\ m.rpc = gone => Excused(m.id)'
  BY <1>2 DEF Cancel, Excuse, Excused
<1>6. WellFormed'
  BY <1>1, <1>3 DEF IInv, WellFormed, Shapely, Others, Becomes, stored
<1> HIDE DEF gone
<1>7. ASSUME NEW id \in Ids, ~Excused(id)', ~Excused(id), Truthful(id), Gone(id), Kept(id)
      PROVE  Truthful(id)' /\ Gone(id)' /\ Kept(id)'
  <2>1. id = i => /\ id \notin wanted
                  /\ \A d \in Calls \ {c} : ~About(d, id) /\ ~About(d, id)'
    <3>1. CASE id = i
      <4>1. Unsubscribing(c, id)
        BY <1>1, <1>2, <3>1 DEF Unsubscribing, About, At
      <4>2. \A d \in Calls \ {c} : ~About(d, id)
        BY <1>7, <4>1, Alone
      <4>3. id \notin wanted
        BY <1>7, <4>1 DEF Unsubscribing, Truthful
      <4> QED BY <1>3, <4>2, <4>3 DEF Others, About
    <3> QED BY <3>1
  <2>2. Truthful(id)'
    <3>1. ASSUME NEW m \in inbox, m.id = id PROVE m.type = "confirm" /\ live'[m.rpc] = id
      <4>1. m.type = "confirm" /\ live[m.rpc] = id /\ m.rpc # gone
        BY <1>5, <1>7, <3>1 DEF Truthful
      <4>2. m.rpc \in RpcIds
        BY <4>1 DEF IInv, TypeOK, Answers
      <4> QED BY <1>4, <4>1, <4>2
    <3>2. ASSUME NEW d \in Calls, About(d, id), task[d].op = "confirm", d # c,
                 live[task[d].rpc] = id
          PROVE  live'[task[d].rpc] = id
      <4>1. task[d].rpc \in RpcIds
        BY <3>2, HeldTask, TypesByPart DEF IInv, About
      <4>2. task[d].rpc # gone
        BY <1>5, <1>7, <2>1, <3>2
      <4> QED BY <1>4, <3>2, <4>1, <4>2
    <3> QED BY <1>1, <1>3, <1>7, <2>1, <3>1, <3>2 DEF Truthful, About, Others, Becomes
  <2>3. Gone(id)'
    BY <1>1, <1>2, <1>3, <1>7
    DEF Gone, Forgotten, Unsubscribing, About, At, Others, Becomes, stored
  <2>4. Kept(id)'
    <3>1. ~Saving(c, id) /\ ~At(c, "reSubscribe", "getAll") /\ ~Asking(c, id)
      BY <1>1 DEF Saving, Asking, Erasing, At
    <3>2. \A d \in Calls : /\ Saving(d, id) => Saving(d, id)'
                           /\ Asking(d, id) => Asking(d, id)'
                           /\ Erasing(d, id) => Erasing(d, id)'
      BY <1>1, <1>3, <3>1 DEF Saving, Asking, Erasing, About, Others
    <3>3. Renewing(id) => Renewing(id)'
      BY <1>1, <1>3, <3>1, <3>2 DEF Renewing, At, Others
    <3>4. ASSUME NEW r \in RpcIds, id \in wanted, live[r] = id PROVE live'[r] = id
      BY <1>4, <1>5, <1>7, <2>1, <3>4
    <3> QED BY <1>1, <1>7, <3>2, <3>3, <3>4 DEF Kept, Recorded, Awaited, Live, stored
  <2> QED BY <2>2, <2>3, <2>4
<1> QED BY <1>1, <1>6, <1>7, GoodLater DEF Later, Reachable

\* A send that throws is a reason, or leaves the call where it is.
LEMMA SendFailsKeeps ==
  ASSUME IInv, Steady, NEW c \in Calls, SendFails(c)
  PROVE  Later
<1>1. /\ task[c] # Idle /\ task[c].at = "send" /\ task[c].op \in {"subscribe", "unsubscribe"}
      /\ ~Reachable(c) /\ UNCHANGED <<stored, wire, wanted>>
  BY DEF SendFails, IInv, WellFormed, Shapely
<1>2. PICK i \in Ids : task[c].ids = {i}
  BY <1>1 DEF IInv, WellFormed, Shapely
<1>3. Others(c) /\ task'[c] = Idle
  BY EndsAt DEF SendFails, IInv
<1>4. task[c].op = "unsubscribe" => Excused(i)'
  BY <1>2 DEF SendFails, Excuse, Excused
<1>5. WellFormed'
  BY <1>1, <1>3 DEF IInv, WellFormed, Shapely, Others, stored
<1>6. ASSUME NEW id \in Ids, ~Excused(id)', ~Excused(id), Truthful(id), Gone(id), Kept(id)
      PROVE  Truthful(id)' /\ Gone(id)' /\ Kept(id)'
  <2>1. Truthful(id)'
    BY <1>1, <1>3, <1>6 DEF Truthful, About, Others, wire
  <2>2. Gone(id)'
    <3>1. ~Unsubscribing(c, id)
      BY <1>2, <1>4, <1>6 DEF Unsubscribing, About
    <3> QED BY <1>1, <1>3, <1>6, <3>1 DEF Gone, Forgotten, Unsubscribing, About, Others, stored
  <2>3. Kept(id)'
    <3>1. /\ ~Saving(c, id) /\ ~At(c, "reSubscribe", "getAll")
          /\ Asking(c, id) => link # "open"
      BY <1>1 DEF Saving, Asking, Erasing, At, Reachable
    <3>2. \A d \in Calls : /\ Saving(d, id) => Saving(d, id)'
                           /\ Asking(d, id) => Asking(d, id)' \/ link' # "open"
                           /\ Erasing(d, id) => Erasing(d, id)'
      <4>1. ~Erasing(c, id)
        BY <1>1 DEF Erasing
      <4> QED BY <1>1, <1>3, <3>1, <4>1 DEF Saving, Asking, Erasing, About, Others, wire
    <3>3. Renewing(id) => Renewing(id)'
      BY <1>1, <1>3, <3>1, <3>2 DEF Renewing, At, Others, wire
    <3>4. link' # "open" => Renewing(id)'
      BY DEF Renewing
    <3> QED BY <1>1, <1>6, <3>2, <3>3, <3>4 DEF Kept, Recorded, Awaited, Live, stored, wire
  <2> QED BY <2>1, <2>2, <2>3
<1> QED BY <1>1, <1>5, <1>6, GoodLater DEF Later, IInv, wire

\* The connection comes and goes.
LEMMA LinkKeeps ==
  ASSUME IInv, Steady, Connect \/ Establish \/ Drop
  PROVE  Later
<1>1. UNCHANGED <<stored, task, wanted>>
  BY DEF Connect, Establish, Drop
<1>2. /\ inbox' = {} /\ (link' # "open" \/ opened')
      /\ \/ link' = "down" /\ conn' = conn
         \/ link' = "connecting" /\ conn' = conn + 1
         \/ link = "connecting" /\ link' = "open" /\ conn' = conn
  BY DEF Connect, Establish, Drop, Lost, IInv
<1>3. WellFormed'
  BY <1>1 DEF IInv, WellFormed, Shapely, stored
<1>4. ASSUME NEW id \in Ids, ~Excused(id)', ~Excused(id), Truthful(id), Gone(id), Kept(id)
      PROVE  Truthful(id)' /\ Gone(id)' /\ Kept(id)'
  <2>1. Truthful(id)'
    <3>1. \A d \in Calls : task[d] # Idle => task[d].conn \in Nat /\ conn \in Nat
      BY HeldTask, TypesByPart, BoundsAssumption DEF IInv, ServiceTypes
    <3> QED BY <1>1, <1>2, <1>4, <3>1 DEF Truthful, About
  <2>2. Gone(id)'
    BY <1>1, <1>4 DEF Gone, Forgotten, Unsubscribing, About, stored
  <2>3. Kept(id)'
    <3>1. \A d \in Calls : Saving(d, id) => Saving(d, id)'
      BY <1>1 DEF Saving, Erasing, About
    <3>2. Renewing(id)'
      BY <1>2 DEF Renewing
    <3> QED BY <1>1, <1>4, <3>1, <3>2 DEF Kept, Recorded, Awaited, Live, stored
  <2> QED BY <2>1, <2>2, <2>3
<1> QED BY <1>2, <1>3, <1>4, GoodLater DEF Later

\* A restart drops the calls, and is a reason for those they concern.
LEMMA RestartKeeps ==
  ASSUME IInv, Steady, Restart
  PROVE  Later
<1>1. /\ inbox' = {} /\ link' = "down" /\ task' = [c \in Calls |-> Idle]
      /\ UNCHANGED <<subs, wanted>>
  BY DEF Restart, Lost
<1>2. \A c \in Calls, id \in Ids : About(c, id) => Excused(id)'
  BY DEF Restart, Excuse, Excused, About
<1>3. WellFormed'
  BY <1>1 DEF WellFormed
<1>4. ASSUME NEW id \in Ids, ~Excused(id)', ~Excused(id), Truthful(id), Gone(id), Kept(id)
      PROVE  Truthful(id)' /\ Gone(id)' /\ Kept(id)'
  <2>1. Truthful(id)' /\ Gone(id)'
    BY <1>1, <1>2, <1>4 DEF Truthful, Gone, Forgotten, Unsubscribing, About
  <2>2. Kept(id)'
    BY <1>1, <1>2, <1>4 DEF Kept, Recorded, Awaited, Live, Saving, Erasing, Renewing
  <2> QED BY <2>1, <2>2
<1> QED BY <1>1, <1>3, <1>4, GoodLater DEF Later

\* Every step keeps the invariant: one case per action.
LEMMA NextPreserves == IInv /\ [Next]_vars => IInv'
<1>1. ASSUME IInv, Next PROVE IInv'
  <2>1. TypeOK' /\ Steady /\ (Contended \subseteq raced)'
    BY <1>1, StepTypes, IsSteady DEF IInv
  <2>2. Later
    BY <1>1, <2>1, SubscribeKeeps, UnsubscribeKeeps, RecoverKeeps, ReceiveKeeps,
       UpdateOtherKeeps, GetAllKeeps, LookupToSubscribeKeeps, LookupToUnsubscribeKeeps,
       LookupToConfirmKeeps, LookupToFailKeeps, ReadStateKeeps, WriteStateKeeps,
       SavePendingKeeps, SaveConfirmedKeeps, FindKeeps, AcceptKeeps, RefuseKeeps,
       CancelKeeps, SendFailsKeeps, LinkKeeps, RestartKeeps
    DEF Next, Step
  <2> QED BY <2>1, <2>2 DEF Later, IInv
<1>2. ASSUME IInv, UNCHANGED vars PROVE IInv'
  <2>1. TypeOK'
    BY <1>2, StepTypes DEF IInv
  <2>2. (Contended \subseteq raced)' /\ WellFormed' /\ (inbox # {} => link = "open")'
    BY <1>2 DEF IInv, vars, stored, wire, Contended, WellFormed, Shapely
  <2>3. ASSUME NEW id \in Ids PROVE Good(id)'
    BY <1>2
    DEF IInv, vars, stored, wire, Good, Excused, Truthful, Gone, Forgotten, Unsubscribing,
        Kept, Recorded, Awaited, Live, Saving, Asking, Renewing, Erasing, About, At
  <2> QED BY <2>1, <2>2, <2>3 DEF IInv
<1> QED BY <1>1, <1>2

\* The invariant holds of every state of the specification.
LEMMA InvariantHolds == Spec => []IInv
BY GoodInitially, NextPreserves, PTL DEF Spec

\* Once all is quiet on an open connection, every subscription that the monitors hold is
\* notified, or one of the reasons says why not; for any number of subscriptions, calls,
\* connections and restarts, in any order.
THEOREM SubscriptionsAreHeard == Spec => []HeardUnlessExcused
<1>1. IInv => HeardUnlessExcused
  <2> SUFFICES ASSUME IInv, Quiet, link = "open", NEW id \in wanted, ~Excused(id)
               PROVE  Heard(id) \/ Shadowed(id)
    BY DEF HeardUnlessExcused
  <2>1. id \in Ids /\ Kept(id)
    BY DEF IInv, TypeOK, Good
  <2>2. /\ \A k \in Ids : ~Renewing(k)
        /\ \A k \in Ids, c \in Calls : ~Saving(c, k) /\ ~Asking(c, k) /\ ~About(c, k)
    BY DEF Quiet, Renewing, Saving, Asking, Erasing, About, At
  <2>3. subs[id] \in Records \ {Pending}
    BY <2>1, <2>2
    DEF Kept, Recorded, Awaited, Quiet, IInv, TypeOK, Store!StoreTypeOK, Store!Document
  <2>4. PICK rpc \in RpcIds : subs[id] = Confirmed(rpc)
    BY <2>3 DEF Records
  <2>5. live[rpc] = id
    BY <2>1, <2>2, <2>4 DEF Kept, Live
  <2>6. ASSUME NEW other \in FindByRpcId(rpc) \ {id} PROVE Excused(other)
    <3> SUFFICES ASSUME ~Excused(other) PROVE FALSE
      OBVIOUS
    <3>1. other \in Ids /\ subs[other] = Confirmed(rpc) /\ other # id
      BY DEF FindByRpcId
    <3>2. Kept(other) /\ Gone(other)
      BY <3>1 DEF IInv, Good
    <3>3. other \in wanted
      BY <2>2, <3>1, <3>2, NoSubIsNoRecord DEF Gone, Forgotten, Unsubscribing
    <3> QED BY <2>2, <2>5, <3>1, <3>2, <3>3 DEF Kept, Live
  <2>7. id \in FindByRpcId(rpc)
    BY <2>1, <2>4 DEF FindByRpcId
  <2> QED BY <2>5, <2>6, <2>7 DEF Shadowed
<1> QED BY <1>1, InvariantHolds, PTL

\* Once all is quiet, a subscription that was given up has left no record, or one of the
\* reasons says why.
THEOREM SubscriptionsAreGone == Spec => []GoneUnlessExcused
<1>1. IInv => GoneUnlessExcused
  BY DEF IInv, Good, Gone, Forgotten, Unsubscribing, About, Quiet, GoneUnlessExcused
<1> QED BY <1>1, InvariantHolds, PTL
==============================================================================
