----------------------------- MODULE SendingProofs -----------------------------
(***************************************************************************)
(* Proofs about how a transaction is sent and followed, for any bounds.    *)
(*                                                                         *)
(* SignatureMonitor, for any set of requests: its state has the declared   *)
(* types; no transaction is handled before its signature has reached the   *)
(* level that was asked for; none is handled twice, or left behind in the  *)
(* map or in the records once handled, and none whose level is reached     *)
(* goes unhandled, but for the reasons that the specification lists.       *)
(*                                                                         *)
(* SendFlow, for any recipients, amounts and prices, and any number of     *)
(* handlers and builds that run side by side: every copy of the context,   *)
(* on the screen and on its way, is of the stage that what holds it needs; *)
(* what is signed is what was confirmed; one message is sent at most, and  *)
(* what the screen tells of it is true; and the form comes to hold what    *)
(* its inputs show and the message of that; but for the mishaps that the   *)
(* specification lists.                                                    *)
(***************************************************************************)
EXTENDS SignatureMonitor, SendFlow, FiniteSetTheorems, TLAPS

------------------------------------------------------------------------------
(* SignatureMonitor: types.                                                *)

\* A call that goes on, or ends, leaves counts (Goes, Ends).
LEMMA HandlingTypes ==
  ASSUME TypeOK, NEW r \in Requests, NEW from \in HandlerSteps, NEW to \in HandlerSteps
  PROVE  /\ Goes(r, from, to) => handling' \in [Requests -> [HandlerSteps -> Nat]]
         /\ Ends(r, from) => handling' \in [Requests -> [HandlerSteps -> Nat]]
<1>1. ASSUME Goes(r, from, to) PROVE handling' \in [Requests -> [HandlerSteps -> Nat]]
  <2> DEFINE less == [handling EXCEPT ![r][from] = @ - 1]
  <2>1. handling[r][from] \in Nat /\ handling[r][from] > 0
    BY <1>1 DEF Goes, TypeOK
  <2>2. less \in [Requests -> [HandlerSteps -> Nat]]
    BY <2>1 DEF TypeOK
  <2>3. handling' = [less EXCEPT ![r][to] = handling[r][to] + 1]
    BY <1>1 DEF Goes
  <2>4. handling[r][to] + 1 \in Nat
    BY DEF TypeOK
  <2>5. ASSUME NEW n \in Nat
        PROVE  [less EXCEPT ![r][to] = n] \in [Requests -> [HandlerSteps -> Nat]]
    <3> HIDE DEF less
    <3> QED BY <2>2
  <2> QED BY <2>3, <2>4, <2>5
<1>2. ASSUME Ends(r, from) PROVE handling' \in [Requests -> [HandlerSteps -> Nat]]
  BY <1>2 DEF Ends, TypeOK
<1> QED BY <1>1, <1>2

\* The types, by the parts of the state that a step changes or leaves alone.
ChainTypes ==
  status \in [Requests -> Levels \cup {"unknown"}] /\ commitment \in [Requests -> Levels]
MonitorTypes ==
  /\ monitoring \in [Requests -> MonitorSteps]
  /\ pending \subseteq Requests
  /\ handling \in [Requests -> [HandlerSteps -> Nat]]
  /\ handled \in [Requests -> Nat]
ServiceTypes ==
  records \subseteq Requests /\ confirmed \subseteq records /\ resubscribing \subseteq Requests
WireTypes ==
  /\ link \in {"down", "open"}
  /\ opened \in BOOLEAN
  /\ live \subseteq Requests
  /\ notified \subseteq Requests
ExcuseTypes == excuse \in [Requests -> SUBSET (Deaf \cup Repeated)]
BudgetTypes ==
  budget \in [connections : 0..MaxConnections, restarts : 0..MaxRestarts, failures : 0..MaxFailures]

\* TypeOK is the conjunction of its parts.
LEMMA TypesByPart ==
  /\ TypeOK <=> /\ ChainTypes /\ MonitorTypes /\ ServiceTypes
                /\ WireTypes /\ ExcuseTypes /\ BudgetTypes
  /\ TypeOK' <=> /\ ChainTypes' /\ MonitorTypes' /\ ServiceTypes'
                 /\ WireTypes' /\ ExcuseTypes' /\ BudgetTypes'
BY DEF TypeOK, ChainTypes, MonitorTypes, ServiceTypes, WireTypes, ExcuseTypes, BudgetTypes

\* What a step does not touch keeps its types.
LEMMA UnchangedTypes ==
  ASSUME TypeOK
  PROVE  /\ UNCHANGED chain => ChainTypes'
         /\ UNCHANGED monitor => MonitorTypes'
         /\ UNCHANGED service => ServiceTypes'
         /\ UNCHANGED wire => WireTypes'
         /\ UNCHANGED excuse => ExcuseTypes'
         /\ UNCHANGED budget => BudgetTypes'
BY DEF TypeOK, ChainTypes, MonitorTypes, ServiceTypes, WireTypes, ExcuseTypes, BudgetTypes,
       chain, monitor, service, wire

\* What is spent stays within its bound (Spend).
LEMMA SpendTypes ==
  ASSUME TypeOK, NEW what \in {"connections", "restarts", "failures"}, Spend(what)
  PROVE  BudgetTypes'
BY BoundsAssumption DEF TypeOK, Spend, BudgetTypes

\* A reason that is noted is one of the reasons (Excuse).
LEMMA ExcuseIsTyped ==
  ASSUME TypeOK, NEW rs, NEW why \in Deaf \cup Repeated, Excuse(rs, why)
  PROVE  ExcuseTypes'
BY DEF TypeOK, Excuse, ExcuseTypes

\* The reasons and the steps that the actions name are such.
LEMMA Names ==
  /\ {"failed", "forgotten", "unrouted", "late", "early", "overlapped", "leftover",
      "resurrected"} \subseteq Deaf \cup Repeated
  /\ {"status", "fetch", "save", "unsubscribe"} = HandlerSteps
  /\ {"none", "save", "send", "set", "done", "failed"} = MonitorSteps
BY DEF Deaf, Repeated, HandlerSteps, MonitorSteps

\* The initial state has the declared types.
LEMMA TypeInitially == Init => TypeOK
<1> SUFFICES ASSUME Init PROVE TypeOK
  OBVIOUS
<1>1. ChainTypes BY DEF Init, ChainTypes, Levels
<1>2. MonitorTypes BY DEF Init, MonitorTypes, MonitorSteps
<1>3. ServiceTypes /\ WireTypes BY DEF Init, ServiceTypes, WireTypes
<1>4. ExcuseTypes BY DEF Init, ExcuseTypes
<1>5. BudgetTypes BY BoundsAssumption DEF Init, BudgetTypes
<1> QED BY <1>1, <1>2, <1>3, <1>4, <1>5, TypesByPart

\* The server's actions keep the types.
LEMMA ServerTypes ==
  ASSUME TypeOK, Connect \/ Drop \/ Restart \/ \E r \in Requests : Advance(r)
  PROVE  TypeOK'
<1>1. CASE Connect
  <2>1. BudgetTypes' BY <1>1, SpendTypes DEF Connect
  <2>2. WireTypes' BY <1>1 DEF Connect, TypeOK, WireTypes
  <2> QED BY <1>1, <2>1, <2>2, UnchangedTypes, TypesByPart DEF Connect
<1>2. CASE Drop
  <2>1. WireTypes' BY <1>2 DEF Drop, Lost, TypeOK, WireTypes
  <2> QED BY <1>2, <2>1, UnchangedTypes, TypesByPart DEF Drop
<1>3. CASE Restart
  <2>1. BudgetTypes' BY <1>3, SpendTypes DEF Restart
  <2>2. WireTypes' BY <1>3 DEF Restart, Lost, TypeOK, WireTypes
  <2>3. MonitorTypes' BY <1>3, Names DEF Restart, TypeOK, MonitorTypes
  <2>4. ServiceTypes' BY <1>3 DEF Restart, TypeOK, ServiceTypes
  <2>5. ExcuseTypes' BY <1>3, Names, ExcuseIsTyped DEF Restart
  <2> QED BY <1>3, <2>1, <2>2, <2>3, <2>4, <2>5, UnchangedTypes, TypesByPart DEF Restart
<1>4. ASSUME NEW r \in Requests, Advance(r) PROVE TypeOK'
  <2>1. ChainTypes' BY <1>4 DEF Advance, TypeOK, ChainTypes
  <2>2. WireTypes' BY <1>4 DEF Advance, TypeOK, WireTypes
  <2> QED BY <1>4, <2>1, <2>2, UnchangedTypes, TypesByPart DEF Advance
<1> QED BY <1>1, <1>2, <1>3, <1>4

\* The calls of monitor keep the types.
LEMMA MonitorCallTypes ==
  ASSUME TypeOK, NEW r \in Requests,
         Monitor(r) \/ Save(r) \/ Send(r) \/ SendFails(r) \/ Set(r)
  PROVE  TypeOK'
<1>1. MonitorTypes'
  BY Names DEF Monitor, Save, Send, SendFails, Set, Monitors, TypeOK, MonitorTypes
<1>2. ChainTypes'
  BY UnchangedTypes DEF Monitor, Save, Send, SendFails, Set
<1>3. ServiceTypes'
  BY DEF Monitor, Save, Send, SendFails, Set, service, TypeOK, ServiceTypes
<1>4. WireTypes'
  BY DEF Monitor, Save, Send, SendFails, Set, wire, Accept, TypeOK, WireTypes
<1>5. ExcuseTypes'
  BY Names, UnchangedTypes, ExcuseIsTyped DEF Monitor, Save, Send, SendFails, Set
<1>6. BudgetTypes'
  BY UnchangedTypes, SpendTypes DEF Monitor, Save, Send, SendFails, Set
<1> QED BY <1>1, <1>2, <1>3, <1>4, <1>5, <1>6, TypesByPart

\* The handling of notifications keeps the types.
LEMMA HandlingCallTypes ==
  ASSUME TypeOK, NEW r \in Requests,
         \/ Confirm(r) \/ Receive(r) \/ Fetch(r) \/ SaveTransaction(r)
         \/ HandlingFails(r) \/ Unsubscribe(r) \/ UnsubscribeFails(r)
  PROVE  TypeOK'
<1>1. handling' \in [Requests -> [HandlerSteps -> Nat]]
  <2>1. CASE Receive(r)
    <3>1. handling[r]["fetch"] + 1 \in Nat
      BY Names DEF TypeOK
    <3>2. [handling EXCEPT ![r]["fetch"] = handling[r]["fetch"] + 1]
            \in [Requests -> [HandlerSteps -> Nat]]
      BY <3>1, Names DEF TypeOK
    <3> QED BY <2>1, <3>2 DEF Receive, TypeOK
  <2>2. CASE Fetch(r) \/ SaveTransaction(r) \/ HandlingFails(r) \/ Unsubscribe(r) \/ UnsubscribeFails(r)
    <3>1. \E from, to \in HandlerSteps : Goes(r, from, to) \/ Ends(r, from)
      BY <2>2, Names DEF Fetch, SaveTransaction, HandlingFails, Unsubscribe, UnsubscribeFails
    <3> QED BY <3>1, HandlingTypes
  <2>3. CASE Confirm(r)
    BY <2>3 DEF Confirm, monitor, TypeOK
  <2> QED BY <2>1, <2>2, <2>3
<1>2. MonitorTypes'
  <2>1. UNCHANGED monitoring
    BY DEF Confirm, Receive, Fetch, SaveTransaction, HandlingFails, Unsubscribe,
           UnsubscribeFails, monitor
  <2>2. pending' \subseteq Requests
    BY SMTT(30) DEF Confirm, Receive, Fetch, SaveTransaction, HandlingFails, Unsubscribe,
                    UnsubscribeFails, monitor, TypeOK
  <2>3. handled' = handled \/ handled' = [handled EXCEPT ![r] = handled[r] + 1]
    BY DEF Confirm, Receive, Fetch, SaveTransaction, HandlingFails, Unsubscribe,
           UnsubscribeFails, monitor
  <2>4. handled' \in [Requests -> Nat]
    BY <2>3 DEF TypeOK
  <2> QED BY <1>1, <2>1, <2>2, <2>4 DEF TypeOK, MonitorTypes
<1>3. ChainTypes'
  BY UnchangedTypes DEF Confirm, Receive, Fetch, SaveTransaction, HandlingFails, Unsubscribe,
                        UnsubscribeFails
<1>4. ServiceTypes'
  BY DEF Confirm, Receive, Fetch, SaveTransaction, HandlingFails, Unsubscribe,
         UnsubscribeFails, service, TypeOK, ServiceTypes
<1>5. WireTypes'
  BY DEF Confirm, Receive, Fetch, SaveTransaction, HandlingFails, Unsubscribe,
         UnsubscribeFails, Leaves, wire, TypeOK, WireTypes
<1>6. ExcuseTypes'
  BY Names, UnchangedTypes, ExcuseIsTyped
     DEF Confirm, Receive, Fetch, SaveTransaction, HandlingFails, Unsubscribe, UnsubscribeFails
<1>7. BudgetTypes'
  BY UnchangedTypes, SpendTypes
     DEF Confirm, Receive, Fetch, SaveTransaction, HandlingFails, Unsubscribe, UnsubscribeFails
<1> QED BY <1>2, <1>3, <1>4, <1>5, <1>6, <1>7, TypesByPart

\* Recovery and re-subscription keep the types.
LEMMA RecoveryTypes ==
  ASSUME TypeOK,
         HandleOpened \/ \E r \in Requests :
           Resubscribe(r) \/ ResubscribeFails(r) \/ FetchStatus(r) \/ FetchStatusFails(r)
  PROVE  TypeOK'
<1>1. CASE HandleOpened
  <2>1. MonitorTypes' BY <1>1, Names DEF HandleOpened, TypeOK, MonitorTypes
  <2>2. ServiceTypes' BY <1>1 DEF HandleOpened, TypeOK, ServiceTypes
  <2>3. WireTypes' BY <1>1 DEF HandleOpened, TypeOK, WireTypes
  <2>4. ExcuseTypes' BY <1>1, Names DEF HandleOpened, TypeOK, ExcuseTypes
  <2> QED BY <1>1, <2>1, <2>2, <2>3, <2>4, UnchangedTypes, TypesByPart DEF HandleOpened
<1>2. ASSUME NEW r \in Requests, Resubscribe(r) \/ ResubscribeFails(r) PROVE TypeOK'
  <2>1. ServiceTypes' BY <1>2 DEF Resubscribe, ResubscribeFails, TypeOK, ServiceTypes
  <2>2. WireTypes'
    BY <1>2 DEF Resubscribe, ResubscribeFails, Accept, wire, TypeOK, WireTypes
  <2>3. ExcuseTypes'
    <3>1. CASE Resubscribe(r)
      BY <3>1, Names, ExcuseIsTyped DEF Resubscribe
    <3>2. CASE ResubscribeFails(r)
      BY <3>2, Names DEF ResubscribeFails, TypeOK, ExcuseTypes
    <3> QED BY <1>2, <3>1, <3>2
  <2>4. BudgetTypes' BY <1>2, UnchangedTypes, SpendTypes DEF Resubscribe, ResubscribeFails
  <2> QED
    BY <1>2, <2>1, <2>2, <2>3, <2>4, UnchangedTypes, TypesByPart DEF Resubscribe, ResubscribeFails
<1>3. ASSUME NEW r \in Requests, FetchStatus(r) \/ FetchStatusFails(r) PROVE TypeOK'
  <2>1. Goes(r, "status", "fetch") \/ Ends(r, "status")
    BY <1>3 DEF FetchStatus, FetchStatusFails
  <2>2. handling' \in [Requests -> [HandlerSteps -> Nat]]
    BY <2>1, Names, HandlingTypes
  <2>3. MonitorTypes' BY <1>3, <2>2 DEF FetchStatus, FetchStatusFails, TypeOK, MonitorTypes
  <2>4. ExcuseTypes'
    BY <1>3, Names, UnchangedTypes, ExcuseIsTyped DEF FetchStatus, FetchStatusFails
  <2>5. BudgetTypes' BY <1>3, UnchangedTypes, SpendTypes DEF FetchStatus, FetchStatusFails
  <2> QED
    BY <1>3, <2>3, <2>4, <2>5, UnchangedTypes, TypesByPart DEF FetchStatus, FetchStatusFails
<1> QED BY <1>1, <1>2, <1>3

\* Every step keeps the types: one case per action.
LEMMA TypeKept == TypeOK /\ [Next]_vars => TypeOK'
<1> SUFFICES ASSUME TypeOK, [Next]_vars PROVE TypeOK'
  OBVIOUS
<1>1. CASE UNCHANGED vars
  BY <1>1, UnchangedTypes, TypesByPart DEF vars
<1>2. CASE Next
  BY <1>2, ServerTypes, MonitorCallTypes, HandlingCallTypes, RecoveryTypes DEF Next
<1> QED BY <1>1, <1>2

\* The state of the monitor, of the service and of the wire always has the
\* declared types, whatever the number of signatures, connections and failures.
THEOREM TypeCorrect == Spec => []TypeOK
BY TypeInitially, TypeKept, PTL DEF Spec

------------------------------------------------------------------------------
(* Nothing is handled early.                                               *)

\* The invariant: whatever leads to the handling of a signature, a notification
\* on its way or a call that fetches or saves, has seen its level reached.
Evidence(r) ==
  r \in notified \/ handling[r]["fetch"] > 0 \/ handling[r]["save"] > 0 \/ handled[r] > 0
OnlyOnEvidence == \A r \in Requests : Evidence(r) => Reached(r)

\* The level of a signature never falls (Advance).
LEMMA ReachedStays ==
  ASSUME TypeOK, [Next]_vars, NEW r \in Requests, Reached(r)
  PROVE  Reached(r)'
<1>1. CASE \E q \in Requests : Advance(q)
  <2>1. PICK q \in Requests : Advance(q) BY <1>1
  <2>2. PICK level \in Levels :
          /\ Rank(level) = Rank(status[q]) + 1
          /\ status' = [status EXCEPT ![q] = level]
    BY <2>1 DEF Advance
  <2>3. commitment' = commitment BY <2>1 DEF Advance
  <2>4. CASE q # r
    BY <2>2, <2>3, <2>4 DEF Reached, TypeOK
  <2>5. CASE q = r
    <3>1. Rank(status[q]) \in Nat /\ Rank(commitment[q]) \in Nat
      BY DEF TypeOK, Levels, Rank
    <3>2. status'[r] = level
      BY <2>2, <2>5 DEF TypeOK
    <3> QED BY <2>2, <2>3, <2>5, <3>1, <3>2 DEF Reached
  <2> QED BY <2>4, <2>5
<1>2. CASE UNCHANGED chain
  BY <1>2 DEF chain, Reached
<1>3. (\E q \in Requests : Advance(q)) \/ UNCHANGED chain
  BY DEF Next, vars, Monitor, Save, Send, SendFails, Set, Confirm, Receive, Fetch,
         SaveTransaction, HandlingFails, Unsubscribe, UnsubscribeFails, Resubscribe,
         ResubscribeFails, FetchStatus, FetchStatusFails, HandleOpened, Connect, Drop, Restart
<1> QED BY <1>1, <1>2, <1>3

\* The status that recovery accepts is one that has reached the level
\* (#hasAtLeastCommitmentLevel against the order of the levels).
LEMMA AtLeastIsReached ==
  ASSUME TypeOK, NEW r \in Requests,
         HasAtLeastCommitmentLevel(status[r], commitment[r])
  PROVE  Reached(r)
BY DEF TypeOK, HasAtLeastCommitmentLevel, Reached, Rank, Levels

\* A call has got to a step only if it was there, or went there by a step that
\* this lemma names (Goes, Ends).
LEMMA CountsMove ==
  ASSUME TypeOK, NEW r \in Requests, NEW from \in HandlerSteps, NEW to \in HandlerSteps,
         Goes(r, from, to) \/ Ends(r, from)
  PROVE  /\ handling[r][from] > 0
         /\ \A q \in Requests, s \in HandlerSteps :
              handling'[q][s] > 0 => handling[q][s] > 0 \/ (q = r /\ s = to /\ Goes(r, from, to))
<1>1. handling[r][from] > 0
  BY DEF Goes, Ends
<1>2. ASSUME NEW q \in Requests, NEW s \in HandlerSteps, handling'[q][s] > 0,
             ~(q = r /\ s = to /\ Goes(r, from, to))
      PROVE  handling[q][s] > 0
  <2>0. handling[q][s] \in Nat /\ handling[r][from] \in Nat
    BY DEF TypeOK
  <2>1. CASE Ends(r, from)
    <3>1. handling'[q][s] = handling[q][s] \/ (q = r /\ s = from)
      BY <2>1 DEF Ends, TypeOK
    <3> QED BY <1>1, <1>2, <3>1
  <2>2. CASE Goes(r, from, to)
    <3>1. handling' = [handling EXCEPT ![r][from] = handling[r][from] - 1,
                                       ![r][to] = handling[r][to] + 1]
      BY <2>2 DEF Goes
    <3>2. q # r \/ s # to
      BY <1>2, <2>2
    <3>3. handling'[q][s] = handling[q][s] \/ (q = r /\ s = from)
      BY <3>1, <3>2 DEF TypeOK
    <3> QED BY <1>1, <1>2, <3>3
  <2> QED BY <2>1, <2>2
<1> QED BY <1>1, <1>2

\* At first there is no evidence and nothing handled.
LEMMA EvidenceInitially == Init => OnlyOnEvidence
BY DEF Init, OnlyOnEvidence, Evidence, HandlerSteps

\* Evidence of a signature appears only when its level has been reached.
LEMMA EvidenceIsTrue ==
  ASSUME TypeOK, OnlyOnEvidence, [Next]_vars, NEW q \in Requests, Evidence(q)', ~Evidence(q)
  PROVE  Reached(q)'
<1> USE Names
<1>1. CASE \E r \in Requests : Advance(r)
  <2>1. PICK r \in Requests : Advance(r) BY <1>1
  <2>2. UNCHANGED <<handling, handled, commitment>>
    BY <2>1 DEF Advance, monitor
  <2>3. q \in notified' /\ q \notin notified
    BY <2>2 DEF Evidence
  <2>4. PICK level \in Levels :
          /\ Rank(level) = Rank(status[r]) + 1
          /\ status' = [status EXCEPT ![r] = level]
          /\ q = r /\ level = commitment[r]
    BY <2>1, <2>3 DEF Advance
  <2>5. status'[q] = commitment'[q]
    BY <2>2, <2>4 DEF TypeOK
  <2>6. Rank(commitment'[q]) \in Nat
    BY <2>2 DEF TypeOK, Levels, Rank
  <2> QED BY <2>5, <2>6 DEF Reached
<1>2. ASSUME NEW r \in Requests, Send(r) \/ Resubscribe(r) PROVE Reached(q)'
  <2>1. UNCHANGED <<handling, handled>>
    BY <1>2 DEF Send, Resubscribe, monitor
  <2>2. q \in notified' /\ q \notin notified
    BY <2>1 DEF Evidence
  <2>3. q = r /\ Reached(r)
    BY <1>2, <2>2 DEF Send, Resubscribe, Accept
  <2> QED BY <2>3, ReachedStays
<1>3. ASSUME NEW r \in Requests, Receive(r) PROVE Reached(q)'
  <2>1. notified' \subseteq notified /\ handled' = handled /\ r \in notified
    BY <1>3 DEF Receive
  <2>2. handling'[q]["fetch"] > 0 \/ handling'[q]["save"] > 0
    BY <2>1 DEF Evidence
  <2>3. q = r \/ handling'[q] = handling[q]
    BY <1>3 DEF Receive, TypeOK
  <2>4. q = r
    BY <2>2, <2>3 DEF Evidence
  <2> QED BY <2>1, <2>4 DEF Evidence
<1>4. ASSUME NEW r \in Requests,
             Fetch(r) \/ SaveTransaction(r) \/ HandlingFails(r) \/ Unsubscribe(r)
               \/ UnsubscribeFails(r) \/ FetchStatus(r) \/ FetchStatusFails(r)
      PROVE  Reached(q)'
  <2>1. notified' = notified
    BY <1>4 DEF Fetch, SaveTransaction, HandlingFails, Unsubscribe, UnsubscribeFails,
                FetchStatus, FetchStatusFails, wire
  <2>2. PICK from \in HandlerSteps, to \in HandlerSteps :
          /\ Goes(r, from, to) \/ Ends(r, from)
          /\ Goes(r, from, to) =>
               \/ from \in {"fetch", "save"}
               \/ to \notin {"fetch", "save"}
               \/ HasAtLeastCommitmentLevel(status[r], commitment[r])
    BY <1>4 DEF Fetch, SaveTransaction, HandlingFails, Unsubscribe, UnsubscribeFails,
                FetchStatus, FetchStatusFails
  <2>3. handling[r][from] > 0
    BY <2>2, CountsMove
  <2>4. CASE handling'[q]["fetch"] > 0 \/ handling'[q]["save"] > 0
    <3>1. q = r /\ to \in {"fetch", "save"} /\ Goes(r, from, to)
      BY <2>2, <2>4, CountsMove DEF Evidence
    <3>2. HasAtLeastCommitmentLevel(status[r], commitment[r])
      BY <2>2, <2>3, <3>1 DEF Evidence
    <3> QED BY <3>1, <3>2, AtLeastIsReached, ReachedStays
  <2>5. CASE handled'[q] > 0
    <3>1. handled'[q] = handled[q] \/ (q = r /\ SaveTransaction(r))
      BY <1>4 DEF Fetch, SaveTransaction, HandlingFails, Unsubscribe, UnsubscribeFails,
                  FetchStatus, FetchStatusFails, TypeOK
    <3>2. handled[q] > 0 \/ (q = r /\ handling[r]["save"] > 0)
      BY <2>5, <3>1 DEF SaveTransaction, Goes
    <3> QED BY <3>2 DEF Evidence
  <2> QED BY <2>1, <2>4, <2>5 DEF Evidence
<1>5. CASE HandleOpened
  <2>1. notified' = notified /\ handled' = handled
    BY <1>5 DEF HandleOpened
  <2>2. handling'[q]["fetch"] = handling[q]["fetch"] /\ handling'[q]["save"] = handling[q]["save"]
    BY <1>5 DEF HandleOpened, TypeOK
  <2> QED BY <2>1, <2>2 DEF Evidence
<1>6. CASE Drop
  BY <1>6 DEF Drop, Lost, monitor, Evidence
<1>7. CASE Restart
  BY <1>7 DEF Restart, Lost, Evidence
<1>8. CASE UNCHANGED <<handling, handled, notified>>
  BY <1>8 DEF Evidence
<1>9. ASSUME NEW r \in Requests,
             Monitor(r) \/ Save(r) \/ SendFails(r) \/ Set(r) \/ Confirm(r) \/ ResubscribeFails(r)
      PROVE  UNCHANGED <<handling, handled, notified>>
  BY <1>9 DEF Monitor, Save, SendFails, Set, Confirm, ResubscribeFails, monitor, wire
<1>10. Connect => UNCHANGED <<handling, handled, notified>>
  BY DEF Connect, monitor
<1>11. UNCHANGED vars => UNCHANGED <<handling, handled, notified>>
  BY DEF vars, monitor, wire
<1> QED BY <1>1, <1>2, <1>3, <1>4, <1>5, <1>6, <1>7, <1>8, <1>9, <1>10, <1>11 DEF Next

\* Evidence stays true: one case per action.
LEMMA EvidenceKept == TypeOK /\ OnlyOnEvidence /\ [Next]_vars => OnlyOnEvidence'
<1> SUFFICES ASSUME TypeOK, OnlyOnEvidence, [Next]_vars, NEW q \in Requests, Evidence(q)'
             PROVE  Reached(q)'
  BY DEF OnlyOnEvidence
<1>1. CASE Evidence(q)
  BY <1>1, ReachedStays DEF OnlyOnEvidence
<1>2. CASE ~Evidence(q)
  BY <1>2, EvidenceIsTrue
<1> QED BY <1>1, <1>2

\* A transaction is saved and tracked only when its signature has reached the
\* level it was monitored for, by a notification or by recovery.
THEOREM NothingIsHandledEarly == Spec => []NeverEarly
<1>1. OnlyOnEvidence => NeverEarly
  BY DEF OnlyOnEvidence, Evidence, NeverEarly
<1> QED BY <1>1, TypeInitially, TypeKept, EvidenceInitially, EvidenceKept, PTL DEF Spec

------------------------------------------------------------------------------
(* What the actions of one request leave alone.                            *)

RequestStep(r) ==
  \/ Advance(r) \/ Monitor(r) \/ Save(r) \/ Send(r) \/ SendFails(r) \/ Set(r)
  \/ Confirm(r) \/ Receive(r) \/ Fetch(r) \/ SaveTransaction(r) \/ HandlingFails(r)
  \/ Unsubscribe(r) \/ UnsubscribeFails(r) \/ Resubscribe(r) \/ ResubscribeFails(r)
  \/ FetchStatus(r) \/ FetchStatusFails(r)

\* All that the monitor, the service and the server know of a request is as before.
Same(r) ==
  /\ status'[r] = status[r] /\ commitment'[r] = commitment[r]
  /\ monitoring'[r] = monitoring[r] /\ handling'[r] = handling[r]
  /\ handled'[r] = handled[r] /\ excuse'[r] = excuse[r]
  /\ r \in pending' <=> r \in pending
  /\ r \in records' <=> r \in records
  /\ r \in resubscribing' <=> r \in resubscribing
  /\ r \in live' <=> r \in live
  /\ r \in notified' <=> r \in notified

\* A reason that is noted for another request is none for this one (Excuse).
LEMMA ExcusesOthers ==
  ASSUME TypeOK, NEW rs, NEW why, Excuse(rs, why), NEW r \in Requests
  PROVE  excuse'[r] = IF r \in rs THEN excuse[r] \cup {why} ELSE excuse[r]
BY DEF TypeOK, Excuse

\* What Goes and Ends do to the counts.
LEMMA GoesCounts ==
  ASSUME TypeOK, NEW q \in Requests, NEW from \in HandlerSteps, NEW to \in HandlerSteps,
         from # to, Goes(q, from, to)
  PROVE  /\ handling[q][from] > 0
         /\ handling'[q][from] = handling[q][from] - 1
         /\ handling'[q][to] = handling[q][to] + 1
         /\ \A s \in HandlerSteps \ {from, to} : handling'[q][s] = handling[q][s]
         /\ \A r \in Requests \ {q} : handling'[r] = handling[r]
<1>1. handling' = [handling EXCEPT ![q][from] = handling[q][from] - 1,
                                   ![q][to] = handling[q][to] + 1]
  BY DEF Goes
<1>2. handling'[q] = [[handling[q] EXCEPT ![from] = handling[q][from] - 1]
                                   EXCEPT ![to] = handling[q][to] + 1]
  BY <1>1, SMTT(30) DEF TypeOK
<1>3. \A r \in Requests \ {q} : handling'[r] = handling[r]
  BY <1>1 DEF TypeOK
<1>4. handling[q] \in [HandlerSteps -> Nat]
  BY DEF TypeOK
<1> QED BY <1>2, <1>3, <1>4 DEF Goes

\* A call that ends is gone from where it was.
LEMMA EndsCounts ==
  ASSUME TypeOK, NEW q \in Requests, NEW from \in HandlerSteps, Ends(q, from)
  PROVE  /\ handling[q][from] > 0
         /\ handling'[q][from] = handling[q][from] - 1
         /\ \A s \in HandlerSteps \ {from} : handling'[q][s] = handling[q][s]
         /\ \A r \in Requests \ {q} : handling'[r] = handling[r]
<1>1. handling[q] \in [HandlerSteps -> Nat]
  BY DEF TypeOK
<1> QED BY <1>1 DEF Ends, TypeOK

\* An action of another request leaves this one, and the connection, alone.
LEMMA Elsewhere ==
  ASSUME TypeOK, NEW q \in Requests, RequestStep(q), NEW r \in Requests, r # q
  PROVE  Same(r) /\ UNCHANGED <<link, opened>>
<1> USE Names
<1>1. handling'[r] = handling[r]
  <2>1. CASE \E from, to \in HandlerSteps : from # to /\ Goes(q, from, to)
    BY <2>1, GoesCounts
  <2>2. CASE \E from \in HandlerSteps : Ends(q, from)
    BY <2>2, EndsCounts
  <2>3. CASE UNCHANGED handling
    BY <2>3
  <2>4. CASE Receive(q)
    BY <2>4 DEF Receive, TypeOK
  <2> QED
    BY <2>1, <2>2, <2>3, <2>4
       DEF RequestStep, Advance, Monitor, Save, Send, SendFails, Set, Confirm, Fetch,
           SaveTransaction, HandlingFails, Unsubscribe, UnsubscribeFails, Resubscribe,
           ResubscribeFails, FetchStatus, FetchStatusFails, monitor
<1>2. excuse'[r] = excuse[r]
  <2>1. CASE \E rs \in SUBSET {q}, why \in Deaf \cup Repeated : Excuse(rs, why)
    BY <2>1, ExcusesOthers
  <2>2. CASE UNCHANGED excuse
    BY <2>2
  <2>3. CASE ResubscribeFails(q)
    BY <2>3 DEF ResubscribeFails, TypeOK
  <2> QED
    BY <2>1, <2>2, <2>3
       DEF RequestStep, Advance, Monitor, Save, Send, SendFails, Set, Confirm, Receive, Fetch,
           SaveTransaction, HandlingFails, Unsubscribe, UnsubscribeFails, Resubscribe,
           FetchStatus, FetchStatusFails
<1>3. status'[r] = status[r] /\ commitment'[r] = commitment[r]
  BY DEF RequestStep, Advance, Monitor, Save, Send, SendFails, Set, Confirm, Receive, Fetch,
         SaveTransaction, HandlingFails, Unsubscribe, UnsubscribeFails, Resubscribe,
         ResubscribeFails, FetchStatus, FetchStatusFails, chain, TypeOK
<1>4. monitoring'[r] = monitoring[r] /\ handled'[r] = handled[r] /\ (r \in pending' <=> r \in pending)
  BY DEF RequestStep, Advance, Monitor, Save, Send, SendFails, Set, Confirm, Receive, Fetch,
         SaveTransaction, HandlingFails, Unsubscribe, UnsubscribeFails, Resubscribe,
         ResubscribeFails, FetchStatus, FetchStatusFails, Monitors, monitor, TypeOK
<1>5. /\ r \in records' <=> r \in records
      /\ r \in resubscribing' <=> r \in resubscribing
  BY DEF RequestStep, Advance, Monitor, Save, Send, SendFails, Set, Confirm, Receive, Fetch,
         SaveTransaction, HandlingFails, Unsubscribe, UnsubscribeFails, Resubscribe,
         ResubscribeFails, FetchStatus, FetchStatusFails, service
<1>6. /\ r \in live' <=> r \in live
      /\ r \in notified' <=> r \in notified
      /\ UNCHANGED <<link, opened>>
  BY DEF RequestStep, Advance, Monitor, Save, Send, SendFails, Set, Confirm, Receive, Fetch,
         SaveTransaction, HandlingFails, Unsubscribe, UnsubscribeFails, Resubscribe,
         ResubscribeFails, FetchStatus, FetchStatusFails, Accept, Leaves, wire
<1> QED BY <1>1, <1>2, <1>3, <1>4, <1>5, <1>6 DEF Same

\* A reason, once noted, stays.
LEMMA ReasonsStay ==
  ASSUME TypeOK, [Next]_vars, NEW r \in Requests
  PROVE  excuse[r] \subseteq excuse'[r]
<1>1. CASE \E rs, why : Excuse(rs, why)
  BY <1>1, ExcusesOthers
<1>2. CASE UNCHANGED excuse
  BY <1>2
<1>3. CASE HandleOpened \/ \E q \in Requests : ResubscribeFails(q)
  BY <1>3 DEF HandleOpened, ResubscribeFails, TypeOK
<1> QED
  BY <1>1, <1>2, <1>3
     DEF Next, vars, Advance, Monitor, Save, Send, SendFails, Set, Confirm, Receive, Fetch,
         SaveTransaction, HandlingFails, Unsubscribe, UnsubscribeFails, Resubscribe,
         FetchStatus, FetchStatusFails, Connect, Drop, Restart

------------------------------------------------------------------------------
(* Nothing is handled twice, or left behind, without a reason.             *)

\* One call at most is about the request.
Single(r) ==
  \A s \in HandlerSteps :
    /\ handling[r][s] <= 1
    /\ \A t \in HandlerSteps \ {s} : handling[r][s] = 0 \/ handling[r][t] = 0

\* The request is unheard of until its record is saved.
NewBefore(r) ==
  monitoring[r] \in {"none", "save"} =>
    handled[r] = 0 /\ ~Busy(r) /\ r \notin pending \cup records \cup resubscribing

\* Without a reason, one call at most handles it, and nothing is left that could bring
\* another one: a record left by a restart is not the server's yet.
Tidy(r) ==
  /\ Single(r)
  /\ handled[r] <= 1
  /\ handled[r] > 0 => \A s \in HandlerSteps \ {"unsubscribe"} : handling[r][s] = 0
  /\ handled[r] > 0 /\ ~Busy(r) =>
       /\ r \notin pending
       /\ r \in records => /\ r \notin live \cup notified
                           /\ monitoring[r] # "send"
                           /\ "forgotten" \in excuse[r]

Once(r) == NewBefore(r) /\ (excuse[r] \cap Repeated = {} => Tidy(r))
OnceInv == \A r \in Requests : Once(r)

\* At first no request has a call or was handled.
LEMMA OnceInitially == Init => OnceInv
BY DEF Init, OnceInv, Once, NewBefore, Tidy, Single, Busy, HandlerSteps

\* What has not changed is as tidy as before.
LEMMA SameOnce ==
  ASSUME NEW r \in Requests, Same(r), Once(r)
  PROVE  Once(r)'
BY DEF Same, Once, NewBefore, Tidy, Single, Busy

\* Requests that have been subscribed to stay so.
LEMMA NewBeforeKept ==
  ASSUME TypeOK, NEW r \in Requests, RequestStep(r), NewBefore(r)
  PROVE  NewBefore(r)'
<1> USE Names
<1>1. CASE monitoring[r] \in {"none", "save"}
  <2>1. \A s \in HandlerSteps : handling[r][s] = 0
    BY <1>1 DEF NewBefore, Busy, TypeOK
  <2>2. ~Goes(r, "status", "fetch") /\ \A from, to \in HandlerSteps : ~Goes(r, from, to) /\ ~Ends(r, from)
    BY <2>1 DEF Goes, Ends
  <2>3. Advance(r) \/ Monitor(r) \/ Save(r) \/ Receive(r)
    BY <1>1, <2>2 DEF RequestStep, Send, SendFails, Set, Confirm, Fetch, SaveTransaction,
         HandlingFails, Unsubscribe, UnsubscribeFails, Resubscribe, ResubscribeFails,
         FetchStatus, FetchStatusFails, Monitors, NewBefore
  <2>4. CASE Advance(r)
    BY <2>4 DEF Advance, monitor, service, NewBefore, Busy
  <2>5. CASE Monitor(r)
    BY <1>1, <2>5 DEF Monitor, service, NewBefore, Busy
  <2>6. CASE Save(r)
    BY <2>6 DEF Save, Monitors, TypeOK, NewBefore
  <2>7. CASE Receive(r)
    <3>1. r \notin confirmed
      BY <1>1 DEF NewBefore, TypeOK
    <3> QED BY <2>7, <3>1 DEF Receive, service, NewBefore, Busy
  <2> QED BY <2>3, <2>4, <2>5, <2>6, <2>7
<1>2. CASE monitoring[r] \notin {"none", "save"}
  <2>1. monitoring'[r] \notin {"none", "save"}
    BY <1>2 DEF RequestStep, Advance, Monitor, Save, Send, SendFails, Set, Confirm, Receive,
         Fetch, SaveTransaction, HandlingFails, Unsubscribe, UnsubscribeFails, Resubscribe,
         ResubscribeFails, FetchStatus, FetchStatusFails, Monitors, monitor, TypeOK
  <2> QED BY <2>1 DEF NewBefore
<1> QED BY <1>1, <1>2

\* The calls of monitor, and the server, leave no more calls than there were.
LEMMA MonitorKeepsTidy ==
  ASSUME TypeOK, NEW r \in Requests, Once(r), excuse'[r] \cap Repeated = {}, Tidy(r),
         Advance(r) \/ Monitor(r) \/ Save(r) \/ Send(r) \/ SendFails(r) \/ Set(r) \/ Confirm(r)
  PROVE  Tidy(r)'
<1> USE Names
<1>1. UNCHANGED <<handling, handled>>
  BY DEF Advance, Monitor, Save, Send, SendFails, Set, Confirm, monitor
<1>2. Single(r)' /\ handled'[r] <= 1
      /\ (handled'[r] > 0 => \A s \in HandlerSteps \ {"unsubscribe"} : handling'[r][s] = 0)
  BY <1>1 DEF Tidy, Single
<1>3. ASSUME handled[r] > 0, ~Busy(r)
      PROVE  /\ r \notin pending'
             /\ r \in records' => /\ r \notin live' \cup notified'
                                  /\ monitoring'[r] # "send"
                                  /\ "forgotten" \in excuse'[r]
  <2>1. monitoring[r] \notin {"none", "save"}
    BY <1>3 DEF Once, NewBefore
  <2>2. CASE Advance(r)
    BY <1>3, <2>2 DEF Tidy, Advance, monitor, service
  <2>3. CASE Send(r)
    <3>1. UNCHANGED <<pending, records>> /\ monitoring[r] = "send"
      BY <2>3 DEF Send, Monitors, service
    <3> QED BY <1>3, <3>1 DEF Tidy
  <2>4. CASE SendFails(r)
    <3>1. UNCHANGED <<pending, records>> /\ monitoring[r] = "send"
      BY <2>4 DEF SendFails, Monitors, service
    <3> QED BY <1>3, <3>1 DEF Tidy
  <2>5. CASE Set(r)
    <3>1. "leftover" \in excuse'[r]
      BY <1>3, <2>5 DEF Set, Excuse
    <3> QED BY <3>1 DEF Repeated
  <2>6. CASE Confirm(r)
    BY <1>3, <2>6 DEF Tidy, Confirm, monitor, wire
  <2> QED BY <2>1, <2>2, <2>3, <2>4, <2>5, <2>6 DEF Monitor, Save, Monitors
<1>4. Busy(r)' <=> Busy(r)
  BY <1>1 DEF Busy
<1> QED BY <1>1, <1>2, <1>3, <1>4 DEF Tidy

\* A call that goes on, or ends, is still the only one.
LEMMA SingleMoves ==
  ASSUME TypeOK, NEW r \in Requests, Single(r),
         NEW from \in HandlerSteps, NEW to \in HandlerSteps, from # to
  PROVE  /\ Goes(r, from, to) => /\ handling'[r][to] = 1
                                 /\ \A s \in HandlerSteps \ {to} : handling'[r][s] = 0
         /\ Ends(r, from) => \A s \in HandlerSteps : handling'[r][s] = 0
<1>1. handling[r] \in [HandlerSteps -> Nat]
  BY DEF TypeOK
<1>2. ASSUME handling[r][from] > 0
      PROVE  handling[r][from] = 1 /\ \A s \in HandlerSteps \ {from} : handling[r][s] = 0
  BY <1>1, <1>2 DEF Single
<1>3. ASSUME Goes(r, from, to)
      PROVE  handling'[r][to] = 1 /\ \A s \in HandlerSteps \ {to} : handling'[r][s] = 0
  <2>1. handling[r][from] = 1 /\ \A s \in HandlerSteps \ {from} : handling[r][s] = 0
    BY <1>2, <1>3, GoesCounts
  <2> QED BY <1>3, <2>1, GoesCounts
<1>4. ASSUME Ends(r, from)
      PROVE  \A s \in HandlerSteps : handling'[r][s] = 0
  <2>1. handling[r][from] = 1 /\ \A s \in HandlerSteps \ {from} : handling[r][s] = 0
    BY <1>2, <1>4, EndsCounts
  <2> QED BY <1>4, <2>1, EndsCounts
<1> QED BY <1>3, <1>4

\* A single call can be at one step only.
LEMMA OneCallIsSingle ==
  ASSUME NEW r \in Requests, NEW only \in HandlerSteps,
         handling[r][only] = 1, \A s \in HandlerSteps \ {only} : handling[r][s] = 0
  PROVE  Single(r) /\ Busy(r)
BY DEF Single, Busy

\* Where there was no call, one that starts is the only one.
LEMMA NoCallIsSingle ==
  ASSUME NEW r \in Requests, \A s \in HandlerSteps : handling[r][s] = 0
  PROVE  Single(r) /\ ~Busy(r)
BY DEF Single, Busy

\* Handling a request, or recovering it, leaves it tidy.
LEMMA HandlingKeepsTidy ==
  ASSUME TypeOK, NEW r \in Requests, Once(r), excuse'[r] \cap Repeated = {}, Tidy(r),
         \/ Receive(r) \/ Fetch(r) \/ SaveTransaction(r) \/ HandlingFails(r)
         \/ Unsubscribe(r) \/ UnsubscribeFails(r) \/ FetchStatus(r) \/ FetchStatusFails(r)
  PROVE  Tidy(r)'
<1> USE Names
<1>0. Single(r) /\ handled[r] \in Nat
  BY DEF Tidy, TypeOK
<1>1. CASE Receive(r)
  <2>1. UNCHANGED <<handled, pending, records, live, monitoring>> /\ notified' \subseteq notified
    BY <1>1 DEF Receive, service
  <2>2. excuse[r] \subseteq excuse'[r]
    BY <1>1 DEF Receive, Excuse
  <2>3. CASE r \in confirmed
    <3>1. ~Busy(r)
      <4>1. Busy(r) => "overlapped" \in excuse'[r]
        BY <1>1, <2>3 DEF Receive, Excuse
      <4> QED BY <4>1 DEF Repeated
    <3>2. handled[r] = 0
      BY <1>0, <1>1, <2>3, <3>1 DEF Tidy, Receive, TypeOK
    <3>3. \A s \in HandlerSteps : handling[r][s] = 0
      BY <3>1 DEF Busy, TypeOK
    <3>4. handling'[r]["fetch"] = 1 /\ \A s \in HandlerSteps \ {"fetch"} : handling'[r][s] = 0
      BY <1>1, <2>3, <3>3 DEF Receive, TypeOK
    <3>5. Single(r)'
      BY <3>4 DEF Single
    <3> QED BY <2>1, <3>2, <3>5 DEF Tidy
  <2>4. CASE r \notin confirmed
    <3>1. UNCHANGED handling
      BY <1>1, <2>4 DEF Receive
    <3> QED BY <2>1, <2>2, <3>1 DEF Tidy, Single, Busy
  <2> QED BY <2>3, <2>4
<1>2. CASE Fetch(r)
  <2>1. Goes(r, "fetch", "save") /\ handled' = handled
    BY <1>2 DEF Fetch
  <2>2. handled[r] = 0
    BY <1>0, <2>1, GoesCounts DEF Tidy
  <2>3. Single(r)'
    BY <1>0, <2>1, SingleMoves DEF Single
  <2> QED BY <2>1, <2>2, <2>3 DEF Tidy
<1>3. CASE SaveTransaction(r)
  <2>1. Goes(r, "save", "unsubscribe") /\ handling[r]["save"] > 0
    BY <1>3 DEF SaveTransaction, Goes
  <2>2. handled[r] = 0
    BY <1>0, <2>1 DEF Tidy
  <2>3. handled'[r] = 1
    BY <1>3, <2>2 DEF SaveTransaction, TypeOK
  <2>4. handling'[r]["unsubscribe"] = 1
        /\ \A s \in HandlerSteps \ {"unsubscribe"} : handling'[r][s] = 0
    BY <1>0, <2>1, SingleMoves
  <2>5. Single(r)' /\ Busy(r)'
    BY <2>4 DEF Single, Busy
  <2> QED BY <2>3, <2>4, <2>5 DEF Tidy
<1>4. CASE HandlingFails(r)
  <2>1. PICK step \in {"fetch", "save"} : Goes(r, step, "unsubscribe")
    BY <1>4 DEF HandlingFails
  <2>2. handling[r][step] > 0 /\ handled' = handled
    BY <1>4, <2>1 DEF HandlingFails, Goes
  <2>3. handled[r] = 0
    BY <1>0, <2>2 DEF Tidy
  <2>4. Single(r)'
    BY <1>0, <2>1, SingleMoves DEF Single
  <2> QED BY <2>2, <2>3, <2>4 DEF Tidy
<1>5. CASE Unsubscribe(r)
  <2>1. Ends(r, "unsubscribe") /\ handled' = handled /\ r \notin pending' /\ r \notin records'
    BY <1>5 DEF Unsubscribe
  <2>2. \A s \in HandlerSteps : handling'[r][s] = 0
    BY <1>0, <2>1, SingleMoves
  <2>3. Single(r)'
    BY <2>2 DEF Single
  <2> QED BY <2>1, <2>2, <2>3 DEF Tidy
<1>6. CASE UnsubscribeFails(r)
  <2>1. "leftover" \in excuse'[r]
    BY <1>6 DEF UnsubscribeFails, Excuse
  <2> QED BY <2>1 DEF Repeated
<1>7. CASE FetchStatus(r) \/ FetchStatusFails(r)
  <2>1. (Goes(r, "status", "fetch") \/ Ends(r, "status")) /\ handled' = handled
    BY <1>7 DEF FetchStatus, FetchStatusFails
  <2>2. handling[r]["status"] > 0
    BY <2>1 DEF Goes, Ends
  <2>3. handled[r] = 0
    BY <1>0, <2>2 DEF Tidy
  <2>4. Single(r)'
    BY <1>0, <2>1, SingleMoves DEF Single
  <2> QED BY <2>1, <2>3, <2>4 DEF Tidy
<1> QED BY <1>1, <1>2, <1>3, <1>4, <1>5, <1>6, <1>7

\* Subscribing again leaves it tidy, or is a reason.
LEMMA ResubscribingKeepsTidy ==
  ASSUME TypeOK, NEW r \in Requests, Once(r), excuse'[r] \cap Repeated = {}, Tidy(r),
         Resubscribe(r) \/ ResubscribeFails(r)
  PROVE  Tidy(r)'
<1>1. UNCHANGED <<handling, handled>>
  BY DEF Resubscribe, ResubscribeFails, monitor
<1>2. handled[r] > 0 \/ Busy(r) => "resurrected" \in excuse'[r]
  <2>1. CASE Resubscribe(r)
    BY <2>1 DEF Resubscribe, Excuse
  <2>2. CASE ResubscribeFails(r)
    BY <2>2 DEF ResubscribeFails, TypeOK
  <2> QED BY <2>1, <2>2
<1>3. ~(handled'[r] > 0) /\ Single(r)' /\ handled'[r] <= 1
  BY <1>1, <1>2 DEF Repeated, Tidy, Single
<1> QED BY <1>3 DEF Tidy

\* One case per action that names a request.
LEMMA RequestKeepsOnce ==
  ASSUME TypeOK, [Next]_vars, NEW r \in Requests, RequestStep(r), Once(r)
  PROVE  Once(r)'
<1>1. NewBefore(r)'
  BY NewBeforeKept DEF Once
<1>2. ASSUME excuse'[r] \cap Repeated = {} PROVE Tidy(r)'
  <2>1. Tidy(r)
    BY <1>2, ReasonsStay DEF Once
  <2> QED
    BY <1>2, <2>1, MonitorKeepsTidy, HandlingKeepsTidy, ResubscribingKeepsTidy DEF RequestStep
<1> QED BY <1>1, <1>2 DEF Once

\* An opening brings a call for each entry of the map; a tidy request that was handled
\* has none.
LEMMA OpeningKeepsOnce ==
  ASSUME TypeOK, [Next]_vars, NEW r \in Requests, HandleOpened, Once(r)
  PROVE  Once(r)'
<1> USE Names
<1>1. UNCHANGED <<monitoring, handled, pending, live, notified>> /\ records' = {}
  BY DEF HandleOpened
<1>2. resubscribing' = resubscribing \cup records
  BY DEF HandleOpened
<1>3. CASE r \notin pending
  <2>1. handling'[r] = handling[r]
    BY <1>3 DEF HandleOpened
  <2>2. NewBefore(r)'
    BY <1>1, <1>2, <2>1 DEF Once, NewBefore, Busy
  <2>3. ASSUME excuse'[r] \cap Repeated = {} PROVE Tidy(r)'
    <3>1. Tidy(r)
      BY <2>3, ReasonsStay DEF Once
    <3> QED BY <1>1, <1>3, <2>1, <3>1 DEF Tidy, Single, Busy
  <2> QED BY <2>2, <2>3 DEF Once
<1>4. CASE r \in pending
  <2>1. handling'[r] = [handling[r] EXCEPT !["status"] = @ + 1]
    BY <1>4 DEF HandleOpened
  <2>2. NewBefore(r)'
    BY <1>1, <1>4 DEF Once, NewBefore
  <2>3. ASSUME excuse'[r] \cap Repeated = {} PROVE Tidy(r)'
    <3>1. Tidy(r)
      BY <2>3, ReasonsStay DEF Once
    <3>2. ~Busy(r)
      <4>1. Busy(r) => "overlapped" \in excuse'[r]
        BY <1>4 DEF HandleOpened
      <4> QED BY <2>3, <4>1 DEF Repeated
    <3>3. handled[r] = 0
      BY <1>4, <3>1, <3>2 DEF Tidy, TypeOK
    <3>4. \A s \in HandlerSteps : handling[r][s] = 0
      BY <3>2 DEF Busy, TypeOK
    <3>5. handling'[r]["status"] = 1 /\ \A s \in HandlerSteps \ {"status"} : handling'[r][s] = 0
      BY <2>1, <3>4 DEF TypeOK
    <3>6. Single(r)'
      BY <3>5 DEF Single
    <3> QED BY <1>1, <3>3, <3>6 DEF Tidy
  <2> QED BY <2>2, <2>3 DEF Once
<1> QED BY <1>3, <1>4

\* A lost connection, or a restart, starts no call.
LEMMA LosingKeepsOnce ==
  ASSUME TypeOK, [Next]_vars, NEW r \in Requests, Connect \/ Drop \/ Restart, Once(r)
  PROVE  Once(r)'
<1> USE Names
<1>1. CASE Connect
  BY <1>1 DEF Connect, monitor, service, Once, NewBefore, Tidy, Single, Busy
<1>2. CASE Drop
  BY <1>2 DEF Drop, Lost, monitor, service, Once, NewBefore, Tidy, Single, Busy
<1>3. CASE Restart
  <2>1. /\ \A s \in HandlerSteps : handling'[r][s] = 0
        /\ UNCHANGED <<handled, records>> /\ pending' = {} /\ resubscribing' = {}
        /\ live' = {} /\ notified' = {}
        /\ monitoring'[r] = IF monitoring[r] \in {"save", "send", "set"} THEN "failed"
                            ELSE monitoring[r]
    BY <1>3 DEF Restart, Lost
  <2>2. Single(r)' /\ ~Busy(r)'
    BY <2>1 DEF Single, Busy
  <2>3. NewBefore(r)'
    BY <2>1, <2>2 DEF Once, NewBefore
  <2>4. ASSUME excuse'[r] \cap Repeated = {} PROVE Tidy(r)'
    <3>1. Tidy(r) /\ excuse[r] \subseteq excuse'[r]
      BY <2>4, ReasonsStay DEF Once
    <3>2. Busy(r) => "forgotten" \in excuse'[r]
      BY <1>3 DEF Restart, Excuse
    <3> QED BY <2>1, <2>2, <3>1, <3>2 DEF Tidy
  <2> QED BY <2>3, <2>4 DEF Once
<1> QED BY <1>1, <1>2, <1>3

\* OnceInv is inductive: a request at a time, then what concerns them all.
LEMMA OnceKept == TypeOK /\ OnceInv /\ [Next]_vars => OnceInv'
<1> SUFFICES ASSUME TypeOK, OnceInv, [Next]_vars, NEW r \in Requests
             PROVE  Once(r)'
  BY DEF OnceInv
<1>1. Once(r)
  BY DEF OnceInv
<1>2. CASE RequestStep(r)
  BY <1>1, <1>2, RequestKeepsOnce
<1>3. CASE \E q \in Requests \ {r} : RequestStep(q)
  BY <1>1, <1>3, Elsewhere, SameOnce
<1>4. CASE HandleOpened
  BY <1>1, <1>4, OpeningKeepsOnce
<1>5. CASE Connect \/ Drop \/ Restart
  BY <1>1, <1>5, LosingKeepsOnce
<1>6. CASE UNCHANGED vars
  <2>1. Same(r)
    BY <1>6 DEF vars, chain, monitor, service, wire, Same
  <2> QED BY <1>1, <2>1, SameOnce
<1> QED BY <1>2, <1>3, <1>4, <1>5, <1>6 DEF Next, RequestStep

\* A transaction is saved and tracked twice only if calls overlapped, or something of it
\* was left behind or subscribed to again.
THEOREM HandledOnce == Spec => []HandledOnceUnlessExcused
<1>1. TypeOK /\ OnceInv => HandledOnceUnlessExcused
  BY DEF TypeOK, OnceInv, Once, Tidy, HandledOnceUnlessExcused
<1> QED BY <1>1, TypeInitially, TypeKept, OnceInitially, OnceKept, PTL DEF Spec

\* What was handled is neither in the map nor in the records, but for a reason.
THEOREM CleanedUp == Spec => []CleanedUpUnlessExcused
<1>1. TypeOK /\ OnceInv => CleanedUpUnlessExcused
  BY DEF TypeOK, OnceInv, Once, Tidy, CleanedUpUnlessExcused, Quiet
<1> QED BY <1>1, TypeInitially, TypeKept, OnceInitially, OnceKept, PTL DEF Spec

------------------------------------------------------------------------------
(* Nothing is missed without a reason.                                     *)

\* What will bring a request, whose level is reached or will be, to be handled.
Underway(r) ==
  \/ handling[r]["fetch"] > 0 \/ handling[r]["save"] > 0
  \/ r \in live \cup notified
  \/ handling[r]["status"] > 0 /\ (Reached(r) \/ r \in resubscribing)

\* The server holds no subscription that has ended, and the map no request before
\* subscribe has returned.
Faithful(r) ==
  /\ r \in live => ~Reached(r)
  /\ r \in pending => monitoring[r] = "done"

\* Without a reason, a request that was not handled yet has its record, or will have it
\* again, is in the map or about to be excused by the next opening, and, on a connection
\* whose opening was handled, is under way.
Awaited(r) ==
  /\ handling[r]["unsubscribe"] > 0 => handled[r] > 0
  /\ handled[r] = 0 =>
       /\ monitoring[r] \in {"send", "set"} => r \in records
       /\ monitoring[r] = "done" =>
            /\ r \in records \cup resubscribing
            /\ r \in pending \/ (r \in records /\ (link = "down" \/ opened))
       /\ monitoring[r] \in {"set", "done"} /\ link = "open" /\ ~opened => Underway(r)

Heard(r) == Faithful(r) /\ (excuse[r] \cap Deaf = {} => Awaited(r))
HeardInv == \A r \in Requests : Heard(r)

\* At first nothing is monitored.
LEMMA HeardInitially == Init => HeardInv
BY DEF Init, HeardInv, Heard, Faithful, Awaited, HandlerSteps

\* What has not changed is as awaited as before.
LEMMA SameHeard ==
  ASSUME NEW r \in Requests, Same(r), UNCHANGED <<link, opened>>, Heard(r)
  PROVE  Heard(r)'
BY DEF Same, Heard, Faithful, Awaited, Underway, Reached

\* The order of the levels: the one that is asked for is the first that reaches it, and
\* recovery recognises every level that has reached it.
LEMMA LevelsAreOrdered ==
  ASSUME TypeOK, NEW r \in Requests
  PROVE  /\ \A level \in Levels :
              Rank(level) = Rank(status[r]) + 1 /\ ~Reached(r) /\ level # commitment[r] =>
                ~(Rank(level) >= Rank(commitment[r]))
         /\ Reached(r) => /\ status[r] # "unknown"
                          /\ HasAtLeastCommitmentLevel(status[r], commitment[r])
<1>1. status[r] \in {"unknown", "processed", "confirmed", "finalized"}
      /\ commitment[r] \in {"processed", "confirmed", "finalized"}
  BY DEF TypeOK, Levels
<1>2. Rank("unknown") = 0 /\ Rank("processed") = 1 /\ Rank("confirmed") = 2 /\ Rank("finalized") = 3
  BY DEF Rank
<1> QED BY <1>1, <1>2 DEF Levels, Reached, HasAtLeastCommitmentLevel

\* A level that is reached, or a message that is accepted, keeps the server faithful.
LEMMA FaithfulKept ==
  ASSUME TypeOK, [Next]_vars, NEW r \in Requests, RequestStep(r), Faithful(r)
  PROVE  Faithful(r)'
<1>1. r \in pending' => monitoring'[r] = "done"
  BY DEF RequestStep, Advance, Monitor, Save, Send, SendFails, Set, Confirm, Receive, Fetch,
         SaveTransaction, HandlingFails, Unsubscribe, UnsubscribeFails, Resubscribe,
         ResubscribeFails, FetchStatus, FetchStatusFails, Monitors, monitor, TypeOK, Faithful
<1>2. ASSUME r \in live' PROVE ~Reached(r)'
  <2>1. CASE Advance(r)
    <3>1. PICK level \in Levels :
            /\ Rank(level) = Rank(status[r]) + 1
            /\ status' = [status EXCEPT ![r] = level]
            /\ IF level = commitment[r] /\ r \in live THEN live' = live \ {r} ELSE live' = live
      BY <2>1 DEF Advance
    <3>2. r \in live /\ level # commitment[r]
      BY <1>2, <3>1
    <3>3. ~(Rank(level) >= Rank(commitment[r]))
      BY <3>1, <3>2, LevelsAreOrdered DEF Faithful
    <3>4. status'[r] = level /\ commitment' = commitment
      BY <2>1, <3>1 DEF Advance, TypeOK
    <3> QED BY <3>3, <3>4 DEF Reached
  <2>2. CASE ~Advance(r)
    <3>1. UNCHANGED chain
      BY <2>2 DEF RequestStep, Monitor, Save, Send, SendFails, Set, Confirm, Receive, Fetch,
         SaveTransaction, HandlingFails, Unsubscribe, UnsubscribeFails, Resubscribe,
         ResubscribeFails, FetchStatus, FetchStatusFails
    <3>2. r \in live \/ ~Reached(r)
      BY <1>2, <2>2 DEF RequestStep, Monitor, Save, Send, SendFails, Set, Confirm, Receive, Fetch,
         SaveTransaction, HandlingFails, Unsubscribe, UnsubscribeFails, Resubscribe,
         ResubscribeFails, FetchStatus, FetchStatusFails, Accept, Leaves, wire
    <3> QED BY <3>1, <3>2 DEF Faithful, chain, Reached
  <2> QED BY <2>1, <2>2
<1> QED BY <1>1, <1>2 DEF Faithful

\* The calls of monitor, and the server, leave the request awaited.
LEMMA MonitorKeepsAwaited ==
  ASSUME TypeOK, NEW r \in Requests, Once(r), Faithful(r), excuse'[r] \cap Deaf = {}, Awaited(r),
         Advance(r) \/ Monitor(r) \/ Save(r) \/ Send(r) \/ SendFails(r) \/ Set(r) \/ Confirm(r)
  PROVE  Awaited(r)'
<1> USE Names
<1>1. UNCHANGED <<handling, handled, link, opened>>
  BY DEF Advance, Monitor, Save, Send, SendFails, Set, Confirm, monitor, wire
<1>2. CASE Advance(r)
  <2>1. UNCHANGED <<monitoring, pending, records, resubscribing>>
    BY <1>2 DEF Advance, monitor, service
  <2>2. r \in live \cup notified => r \in live' \cup notified'
    BY <1>2 DEF Advance
  <2>3. Reached(r) => Reached(r)'
    BY <1>2, ReachedStays DEF Next
  <2> QED BY <1>1, <2>1, <2>2, <2>3 DEF Awaited, Underway
<1>3. CASE Monitor(r)
  <2>1. monitoring'[r] = "save"
    BY <1>3 DEF Monitor, Monitors, TypeOK
  <2> QED BY <1>1, <2>1 DEF Awaited
<1>4. CASE Save(r)
  <2>1. monitoring'[r] = "send" /\ r \in records'
    BY <1>4 DEF Save, Monitors, TypeOK
  <2> QED BY <1>1, <2>1 DEF Awaited
<1>5. CASE Send(r)
  <2>1. monitoring[r] = "send" /\ monitoring'[r] = "set" /\ UNCHANGED records
    BY <1>5 DEF Send, Monitors, service, TypeOK
  <2>2. ASSUME link = "open" PROVE r \in live'
    <3>1. Reached(r) => "late" \in excuse'[r]
      BY <1>5, <2>2 DEF Send, Excuse
    <3>2. ~Reached(r)
      BY <3>1 DEF Deaf
    <3> QED BY <1>5, <2>2, <3>2 DEF Send, Accept
  <2> QED BY <1>1, <2>1, <2>2 DEF Awaited, Underway
<1>6. CASE SendFails(r)
  <2>1. monitoring'[r] = "failed"
    BY <1>6 DEF SendFails, Monitors, TypeOK
  <2> QED BY <1>1, <2>1 DEF Awaited
<1>7. CASE Set(r)
  <2>1. monitoring[r] = "set" /\ monitoring'[r] = "done" /\ r \in pending'
        /\ UNCHANGED <<records, resubscribing, live, notified, status, commitment>>
    BY <1>7 DEF Set, Monitors, service, wire, chain, TypeOK
  <2> QED BY <1>1, <2>1 DEF Awaited, Underway, Reached
<1>8. CASE Confirm(r)
  BY <1>1, <1>8 DEF Confirm, chain, monitor, wire, Awaited, Underway, Reached
<1> QED BY <1>2, <1>3, <1>4, <1>5, <1>6, <1>7, <1>8

\* Handling it, and subscribing to it again, do so too.
LEMMA HandlingKeepsAwaited ==
  ASSUME TypeOK, NEW r \in Requests, excuse'[r] \cap Deaf = {}, Awaited(r),
         \/ Receive(r) \/ Fetch(r) \/ SaveTransaction(r) \/ HandlingFails(r)
         \/ Unsubscribe(r) \/ UnsubscribeFails(r)
  PROVE  Awaited(r)'
<1> USE Names
<1>0. handling[r] \in [HandlerSteps -> Nat] /\ handled[r] \in Nat
  BY DEF TypeOK
<1>1. CASE Receive(r)
  <2>1. r \in confirmed
    <3>1. r \notin confirmed => "unrouted" \in excuse'[r]
      BY <1>1 DEF Receive, Excuse
    <3> QED BY <3>1 DEF Deaf
  <2>2. handling'[r] = [handling[r] EXCEPT !["fetch"] = @ + 1]
    BY <1>1, <2>1 DEF Receive, TypeOK
  <2>3. handling'[r]["fetch"] > 0 /\ handling'[r]["unsubscribe"] = handling[r]["unsubscribe"]
    BY <1>0, <2>2
  <2> QED BY <1>1, <2>3 DEF Receive, service, Awaited, Underway
<1>2. CASE Fetch(r)
  <2>1. Goes(r, "fetch", "save")
    BY <1>2 DEF Fetch
  <2>2. handling'[r]["save"] = handling[r]["save"] + 1
        /\ handling'[r]["unsubscribe"] = handling[r]["unsubscribe"]
    BY <2>1, GoesCounts
  <2>3. handling'[r]["save"] > 0
    BY <1>0, <2>2
  <2> QED BY <1>2, <2>2, <2>3 DEF Fetch, service, wire, Awaited, Underway
<1>3. CASE SaveTransaction(r)
  <2>1. handled'[r] = handled[r] + 1
    BY <1>3 DEF SaveTransaction, TypeOK
  <2>2. handled'[r] > 0 /\ handled'[r] # 0
    BY <1>0, <2>1
  <2> QED BY <2>2 DEF Awaited
<1>4. CASE HandlingFails(r)
  <2>1. "failed" \in excuse'[r]
    BY <1>4 DEF HandlingFails, Excuse
  <2> QED BY <2>1 DEF Deaf
<1>5. CASE Unsubscribe(r) \/ UnsubscribeFails(r)
  <2>1. handling[r]["unsubscribe"] > 0 /\ handled' = handled
    BY <1>5 DEF Unsubscribe, UnsubscribeFails, Ends
  <2>2. handled'[r] > 0
    BY <2>1 DEF Awaited
  <2> QED BY <1>0, <2>1, <2>2 DEF Awaited
<1> QED BY <1>1, <1>2, <1>3, <1>4, <1>5

\* Recovery handles the request, or leaves it to its new subscription.
LEMMA RecoveryKeepsAwaited ==
  ASSUME TypeOK, NEW r \in Requests, excuse'[r] \cap Deaf = {}, Awaited(r),
         Resubscribe(r) \/ ResubscribeFails(r) \/ FetchStatus(r) \/ FetchStatusFails(r)
  PROVE  Awaited(r)'
<1> USE Names
<1>0. handling[r] \in [HandlerSteps -> Nat]
  BY DEF TypeOK
<1>1. CASE Resubscribe(r)
  <2>1. UNCHANGED <<handling, handled, monitoring, pending, link, opened, status, commitment>>
        /\ r \in records'
    BY <1>1 DEF Resubscribe, monitor, chain
  <2>2. notified \subseteq notified' /\ live \subseteq live'
    BY <1>1 DEF Resubscribe, Accept
  <2>3. link = "open" => Reached(r) \/ r \in live'
    BY <1>1 DEF Resubscribe, Accept
  <2>4. Underway(r) /\ link = "open" => Underway(r)'
    BY <2>1, <2>2, <2>3 DEF Underway, Reached
  <2> QED BY <1>0, <2>1, <2>4 DEF Awaited
<1>2. CASE ResubscribeFails(r)
  <2>1. "failed" \in excuse'[r]
    BY <1>2 DEF ResubscribeFails, TypeOK
  <2> QED BY <2>1 DEF Deaf
<1>3. CASE FetchStatusFails(r)
  <2>1. "failed" \in excuse'[r]
    BY <1>3 DEF FetchStatusFails, Excuse
  <2> QED BY <2>1 DEF Deaf
<1>4. CASE FetchStatus(r) /\ Reached(r)
  <2>1. Goes(r, "status", "fetch")
    BY <1>4, LevelsAreOrdered DEF FetchStatus
  <2>2. handling'[r]["fetch"] > 0 /\ handling'[r]["unsubscribe"] = handling[r]["unsubscribe"]
    BY <1>0, <2>1, GoesCounts
  <2> QED BY <1>4, <2>2 DEF FetchStatus, service, wire, Awaited, Underway
<1>5. CASE FetchStatus(r) /\ ~Reached(r)
  <2>1. Ends(r, "status") /\ Excuse({r} \cap resubscribing, "early")
    BY <1>5, AtLeastIsReached DEF FetchStatus
  <2>2. r \notin resubscribing
    <3>1. r \in resubscribing => "early" \in excuse'[r]
      BY <2>1 DEF Excuse
    <3> QED BY <3>1 DEF Deaf
  <2>3. \A s \in HandlerSteps \ {"status"} : handling'[r][s] = handling[r][s]
    BY <2>1, EndsCounts
  <2> QED BY <1>5, <2>2, <2>3 DEF FetchStatus, service, wire, Awaited, Underway
<1> QED BY <1>1, <1>2, <1>3, <1>4, <1>5

\* One case per action that names a request.
LEMMA RequestKeepsHeard ==
  ASSUME TypeOK, [Next]_vars, NEW r \in Requests, RequestStep(r), Once(r), Heard(r)
  PROVE  Heard(r)'
<1>1. Faithful(r)'
  BY FaithfulKept DEF Heard
<1>2. ASSUME excuse'[r] \cap Deaf = {} PROVE Awaited(r)'
  <2>1. Awaited(r) /\ Faithful(r)
    BY <1>2, ReasonsStay DEF Heard
  <2> QED
    BY <1>2, <2>1, MonitorKeepsAwaited, HandlingKeepsAwaited, RecoveryKeepsAwaited
       DEF RequestStep
<1> QED BY <1>1, <1>2 DEF Heard

\* An opening puts the requests of the map under way, and is a reason for the others.
LEMMA OpeningKeepsHeard ==
  ASSUME TypeOK, [Next]_vars, NEW r \in Requests, HandleOpened, Once(r), Heard(r)
  PROVE  Heard(r)'
<1> USE Names
<1>1. UNCHANGED <<monitoring, handled, pending, live, notified, status, commitment, link>>
      /\ opened' = FALSE /\ records' = {} /\ resubscribing' = resubscribing \cup records
  BY DEF HandleOpened, chain
<1>2. Faithful(r)'
  BY <1>1 DEF Heard, Faithful, Reached
<1>3. ASSUME excuse'[r] \cap Deaf = {} PROVE Awaited(r)'
  <2>1. Awaited(r) /\ Faithful(r)
    BY <1>3, ReasonsStay DEF Heard
  <2>2. r \notin records \ pending
    <3>1. r \in records \ pending => "forgotten" \in excuse'[r]
      BY DEF HandleOpened
    <3> QED BY <1>3, <3>1 DEF Deaf
  <2>3. handling'[r]["unsubscribe"] = handling[r]["unsubscribe"]
    BY DEF HandleOpened, TypeOK
  <2>4. ASSUME handled[r] = 0
        PROVE  monitoring[r] \notin {"send", "set"} /\ (monitoring[r] = "done" => r \in pending)
    BY <2>1, <2>2, <2>4 DEF Awaited, Faithful
  <2>5. r \in pending => handling'[r]["status"] > 0
    BY DEF HandleOpened, TypeOK
  <2> QED BY <1>1, <2>1, <2>3, <2>4, <2>5 DEF Awaited, Underway
<1> QED BY <1>2, <1>3 DEF Heard

\* A lost connection leaves the map to the next opening; a restart is a reason.
LEMMA LosingKeepsHeard ==
  ASSUME TypeOK, [Next]_vars, NEW r \in Requests, Connect \/ Drop \/ Restart, Heard(r)
  PROVE  Heard(r)'
<1> USE Names
<1>1. CASE Connect
  BY <1>1 DEF Connect, chain, monitor, service, Heard, Faithful, Awaited, Reached
<1>2. CASE Drop
  BY <1>2 DEF Drop, Lost, chain, monitor, service, Heard, Faithful, Awaited, Reached
<1>3. CASE Restart
  <2>1. /\ handling'[r]["unsubscribe"] = 0
        /\ UNCHANGED <<handled, records>> /\ pending' = {} /\ link' = "down" /\ live' = {}
        /\ monitoring'[r] = IF monitoring[r] \in {"save", "send", "set"} THEN "failed"
                            ELSE monitoring[r]
    BY <1>3 DEF Restart, Lost
  <2>2. Faithful(r)'
    BY <2>1 DEF Faithful
  <2>3. ASSUME excuse'[r] \cap Deaf = {} PROVE Awaited(r)'
    <3>1. Awaited(r)
      BY <2>3, ReasonsStay DEF Heard
    <3>2. r \notin resubscribing
      <4>1. r \in resubscribing => "forgotten" \in excuse'[r]
        BY <1>3 DEF Restart, Excuse
      <4> QED BY <2>3, <4>1 DEF Deaf
    <3> QED BY <2>1, <3>1, <3>2 DEF Awaited
  <2> QED BY <2>2, <2>3 DEF Heard
<1> QED BY <1>1, <1>2, <1>3

\* HeardInv is inductive, with OnceInv: a request at a time, then the others.
LEMMA HeardKept == TypeOK /\ OnceInv /\ HeardInv /\ [Next]_vars => HeardInv'
<1> SUFFICES ASSUME TypeOK, OnceInv, HeardInv, [Next]_vars, NEW r \in Requests
             PROVE  Heard(r)'
  BY DEF HeardInv
<1>1. Once(r) /\ Heard(r)
  BY DEF OnceInv, HeardInv
<1>2. CASE RequestStep(r)
  BY <1>1, <1>2, RequestKeepsHeard
<1>3. CASE \E q \in Requests \ {r} : RequestStep(q)
  BY <1>1, <1>3, Elsewhere, SameHeard
<1>4. CASE HandleOpened
  BY <1>1, <1>4, OpeningKeepsHeard
<1>5. CASE Connect \/ Drop \/ Restart
  BY <1>1, <1>5, LosingKeepsHeard
<1>6. CASE UNCHANGED vars
  <2>1. Same(r) /\ UNCHANGED <<link, opened>>
    BY <1>6 DEF vars, chain, monitor, service, wire, Same
  <2> QED BY <1>1, <2>1, SameHeard
<1> QED BY <1>2, <1>3, <1>4, <1>5, <1>6 DEF Next, RequestStep

\* Once all is quiet on an open connection, every monitored signature that has reached its
\* level was handled, or one of the known reasons says why not; however many signatures,
\* connections, restarts and rejections there were.
THEOREM NothingIsMissed == Spec => []HandledUnlessExcused
<1>1. TypeOK /\ HeardInv => HandledUnlessExcused
  BY Names DEF TypeOK, HeardInv, Heard, Faithful, Awaited, Underway, HandledUnlessExcused, Quiet, Busy
<1> QED
  BY <1>1, TypeInitially, TypeKept, OnceInitially, OnceKept, HeardInitially, HeardKept, PTL DEF Spec

------------------------------------------------------------------------------
(* SendFlow: the queue of events, and sums.                                *)

\* Every sequence of events is what follows its first, and what is appended comes last.
Events == [at : EventKinds, context : Contexts, input : Inputs]
Waiting == {inbox[i] : i \in DOMAIN inbox}

LEMMA QueueFacts ==
  ASSUME NEW q \in Seq(Events)
  PROVE  /\ Len(q) \in Nat /\ DOMAIN q = 1..Len(q)
         /\ \A i \in DOMAIN q : q[i] \in Events
         /\ \A e \in Events :
              /\ Append(q, e) \in Seq(Events)
              /\ DOMAIN Append(q, e) = 1..(Len(q) + 1)
              /\ \A i \in DOMAIN q : Append(q, e)[i] = q[i]
              /\ Append(q, e)[Len(q) + 1] = e
         /\ q # <<>> => /\ Len(q) \in Nat \ {0} /\ Head(q) = q[1] /\ Head(q) \in Events
                        /\ Tail(q) \in Seq(Events)
                        /\ DOMAIN Tail(q) = 1..(Len(q) - 1)
                        /\ \A i \in DOMAIN Tail(q) : Tail(q)[i] = q[i + 1]
  OBVIOUS

\* What a write leaves in the context and among the mishaps.
LEMMA Written ==
  ASSUME NEW who, NEW old, NEW context, NEW why, Writes(who, old, context, why)
  PROVE  /\ ui' = context
         /\ mishaps \subseteq mishaps' /\ why \subseteq mishaps'
         /\ ui = old \/ who \in mishaps'
         /\ context.fiat /\ context.price # ui.price => "repriced" \in mishaps'
         /\ mishaps' \subseteq mishaps \cup why \cup {who, "repriced"}
  BY DEF Writes

\* A sum in tokens stays what it was when the currency is swapped.
LEMMA Divides ==
  ASSUME NEW n \in Nat, NEW p \in Nat \ {0}
  PROVE  n \div p \in Nat /\ (n * p) \div p = n /\ n * p \in Nat
  OBVIOUS

\* Sums are numbers, and a message is built of a context that has a recipient.
LEMMA Summed ==
  ASSUME NEW c \in Contexts
  PROVE  /\ Tokens(c) \in Nat
         /\ c.amount \div c.price \in Nat /\ c.amount * c.price \in Nat
         /\ c.to # None => [to |-> c.to, tokens |-> Tokens(c), number |-> 0] \in Messages
<1>1. c.amount \in Nat /\ c.price \in Nat \ {0} /\ c.fiat \in BOOLEAN /\ c.to \in Recipients \cup {None}
  BY AmountsAssumption DEF Contexts
<1>2. Tokens(c) \in Nat /\ c.amount \div c.price \in Nat /\ c.amount * c.price \in Nat
  BY <1>1, Divides DEF Tokens
<1> HIDE DEF Tokens
<1> QED BY <1>1, <1>2 DEF Messages

------------------------------------------------------------------------------
(* SendFlow: what the state is.                                            *)

JobRecords == [at : JobKinds, context : Contexts \cup {None}, input : Inputs]
BuildRecords ==
  [at : BuildKinds, context : Contexts \cup {None}, message : Messages \cup {None}, number : Nat]

ScreenTypes == ui \in Contexts /\ open \in BOOLEAN /\ key \in BOOLEAN /\ (key => open)
EventTypes == inbox \in Seq(Events) /\ job \in [Jobs -> JobRecords]
BuildingTypes ==
  {timer, refresh} \subseteq Contexts \cup {None} /\ build \in [Builds -> BuildRecords] /\ built \in Nat
HistoryTypes == amiss \in BOOLEAN /\ sent \subseteq Messages /\ mishaps \subseteq Reasons
BoundTypes ==
  /\ typed \in [text : Recipients \cup {None}, amount : Nat]
  /\ allowance \in [events : Nat, disturbances : Nat]

Types == ScreenTypes /\ EventTypes /\ BuildingTypes /\ HistoryTypes /\ BoundTypes

\* All copies of the context: on the screen, with events, jobs and builds.
Copies ==
  {ui} \cup {e.context : e \in Waiting} \cup {job[j].context : j \in Jobs}
  \cup {build[b].context : b \in Builds} \cup {timer, refresh}
CopiesInv ==
  \A c \in Copies \ {None} :
    /\ IsContext(c)
    /\ c.stage = "success" => sent # {}

\* What an event, a job and a build are, by their kind.
FormEvents == {"recipient", "amount", "swap", "send"}
ConfirmationEvents == {"back", "confirm"}
Sending == {"signing", "sent", "not sent"}

EventOK(e) ==
  /\ e.context.stage \in {"form", "confirmation"}
  /\ e.at \in FormEvents => e.context.stage = "form"
  /\ e.at \in ConfirmationEvents => e.context.stage = "confirmation"
  /\ e.at = "recipient" => e.input \in Recipients \cup {None}
  /\ e.at = "amount" => e.input \in Nat
  /\ e.at = "send" => e.context.message # None /\ e.context.text # None /\ e.context.amount # 0

JobOK(j) ==
  \/ job[j] = Idle
  \/ /\ job[j].context \in Contexts
     /\ \/ /\ job[j].at = "resolving" /\ job[j].context.stage = "form"
           /\ job[j].input \in Domains /\ job[j].context.text = job[j].input
        \/ job[j].at = "pricing" /\ job[j].context.stage = "confirmation"
        \/ /\ job[j].at = "approving" /\ job[j].context.stage = "confirmation"
           /\ job[j].context.message # None
        \/ /\ job[j].at \in Sending /\ job[j].context.stage = "pending"
           /\ job[j].context.message # None
           /\ job[j].at = "sent" => sent # {}

BuildOK(b) ==
  \/ build[b] = NoBuild
  \/ /\ build[b].at \in {"building", "merging"}
     /\ build[b].at = "merging" => build[b].context \in Contexts
     /\ build[b].message # None => build[b].message.number = build[b].number
     /\ build[b].message = None => "failed" \in mishaps
     /\ build[b].number \in 1..built

FlowInv ==
  /\ \A e \in Waiting : EventOK(e)
  /\ \A j \in Jobs : JobOK(j)
  /\ \A b \in Builds : BuildOK(b)
  /\ \A b, c \in Builds :
       build[b] # NoBuild /\ build[c] # NoBuild /\ build[b].number = build[c].number => b = c
  /\ timer # None => timer.stage = "form"
  /\ ~open => /\ inbox = <<>> /\ timer = None /\ refresh = None
              /\ \A j \in Jobs : job[j] = Idle \/ job[j].at \in Sending
              /\ \A b \in Builds : build[b] = NoBuild

StateInv == Types /\ CopiesInv /\ FlowInv

\* What is left of the bounds stays a number.
LEMMA AllowanceUsed ==
  ASSUME BoundTypes, NEW what \in {"events", "disturbances"}, Use(what)
  PROVE  allowance' \in [events : Nat, disturbances : Nat]
  BY DEF BoundTypes, Use

\* Dispatching, an event is appended.
LEMMA Dispatched ==
  ASSUME Types, NEW at \in EventKinds, NEW input1 \in Inputs, Dispatch(at, input1)
  PROVE  LET e == [at |-> at, context |-> ui, input |-> input1] IN
         /\ e \in Events
         /\ inbox' = Append(inbox, e)
         /\ Waiting' = Waiting \cup {e}
         /\ EventTypes'
         /\ allowance' \in [events : Nat, disturbances : Nat]
<1> DEFINE e == [at |-> at, context |-> ui, input |-> input1]
<1>1. e \in Events
  BY DEF Types, ScreenTypes, Events
<1>2. inbox' = Append(inbox, e) /\ inbox \in Seq(Events)
  BY DEF Dispatch, Types, EventTypes
<1> HIDE DEF e
<1>3. Waiting' = Waiting \cup {e}
  <2>1. Waiting' = {Append(inbox, e)[i] : i \in DOMAIN Append(inbox, e)}
    BY <1>2 DEF Waiting
  <2>2. /\ DOMAIN inbox = 1..Len(inbox) /\ Len(inbox) \in Nat
        /\ DOMAIN Append(inbox, e) = 1..(Len(inbox) + 1)
        /\ \A i \in DOMAIN inbox : Append(inbox, e)[i] = inbox[i]
        /\ Append(inbox, e)[Len(inbox) + 1] = e
    BY <1>1, <1>2, QueueFacts
  <2>3. Len(inbox) + 1 \in DOMAIN Append(inbox, e) /\ DOMAIN inbox \subseteq DOMAIN Append(inbox, e)
    BY <2>2
  <2>4. ASSUME NEW x \in Waiting' PROVE x \in Waiting \cup {e}
    <3>1. PICK i \in DOMAIN Append(inbox, e) : x = Append(inbox, e)[i]
      BY <2>1, <2>4
    <3>2. i = Len(inbox) + 1 \/ i \in DOMAIN inbox
      BY <2>2
    <3> QED BY <2>2, <3>1, <3>2 DEF Waiting
  <2>5. Waiting \subseteq Waiting'
    BY <2>1, <2>2, <2>3 DEF Waiting
  <2>6. e \in Waiting'
    BY <2>1, <2>2, <2>3
  <2> QED BY <2>4, <2>5, <2>6
<1>4. EventTypes'
  BY <1>1, <1>2, QueueFacts DEF Dispatch, Types, EventTypes
<1>5. allowance' \in [events : Nat, disturbances : Nat]
  BY AllowanceUsed DEF Dispatch, Types
<1> QED BY <1>1, <1>2, <1>3, <1>4, <1>5 DEF e

\* Taken up, the first event is gone.
LEMMA Taken ==
  ASSUME Types, NEW at, Takes(at) \/ (inbox # <<>> /\ Head(inbox).at = at /\ inbox' = <<>>)
  PROVE  /\ inbox' \in Seq(Events)
         /\ Waiting' \subseteq Waiting
         /\ Head(inbox) \in Waiting /\ Head(inbox).at = at
         /\ base \in Contexts /\ input \in Inputs
<1>1. inbox \in Seq(Events) /\ inbox # <<>> /\ inbox' \in {Tail(inbox), <<>>} /\ Head(inbox).at = at
  BY DEF Takes, Types, EventTypes
<1>2. /\ Len(inbox) \in Nat \ {0} /\ DOMAIN inbox = 1..Len(inbox)
      /\ Head(inbox) = inbox[1] /\ Head(inbox) \in Events /\ Tail(inbox) \in Seq(Events)
      /\ DOMAIN Tail(inbox) = 1..(Len(inbox) - 1)
      /\ \A i \in DOMAIN Tail(inbox) : Tail(inbox)[i] = inbox[i + 1]
  BY <1>1, QueueFacts
<1>3. Waiting' \subseteq Waiting
  <2>1. CASE inbox' = Tail(inbox)
    BY <1>2, <2>1 DEF Waiting
  <2>2. CASE inbox' = <<>>
    BY <2>2 DEF Waiting
  <2> QED BY <1>1, <2>1, <2>2
<1>4. Head(inbox) \in Waiting
  BY <1>2 DEF Waiting
<1>5. base \in Contexts /\ input \in Inputs
  BY <1>2 DEF base, input, Events
<1>6. inbox' \in Seq(Events)
  <2>1. <<>> \in Seq(Events)
    OBVIOUS
  <2> QED BY <1>1, <1>2, <2>1
<1> QED BY <1>1, <1>3, <1>4, <1>5, <1>6

\* The parts of the types that an action writes, from what it writes.
LEMMA ScreenTyped ==
  ASSUME Types, NEW who \in Reasons, NEW old, NEW context \in Contexts, NEW why \in SUBSET Reasons,
         Writes(who, old, context, why)
  PROVE  ui' \in Contexts /\ mishaps' \subseteq Reasons
<1>1. mishaps' \subseteq mishaps \cup why \cup {who, "repriced"} /\ ui' = context
  BY Written
<1> QED BY <1>1 DEF Types, HistoryTypes, Reasons

\* Jobs that begin, go on and end are jobs.
LEMMA JobsTyped ==
  ASSUME EventTypes
  PROVE  /\ \A j \in Jobs : Finishes(j) => job' \in [Jobs -> JobRecords]
         /\ \A at \in JobKinds, c \in Contexts, i \in Inputs :
              Starts(at, c, i) => job' \in [Jobs -> JobRecords]
         /\ \A j \in Jobs, at \in JobKinds : job' = [job EXCEPT ![j].at = at] => job' \in [Jobs -> JobRecords]
         /\ \A j \in Jobs, at \in JobKinds, c \in Contexts :
              job' = [job EXCEPT ![j].at = at, ![j].context = c] => job' \in [Jobs -> JobRecords]
<1>1. job \in [Jobs -> JobRecords]
  BY DEF EventTypes
<1>2. \A j \in Jobs : Finishes(j) => job' \in [Jobs -> JobRecords]
  <2>1. Idle \in JobRecords
    BY DEF Idle, JobRecords, JobKinds, Inputs
  <2> QED BY <1>1, <2>1 DEF Finishes
<1>3. \A at \in JobKinds, c \in Contexts, i \in Inputs :
         Starts(at, c, i) => job' \in [Jobs -> JobRecords]
  <2> SUFFICES ASSUME NEW at \in JobKinds, NEW c \in Contexts, NEW i \in Inputs, Starts(at, c, i)
               PROVE  job' \in [Jobs -> JobRecords]
    OBVIOUS
  <2> DEFINE r == [at |-> at, context |-> c, input |-> i]
  <2>1. r \in JobRecords
    BY DEF JobRecords
  <2>2. PICK j \in Jobs : job' = [job EXCEPT ![j] = r]
    BY DEF Starts
  <2> HIDE DEF r
  <2> QED BY <1>1, <2>1, <2>2
<1>4. \A j \in Jobs, at \in JobKinds :
         job' = [job EXCEPT ![j].at = at] => job' \in [Jobs -> JobRecords]
  <2> SUFFICES ASSUME NEW j \in Jobs, NEW at \in JobKinds, job' = [job EXCEPT ![j].at = at]
               PROVE  job' \in [Jobs -> JobRecords]
    OBVIOUS
  <2> DEFINE r == [job[j] EXCEPT !.at = at]
  <2>1. r \in JobRecords
    BY <1>1 DEF JobRecords
  <2>2. job' = [job EXCEPT ![j] = r]
    OBVIOUS
  <2> HIDE DEF r
  <2> QED BY <1>1, <2>1, <2>2
<1>5. \A j \in Jobs, at \in JobKinds, c \in Contexts :
         job' = [job EXCEPT ![j].at = at, ![j].context = c] => job' \in [Jobs -> JobRecords]
  <2> SUFFICES ASSUME NEW j \in Jobs, NEW at \in JobKinds, NEW c \in Contexts,
                      job' = [job EXCEPT ![j].at = at, ![j].context = c]
               PROVE  job' \in [Jobs -> JobRecords]
    OBVIOUS
  <2> DEFINE r == [job[j] EXCEPT !.at = at, !.context = c]
  <2>1. r \in JobRecords
    BY <1>1 DEF JobRecords
  <2>2. job' = [job EXCEPT ![j] = r]
    BY <1>1
  <2> HIDE DEF r
  <2> QED BY <1>1, <2>1, <2>2
<1> QED BY <1>2, <1>3, <1>4, <1>5

------------------------------------------------------------------------------
(* The user acts.                                                          *)

\* An event of the user.
Clicks ==
  TypeRecipient \/ TypeAmount \/ ClickSwap \/ ClickSend \/ ClickBack \/ ClickConfirm \/ ClickCancel

TypedBy(at, i) ==
  [text |-> IF at = "recipient" THEN i ELSE typed.text,
   amount |-> IF at = "amount" THEN i ELSE typed.amount]

\* Whatever the user does, an event is dispatched that is of its screen.
LEMMA ClicksDispatch ==
  ASSUME Types, Clicks
  PROVE  \E at \in EventKinds, i \in Inputs :
           /\ Dispatch(at, i)
           /\ EventOK([at |-> at, context |-> ui, input |-> i])
           /\ typed' = TypedBy(at, i) /\ typed' \in [text : Recipients \cup {None}, amount : Nat]
           /\ mishaps' = IF at = "send" /\ StillBuilding THEN mishaps \cup {"early"} ELSE mishaps
<1>1. /\ typed \in [text : Recipients \cup {None}, amount : Nat]
      /\ typed = [text |-> typed.text, amount |-> typed.amount]
  BY DEF Types, BoundTypes
<1>2. None \in Inputs /\ Recipients \cup {None} \subseteq Inputs /\ Amounts \cup {0} \subseteq Inputs
  BY AmountsAssumption DEF Inputs
<1>3. {"recipient", "amount", "swap", "send", "back", "confirm", "cancel"} \subseteq EventKinds
  BY DEF EventKinds
<1> DEFINE ok(at, i) == EventOK([at |-> at, context |-> ui, input |-> i])
<1>4. CASE TypeRecipient
  <2>1. PICK r \in Recipients \cup {None} : Dispatch("recipient", r) /\ typed' = [typed EXCEPT !.text = r]
    BY <1>4 DEF TypeRecipient
  <2>2. typed' = TypedBy("recipient", r) /\ typed' \in [text : Recipients \cup {None}, amount : Nat]
    BY <1>1, <2>1 DEF TypedBy
  <2>3. r \in Inputs /\ mishaps' = mishaps
    BY <1>2, <1>4 DEF TypeRecipient
  <2>4. ok("recipient", r)
    BY <1>4 DEF TypeRecipient, EventOK, FormEvents, ConfirmationEvents
  <2> HIDE DEF ok
  <2>5. ok("recipient", r) /\ "recipient" \in EventKinds
    BY <1>3, <2>4
  <2> QED BY <2>1, <2>2, <2>3, <2>5 DEF ok
<1>5. CASE TypeAmount
  <2>1. PICK a \in Amounts \cup {0} : Dispatch("amount", a) /\ typed' = [typed EXCEPT !.amount = a]
    BY <1>5 DEF TypeAmount
  <2>2. typed' = TypedBy("amount", a) /\ typed' \in [text : Recipients \cup {None}, amount : Nat]
    BY <1>1, <2>1, AmountsAssumption DEF TypedBy
  <2>3. a \in Inputs /\ mishaps' = mishaps
    BY <1>2, <1>5 DEF TypeAmount
  <2>4. ok("amount", a)
    BY <1>5, AmountsAssumption DEF TypeAmount, EventOK, FormEvents, ConfirmationEvents
  <2> HIDE DEF ok
  <2>5. ok("amount", a) /\ "amount" \in EventKinds
    BY <1>3, <2>4
  <2> QED BY <2>1, <2>2, <2>3, <2>5 DEF ok
<1> DEFINE goal ==
             \E at \in EventKinds, i \in Inputs :
               /\ Dispatch(at, i)
               /\ EventOK([at |-> at, context |-> ui, input |-> i])
               /\ typed' = TypedBy(at, i) /\ typed' \in [text : Recipients \cup {None}, amount : Nat]
               /\ mishaps' = IF at = "send" /\ StillBuilding THEN mishaps \cup {"early"} ELSE mishaps
<1>6. ASSUME NEW at \in {"swap", "send", "back", "confirm", "cancel"}, Dispatch(at, None), typed' = typed,
             ok(at, None), mishaps' = IF at = "send" /\ StillBuilding THEN mishaps \cup {"early"} ELSE mishaps
      PROVE  goal
  <2>1. typed' = TypedBy(at, None) /\ typed' \in [text : Recipients \cup {None}, amount : Nat]
    BY <1>1, <1>6 DEF TypedBy
  <2>2. at \in EventKinds
    BY <1>3
  <2> HIDE DEF ok
  <2> QED BY <1>2, <1>6, <2>1, <2>2 DEF ok
<1>7. ASSUME ClickSwap PROVE goal
  <2>1. ok("swap", None)
    BY <1>7 DEF ClickSwap, EventOK, FormEvents, ConfirmationEvents
  <2>2. Dispatch("swap", None) /\ typed' = typed /\ mishaps' = mishaps
    BY <1>7 DEF ClickSwap
  <2> HIDE DEF ok, goal
  <2> QED BY <1>6, <2>1, <2>2
<1>8. ASSUME ClickSend PROVE goal
  <2>1. ok("send", None)
    BY <1>8 DEF ClickSend, CanReview, EventOK, FormEvents, ConfirmationEvents
  <2>2. /\ Dispatch("send", None) /\ typed' = typed
        /\ mishaps' = IF StillBuilding THEN mishaps \cup {"early"} ELSE mishaps
    BY <1>8 DEF ClickSend
  <2> HIDE DEF ok, goal
  <2> QED BY <1>6, <2>1, <2>2
<1>9. ASSUME NEW at \in {"back", "confirm"}, Dispatch(at, None), ui.stage = "confirmation",
             UNCHANGED <<typed, mishaps>>
      PROVE  goal
  <2>1. ok(at, None)
    BY <1>9 DEF EventOK, FormEvents, ConfirmationEvents
  <2>2. typed' = typed /\ mishaps' = mishaps
    BY <1>9
  <2> HIDE DEF ok, goal
  <2> QED BY <1>6, <1>9, <2>1, <2>2
<1>10. ASSUME ClickCancel PROVE goal
  <2>1. ok("cancel", None)
    BY <1>10 DEF ClickCancel, EventOK, FormEvents, ConfirmationEvents
  <2>2. Dispatch("cancel", None) /\ typed' = typed /\ mishaps' = mishaps
    BY <1>10 DEF ClickCancel
  <2> HIDE DEF ok, goal
  <2> QED BY <1>6, <2>1, <2>2
<1>11. ASSUME ClickBack \/ ClickConfirm PROVE goal
  BY <1>9, <1>11 DEF ClickBack, ClickConfirm
<1> HIDE DEF goal
<1> QED BY <1>4, <1>5, <1>7, <1>8, <1>10, <1>11 DEF Clicks, goal

\* The types, when the user acts.
LEMMA ClicksTyped == Types /\ Clicks => Types'
<1> SUFFICES ASSUME Types, Clicks PROVE Types'
  OBVIOUS
<1>1. PICK at \in EventKinds, i \in Inputs :
        /\ Dispatch(at, i) /\ mishaps' \in {mishaps, mishaps \cup {"early"}}
        /\ typed' \in [text : Recipients \cup {None}, amount : Nat]
  BY ClicksDispatch
<1>2. EventTypes' /\ allowance' \in [events : Nat, disturbances : Nat]
  BY <1>1, Dispatched
<1>3. ScreenTypes' /\ BuildingTypes' /\ HistoryTypes'
  BY <1>1 DEF Dispatch, building, Types, ScreenTypes, BuildingTypes, HistoryTypes, Reasons
<1>4. BoundTypes'
  BY <1>1, <1>2 DEF Types, BoundTypes
<1> QED BY <1>2, <1>3, <1>4 DEF Types

\* The user acts: there is one event more, which holds a copy of the context.
LEMMA ClicksKeepState == StateInv /\ Clicks => StateInv'
<1> SUFFICES ASSUME StateInv, Clicks PROVE StateInv'
  OBVIOUS
<1> USE DEF StateInv
<1>1. PICK at \in EventKinds, i \in Inputs :
        /\ Dispatch(at, i) /\ mishaps' \in {mishaps, mishaps \cup {"early"}}
        /\ EventOK([at |-> at, context |-> ui, input |-> i])
  BY ClicksDispatch
<1> DEFINE e == [at |-> at, context |-> ui, input |-> i]
<1>2. Waiting' = Waiting \cup {e} /\ e \in Events /\ Types'
  BY <1>1, Dispatched, ClicksTyped
<1>3. UNCHANGED <<ui, open, job, timer, build, built, refresh, sent>> /\ open
  BY <1>1 DEF Dispatch, building
<1>4. CopiesInv'
  <2>1. Copies' \subseteq Copies
    BY <1>2, <1>3 DEF Copies
  <2> QED BY <1>3, <2>1 DEF CopiesInv, IsContext
<1>5. EventOK(e)
  BY <1>1
<1>6. FlowInv'
  BY <1>1, <1>2, <1>3, <1>5 DEF FlowInv, EventOK, JobOK, BuildOK
<1> QED BY <1>2, <1>4, <1>6

------------------------------------------------------------------------------
(* A step of a handler, build or refresh.                                  *)

\* A handler, build or refresh changes the state by one context, c, at most.
Closed ==
  /\ inbox = <<>> /\ timer = None /\ refresh = None
  /\ \A j \in Jobs : job[j] = Idle \/ job[j].at \in Sending
  /\ \A b \in Builds : build[b] = NoBuild

Wrote(c) ==
  /\ c \in Contexts /\ (c.message # None => c.message.number <= built') /\ (c.building => c.message = None)
  /\ c.stage = "success" => sent' # {}
  /\ ui' \in {ui, c} /\ refresh' \in {refresh, None, ui}
  /\ timer' \in {timer, None} \/ (timer' = c /\ c.stage = "form")
  /\ open' = open /\ (key' = key \/ key' = FALSE)

\* Of the events that wait none is new.
Received == inbox' \in Seq(Events) /\ Waiting' \subseteq Waiting

Handled(c) ==
  /\ job' \in [Jobs -> JobRecords]
  /\ \A j \in Jobs : \/ job'[j] \in {job[j], Idle}
                     \/ job'[j].context \in {c, job[j].context} /\ JobOK(j)'

Assembled ==
  /\ build' \in [Builds -> BuildRecords] /\ built' \in {built, built + 1}
  /\ \A b \in Builds :
       \/ build'[b] \in {build[b], NoBuild}
       \/ /\ build'[b].context \in {ui, None} /\ BuildOK(b)'
          /\ \/ build'[b].number = built' /\ built' = built + 1
             \/ build[b] # NoBuild /\ build'[b].number = build[b].number
  /\ \A b, d \in Builds : build'[b].number = built' /\ build'[d].number = built' /\ built' = built + 1 => b = d

Recorded ==
  /\ sent \subseteq sent' /\ sent' \subseteq Messages /\ amiss' \in BOOLEAN
  /\ mishaps \subseteq mishaps' /\ mishaps' \subseteq Reasons
  /\ BoundTypes'

\* A step that writes, receives, handles, builds and records as defined above keeps the state.
LEMMA StateKept ==
  ASSUME StateInv, NEW c, Wrote(c), Received, Handled(c), Assembled, Recorded, open \/ Closed'
  PROVE  StateInv'
<1> USE DEF StateInv, Wrote, Received, Recorded
<1>0. /\ ui \in Contexts /\ open \in BOOLEAN /\ key \in BOOLEAN /\ (key => open) /\ timer \in Contexts \cup {None}
      /\ refresh \in Contexts \cup {None} /\ built \in Nat /\ job \in [Jobs -> JobRecords]
      /\ build \in [Builds -> BuildRecords] /\ mishaps \subseteq Reasons
  BY DEF Types, ScreenTypes, BuildingTypes, EventTypes, HistoryTypes
<1>1. Types'
  <2>1. ScreenTypes'
    <3>1. ui' \in Contexts
      BY <1>0
    <3>2. open' \in BOOLEAN /\ key' \in BOOLEAN /\ (key' => open')
      <4>1. open' = open /\ (key' = key \/ key' = FALSE)
        OBVIOUS
      <4>2. CASE key' = key
        BY <1>0, <4>1, <4>2
      <4>3. CASE key' = FALSE
        BY <1>0, <4>1, <4>3
      <4> QED BY <4>1, <4>2, <4>3
    <3> QED BY <3>1, <3>2 DEF ScreenTypes
  <2>2. EventTypes'
    BY DEF EventTypes, Handled
  <2>3. BuildingTypes'
    BY <1>0 DEF BuildingTypes, Assembled
  <2>4. HistoryTypes'
    BY DEF HistoryTypes
  <2> QED BY <2>1, <2>2, <2>3, <2>4 DEF Types
<1>2. CopiesInv'
  <2>1. Copies' \subseteq Copies \cup {c, None}
    <3>1. \A j \in Jobs : job'[j].context \in {job[j].context, c, None}
      BY DEF Handled, Idle
    <3>2. \A b \in Builds : build'[b].context \in {build[b].context, ui, None}
      BY DEF Assembled, NoBuild
    <3> QED BY <3>1, <3>2 DEF Copies
  <2>2. built <= built'
    BY <1>0 DEF Assembled
  <2>3. ASSUME NEW d \in Copies' \ {None} PROVE IsContext(d)' /\ (d.stage = "success" => sent' # {})
    <3>1. CASE d = c
      BY <3>1 DEF IsContext
    <3>2. CASE d \in Copies \ {None}
      <4>1. IsContext(d) /\ (d.stage = "success" => sent # {})
        BY <3>2 DEF CopiesInv
      <4>2. d.message # None => d.message.number \in Nat
        BY <4>1 DEF IsContext, Contexts, Messages
      <4>3. built' \in Nat
        BY <1>0 DEF Assembled
      <4> QED BY <1>0, <2>2, <4>1, <4>2, <4>3 DEF IsContext
    <3> QED BY <2>1, <2>3, <3>1, <3>2
  <2> QED BY <2>3 DEF CopiesInv
<1>3. FlowInv'
  <2>1. \A e \in Waiting' : EventOK(e)'
    BY DEF FlowInv, EventOK
  <2>2. \A j \in Jobs : JobOK(j)'
    <3> SUFFICES ASSUME NEW j \in Jobs, job'[j] \in {job[j], Idle} PROVE JobOK(j)'
      BY DEF Handled
    <3> QED BY DEF FlowInv, JobOK
  <2>3. \A b \in Builds : BuildOK(b)'
    <3> SUFFICES ASSUME NEW b \in Builds, build'[b] \in {build[b], NoBuild} PROVE BuildOK(b)'
      BY DEF Assembled
    <3>1. BuildOK(b) /\ built <= built' /\ built' \in Nat
      BY <1>0 DEF FlowInv, Assembled
    <3>2. CASE build'[b] = NoBuild
      BY <3>2 DEF BuildOK
    <3>3. CASE build'[b] = build[b]
      BY <1>0, <3>1, <3>3 DEF BuildOK
    <3> QED BY <3>2, <3>3
  <2>4. ASSUME NEW b \in Builds, NEW d \in Builds, build'[b] # NoBuild, build'[d] # NoBuild,
               build'[b].number = build'[d].number
        PROVE  b = d
    <3> DEFINE Old(x) == build[x] # NoBuild /\ build'[x].number = build[x].number
               New(x) == build'[x].number = built' /\ built' = built + 1
    <3>1. \A x \in Builds : build'[x] # NoBuild => Old(x) \/ New(x)
      BY DEF Assembled
    <3>2. \A x \in Builds : build[x] # NoBuild => build[x].number \in 1..built
      BY DEF FlowInv, BuildOK
    <3>3. Old(b) /\ Old(d) => b = d
      BY <2>4 DEF FlowInv
    <3>4. ~(Old(b) /\ New(d)) /\ ~(New(b) /\ Old(d))
      BY <1>0, <2>4, <3>2
    <3>5. New(b) /\ New(d) => b = d
      BY DEF Assembled
    <3> HIDE DEF Old, New
    <3> QED BY <2>4, <3>1, <3>3, <3>4, <3>5
  <2>5. timer' # None => timer'.stage = "form"
    BY DEF FlowInv
  <2>6. ~open' => Closed'
    BY <1>0
  <2> QED BY <2>1, <2>2, <2>3, <2>4, <2>5, <2>6 DEF FlowInv, Closed
<1> QED BY <1>1, <1>2, <1>3

\* What keeps its type: the history and what the inputs show.
Fit ==
  /\ mishaps \subseteq mishaps' /\ mishaps' \subseteq Reasons
  /\ typed' \in [text : Recipients \cup {None}, amount : Nat]
  /\ allowance' \in [events : Nat, disturbances : Nat]

\* What an action leaves alone.
LEMMA Untouched ==
  ASSUME StateInv
  PROVE  /\ inbox' = inbox => Received
         /\ job' = job => \A c : Handled(c)
         /\ build' = build /\ built' = built => Assembled
         /\ UNCHANGED <<sent, amiss>> /\ Fit => Recorded
<1>1. inbox' = inbox => Received
  BY DEF StateInv, Types, EventTypes, Received, Waiting
<1>2. job' = job => \A c : Handled(c)
  BY DEF StateInv, Types, EventTypes, Handled
<1>3. build' = build /\ built' = built => Assembled
  BY DEF StateInv, Types, BuildingTypes, Assembled
<1>4. UNCHANGED <<sent, amiss>> /\ Fit => Recorded
  <2>1. amiss' = amiss => amiss' \in BOOLEAN
    BY DEF StateInv, Types, HistoryTypes
  <2>2. sent' = sent => sent \subseteq sent' /\ sent' \subseteq Messages
    BY DEF StateInv, Types, HistoryTypes
  <2>3. Fit => BoundTypes'
    BY DEF BoundTypes, Fit
  <2> QED BY <2>1, <2>2, <2>3 DEF Recorded, Fit
<1> QED BY <1>1, <1>2, <1>3, <1>4

\* An event that is taken up is one of a form or confirmation that is open.
LEMMA TakenUp ==
  ASSUME StateInv, NEW at, Takes(at)
  PROVE  /\ Received /\ open /\ EventOK(Head(inbox)) /\ Head(inbox).at = at
         /\ base \in Contexts /\ IsContext(base) /\ input \in Inputs
<1>1. /\ inbox' \in Seq(Events) /\ Waiting' \subseteq Waiting /\ Head(inbox) \in Waiting
      /\ Head(inbox).at = at /\ base \in Contexts /\ input \in Inputs
  BY Taken DEF StateInv
<1>2. open
  BY DEF StateInv, FlowInv, Takes
<1>3. EventOK(Head(inbox))
  BY <1>1 DEF StateInv, FlowInv
<1>4. IsContext(base)
  <2>1. base \in Copies \ {None}
    BY <1>1, NoneAssumption DEF Copies, base
  <2> QED BY <2>1 DEF StateInv, CopiesInv
<1> QED BY <1>1, <1>2, <1>3, <1>4 DEF Received

\* A context that is there is one, and one made from it with its message as well.
LEMMA Kept ==
  ASSUME StateInv, NEW d \in Contexts, d \in Copies
  PROVE  IsContext(d) /\ (d.stage = "success" => sent # {})
  BY NoneAssumption DEF StateInv, CopiesInv

\* One made from it, with its message, is one too.
LEMMA Reshaped ==
  ASSUME NEW d \in Contexts, IsContext(d), NEW c \in Contexts,
         c.message = d.message, c.building = d.building, built' = built
  PROVE  (c.message # None => c.message.number <= built') /\ (c.building => c.message = None)
  BY DEF IsContext

\* A job begins.
LEMMA Started ==
  ASSUME StateInv, NEW at \in JobKinds, NEW c \in Contexts, NEW i \in Inputs, Starts(at, c, i),
         \/ at = "resolving" /\ c.stage = "form" /\ i \in Domains /\ c.text = i
         \/ at = "pricing" /\ c.stage = "confirmation"
         \/ at = "approving" /\ c.stage = "confirmation" /\ c.message # None
  PROVE  Handled(c)
<1>1. job' \in [Jobs -> JobRecords]
  BY JobsTyped DEF StateInv, Types
<1>2. PICK k \in Jobs : job' = [job EXCEPT ![k] = [at |-> at, context |-> c, input |-> i]]
  BY DEF Starts
<1>3. job \in [Jobs -> JobRecords]
  BY DEF StateInv, Types, EventTypes
<1>4. ASSUME NEW j \in Jobs PROVE job'[j] = job[j] \/ (job'[j].context = c /\ JobOK(j)')
  <2>1. CASE j = k
    <3>1. job'[j] = [at |-> at, context |-> c, input |-> i]
      BY <1>2, <1>3, <2>1
    <3>2. job'[j].at = at /\ job'[j].context = c /\ job'[j].input = i
      BY <3>1
    <3> QED BY <3>2 DEF JobOK
  <2>2. CASE j # k
    BY <1>2, <1>3, <2>2
  <2> QED BY <2>1, <2>2
<1> QED BY <1>1, <1>4 DEF Handled

\* A job ends.
LEMMA Finished ==
  ASSUME StateInv, NEW j \in Jobs, Finishes(j)
  PROVE  /\ \A c : Handled(c)
         /\ job'[j] = Idle /\ \A k \in Jobs : k # j => job'[k] = job[k]
<1>1. job \in [Jobs -> JobRecords] /\ job' \in [Jobs -> JobRecords]
  BY JobsTyped DEF StateInv, Types, EventTypes
<1>2. job'[j] = Idle /\ \A k \in Jobs : k # j => job'[k] = job[k]
  BY <1>1 DEF Finishes
<1> QED BY <1>1, <1>2 DEF Handled

\* What the types say of the parts that most actions write.
LEMMA StateFacts ==
  ASSUME Types
  PROVE  /\ {"event", "answer", "build", "merge", "refresh", "repriced", "failed", "disorder", "early", "lost"}
              \subseteq Reasons
         /\ mishaps \subseteq Reasons /\ sent \subseteq Messages
         /\ typed \in [text : Recipients \cup {None}, amount : Nat]
         /\ allowance \in [events : Nat, disturbances : Nat]
         /\ ui \in Contexts
  BY DEF Types, ScreenTypes, HistoryTypes, BoundTypes, Reasons

\* Taking up an event, a handler writes a context made from the event's.
LEMMA EventKeepsState ==
  ASSUME StateInv, NEW at, Takes(at),
         NEW c \in Contexts, c.message = base.message, c.building = base.building, c.stage # "success",
         \/ Writes("event", base, c, {})
         \/ ui' = ui /\ mishaps' \in {mishaps, mishaps \cup {"event"}},
         timer' = timer \/ (timer' = c /\ c.stage = "form"),
         Handled(c), typed' \in [text : Recipients \cup {None}, amount : Nat],
         UNCHANGED <<open, key, build, built, refresh, sent, amiss, allowance>>
  PROVE  StateInv'
<1>1. Received /\ open /\ base \in Contexts /\ IsContext(base)
  BY TakenUp
<1>2. Assembled
  BY Untouched
<1>3. ui' \in {ui, c} /\ mishaps \subseteq mishaps' /\ mishaps' \subseteq Reasons
  <2>1. CASE Writes("event", base, c, {})
    BY <2>1, Written, ScreenTyped, StateFacts DEF StateInv
  <2>2. CASE ui' = ui /\ mishaps' \in {mishaps, mishaps \cup {"event"}}
    BY <2>2, StateFacts DEF StateInv
  <2> QED BY <2>1, <2>2
<1>4. Recorded
  BY <1>3, Untouched, StateFacts DEF StateInv, Fit
<1>5. Wrote(c)
  BY <1>1, <1>3, Reshaped DEF Wrote
<1> QED BY <1>1, <1>2, <1>4, <1>5, StateKept

------------------------------------------------------------------------------
(* The handlers of the events.                                             *)

\* One after the other.
LEMMA RecipientKeepsState ==
  ASSUME StateInv, OnDestinationChange
  PROVE  StateInv'
<1>1. Takes("recipient") /\ UNCHANGED <<open, typed, key, build, built, refresh, sent, amiss, allowance>>
  BY DEF OnDestinationChange
<1>2. EventOK(Head(inbox)) /\ Head(inbox).at = "recipient" /\ base \in Contexts /\ input \in Inputs
  BY <1>1, TakenUp
<1>3. base.stage = "form" /\ input \in Recipients \cup {None}
  BY <1>2 DEF EventOK, FormEvents, base, input
<1> DEFINE c1 == [base EXCEPT !.text = input]
           c2 == [base EXCEPT !.text = input, !.to = input]
<1>4. /\ c1 \in Contexts /\ c1.stage = "form" /\ c1.text = input
      /\ c1.message = base.message /\ c1.building = base.building
      /\ c2 \in Contexts /\ c2.stage = "form" /\ c2.message = base.message /\ c2.building = base.building
  BY <1>2, <1>3 DEF Contexts
<1>5. \/ input \in Domains /\ Writes("event", base, c1, {}) /\ Starts("resolving", c1, input) /\ UNCHANGED timer
      \/ Writes("event", base, c2, {}) /\ timer' \in {timer, c2} /\ UNCHANGED job
  BY DEF OnDestinationChange, Debounces
<1>6. typed' \in [text : Recipients \cup {None}, amount : Nat]
  BY <1>1, StateFacts DEF StateInv
<1> HIDE DEF c1, c2
<1>7. CASE input \in Domains /\ Writes("event", base, c1, {}) /\ Starts("resolving", c1, input) /\ UNCHANGED timer
  <2>1. Handled(c1)
    BY <1>2, <1>4, <1>7, Started DEF JobKinds
  <2> QED BY <1>1, <1>4, <1>6, <1>7, <2>1, EventKeepsState
<1>8. CASE Writes("event", base, c2, {}) /\ timer' \in {timer, c2} /\ UNCHANGED job
  <2>1. Handled(c2)
    BY <1>8, Untouched
  <2> QED BY <1>1, <1>4, <1>6, <1>8, <2>1, EventKeepsState
<1> QED BY <1>5, <1>7, <1>8

LEMMA AmountKeepsState ==
  ASSUME StateInv, OnAmountChange
  PROVE  StateInv'
<1>1. Takes("amount") /\ UNCHANGED <<open, typed, key, job, build, built, refresh, sent, amiss, allowance>>
  BY DEF OnAmountChange
<1>2. EventOK(Head(inbox)) /\ Head(inbox).at = "amount" /\ base \in Contexts /\ input \in Inputs
  BY <1>1, TakenUp
<1>3. base.stage = "form" /\ input \in Nat
  BY <1>2 DEF EventOK, FormEvents, base, input
<1> DEFINE c == [base EXCEPT !.amount = input]
<1>4. c \in Contexts /\ c.stage = "form" /\ c.message = base.message /\ c.building = base.building
  BY <1>2, <1>3 DEF Contexts
<1>5. /\ timer' \in {timer, c}
      /\ \/ Writes("event", base, c, {})
         \/ ui' = ui /\ mishaps' \in {mishaps, mishaps \cup {"event"}}
  BY DEF OnAmountChange, Debounces
<1>6. typed' \in [text : Recipients \cup {None}, amount : Nat] /\ Handled(c)
  BY <1>1, StateFacts, Untouched DEF StateInv
<1> HIDE DEF c
<1> QED BY <1>1, <1>4, <1>5, <1>6, EventKeepsState

LEMMA SwapKeepsState ==
  ASSUME StateInv, OnSwapCurrency
  PROVE  StateInv'
<1>1. Takes("swap") /\ UNCHANGED <<open, key, job, building, refresh, sent, amiss, allowance>>
  BY DEF OnSwapCurrency
<1>2. EventOK(Head(inbox)) /\ Head(inbox).at = "swap" /\ base \in Contexts
  BY <1>1, TakenUp
<1>3. base.stage = "form"
  BY <1>2 DEF EventOK, FormEvents, base
<1> DEFINE n == IF base.fiat THEN base.amount \div base.price ELSE base.amount * base.price
           c == [base EXCEPT !.fiat = ~@, !.amount = n]
<1>4. n \in Nat
  BY <1>2, Summed
<1>5. Writes("event", base, c, {}) /\ typed' = [typed EXCEPT !.amount = c.amount]
  BY DEF OnSwapCurrency
<1> HIDE DEF n
<1>6. c \in Contexts /\ c.stage = "form" /\ c.message = base.message /\ c.building = base.building /\ c.amount = n
  BY <1>2, <1>3, <1>4 DEF Contexts
<1> HIDE DEF c
<1>7. typed' \in [text : Recipients \cup {None}, amount : Nat] /\ Handled(c)
  BY <1>1, <1>4, <1>5, <1>6, StateFacts, Untouched DEF StateInv
<1>8. UNCHANGED <<timer, build, built>>
  BY <1>1 DEF building
<1> QED BY <1>1, <1>5, <1>6, <1>7, <1>8, EventKeepsState

LEMMA SendKeepsState ==
  ASSUME StateInv, OnSend
  PROVE  StateInv'
<1>1. Takes("send") /\ UNCHANGED <<open, typed, key, building, refresh, sent, amiss, allowance>>
  BY DEF OnSend
<1>2. base \in Contexts
  BY <1>1, TakenUp
<1> DEFINE c == [base EXCEPT !.stage = "confirmation", !.loading = TRUE]
<1>3. c \in Contexts /\ c.stage = "confirmation" /\ c.message = base.message /\ c.building = base.building
  BY <1>2 DEF Contexts, Stages
<1>4. (Writes("event", base, c, {}) /\ Starts("pricing", c, None)) \/ UNCHANGED <<ui, job, mishaps>>
  BY DEF OnSend
<1> HIDE DEF c
<1>5. Handled(c)
  <2>1. CASE Starts("pricing", c, None)
    BY <1>3, <2>1, Started DEF JobKinds, Inputs
  <2> QED BY <1>4, <2>1, Untouched
<1>6. UNCHANGED <<timer, build, built>> /\ typed' \in [text : Recipients \cup {None}, amount : Nat]
  BY <1>1, StateFacts DEF building, StateInv
<1>7. Writes("event", base, c, {}) \/ (ui' = ui /\ mishaps' \in {mishaps, mishaps \cup {"event"}})
  BY <1>4
<1> QED BY <1>1, <1>3, <1>5, <1>6, <1>7, EventKeepsState

LEMMA BackKeepsState ==
  ASSUME StateInv, OnBack
  PROVE  StateInv'
<1>1. Takes("back") /\ UNCHANGED <<open, key, job, building, refresh, sent, amiss, allowance>>
  BY DEF OnBack
<1>2. base \in Contexts
  BY <1>1, TakenUp
<1> DEFINE c == [base EXCEPT !.stage = "form"]
<1>3. c \in Contexts /\ c.stage = "form" /\ c.message = base.message /\ c.building = base.building
  BY <1>2 DEF Contexts, Stages
<1>4. Writes("event", base, c, {}) /\ typed' = [text |-> base.text, amount |-> base.amount]
  BY DEF OnBack
<1> HIDE DEF c
<1>5. typed' \in [text : Recipients \cup {None}, amount : Nat] /\ Handled(c)
  BY <1>1, <1>2, <1>4, Untouched DEF Contexts
<1>6. UNCHANGED <<timer, build, built>>
  BY <1>1 DEF building
<1> QED BY <1>1, <1>3, <1>4, <1>5, <1>6, EventKeepsState

LEMMA ConfirmKeepsState ==
  ASSUME StateInv, OnConfirm
  PROVE  StateInv'
<1>1. Takes("confirm") /\ UNCHANGED <<open, typed, key, building, refresh, sent, amiss, allowance>>
  BY DEF OnConfirm
<1>2. base \in Contexts /\ EventOK(Head(inbox)) /\ Head(inbox).at = "confirm"
  BY <1>1, TakenUp
<1>3. base.stage = "confirmation"
  BY <1>2 DEF EventOK, ConfirmationEvents, base
<1> DEFINE c == [base EXCEPT !.stage = "form"]
<1>4. c \in Contexts /\ c.stage = "form" /\ c.message = base.message /\ c.building = base.building
  BY <1>2 DEF Contexts, Stages
<1>5. \/ Writes("event", base, c, {}) /\ UNCHANGED job
      \/ base.message # None /\ Starts("approving", base, None) /\ UNCHANGED <<ui, mishaps>>
  BY DEF OnConfirm
<1> HIDE DEF c
<1>6. UNCHANGED <<timer, build, built>> /\ typed' \in [text : Recipients \cup {None}, amount : Nat]
  BY <1>1, StateFacts DEF building, StateInv
<1>7. CASE Writes("event", base, c, {}) /\ UNCHANGED job
  <2>1. Handled(c)
    BY <1>7, Untouched
  <2> QED BY <1>1, <1>4, <1>6, <1>7, <2>1, EventKeepsState
<1>8. CASE base.message # None /\ Starts("approving", base, None) /\ UNCHANGED <<ui, mishaps>>
  <2>1. Handled(base)
    BY <1>2, <1>3, <1>8, Started DEF JobKinds, Inputs
  <2> QED BY <1>1, <1>2, <1>3, <1>6, <1>8, <2>1, EventKeepsState
<1> QED BY <1>5, <1>7, <1>8

\* The interface is gone, and all that was on its way with it.
LEMMA CancelKeepsState ==
  ASSUME StateInv, OnCancel
  PROVE  StateInv'
<1>1. /\ open' = FALSE /\ key' = FALSE /\ inbox' = <<>> /\ timer' = None /\ refresh' = None
      /\ job' = [j \in Jobs |-> IF job[j].at \in {"resolving", "pricing", "approving"} THEN Idle ELSE job[j]]
      /\ build' = [b \in Builds |-> NoBuild]
      /\ UNCHANGED <<ui, typed, built, sent, amiss, mishaps, allowance>>
  BY DEF OnCancel
<1>2. job \in [Jobs -> JobRecords] /\ build \in [Builds -> BuildRecords]
  BY DEF StateInv, Types, EventTypes, BuildingTypes
<1>3. Idle \in JobRecords /\ NoBuild \in BuildRecords
  BY DEF Idle, NoBuild, JobRecords, BuildRecords, JobKinds, BuildKinds, Inputs
<1>4. \A j \in Jobs : job'[j] \in {job[j], Idle} /\ job'[j].at \notin {"resolving", "pricing", "approving"}
  BY <1>1 DEF Idle
<1>5. \A b \in Builds : build'[b] = NoBuild
  BY <1>1
<1>6. Types'
  <2>1. ScreenTypes'
    <3>1. open' \in BOOLEAN /\ key' \in BOOLEAN /\ (key' => open')
      BY <1>1
    <3> QED BY <1>1, <3>1 DEF StateInv, Types, ScreenTypes
  <2>2. EventTypes'
    BY <1>1, <1>2, <1>3 DEF EventTypes
  <2>3. BuildingTypes' /\ BoundTypes'
    BY <1>1, <1>3 DEF StateInv, Types, BuildingTypes, BoundTypes
  <2>4. HistoryTypes'
    BY <1>1 DEF StateInv, Types, HistoryTypes
  <2> QED BY <2>1, <2>2, <2>3, <2>4 DEF Types
<1>7. CopiesInv'
  <2>1. Waiting' = {}
    BY <1>1 DEF Waiting
  <2>2. Copies' \subseteq Copies \cup {None}
    BY <1>1, <1>4, <1>5, <2>1 DEF Copies, Idle, NoBuild
  <2> QED BY <1>1, <2>2 DEF StateInv, CopiesInv, IsContext
<1>8. FlowInv'
  <2>1. Waiting' = {}
    BY <1>1 DEF Waiting
  <2>2. \A j \in Jobs : JobOK(j)' /\ (job'[j] = Idle \/ job'[j].at \in Sending)
    <3> SUFFICES ASSUME NEW j \in Jobs PROVE JobOK(j)' /\ (job'[j] = Idle \/ job'[j].at \in Sending)
      OBVIOUS
    <3>1. JobOK(j) /\ sent' = sent
      BY <1>1 DEF StateInv, FlowInv
    <3>2. CASE job'[j] = Idle
      BY <3>2 DEF JobOK
    <3>3. CASE job'[j] = job[j]
      <4>1. job[j] = Idle \/ job[j].at \in Sending
        BY <1>4, <3>1, <3>3 DEF JobOK
      <4> QED BY <3>1, <3>3, <4>1 DEF JobOK
    <3> QED BY <1>4, <3>2, <3>3
  <2>3. \A b \in Builds : BuildOK(b)'
    BY <1>5 DEF BuildOK
  <2> QED BY <1>1, <1>5, <2>1, <2>2, <2>3 DEF FlowInv
<1> QED BY <1>6, <1>7, <1>8 DEF StateInv

\* What a job holds that is not idle.
LEMMA HeldBy ==
  ASSUME StateInv, NEW j \in Jobs, job[j].at # "idle"
  PROVE  /\ held(j) \in Contexts /\ IsContext(held(j)) /\ (held(j).stage = "success" => sent # {})
         /\ JobOK(j) /\ job[j] # Idle
         /\ job[j].at \notin Sending => open
         /\ job[j].input \in Inputs
<1>1. job[j] # Idle /\ JobOK(j)
  BY DEF StateInv, FlowInv, Idle
<1>2. held(j) \in Contexts
  BY <1>1 DEF JobOK, held
<1>3. held(j) \in Copies
  BY DEF Copies, held
<1>4. job[j].at \notin Sending => open
  BY <1>1 DEF StateInv, FlowInv
<1>5. job[j].input \in Inputs
  BY DEF StateInv, Types, EventTypes, JobRecords
<1> QED BY <1>1, <1>2, <1>3, <1>4, <1>5, Kept

------------------------------------------------------------------------------
(* The answers.                                                            *)

\* With an answer, a handler writes a context made from the one it held.
LEMMA AnswerKeepsState ==
  ASSUME StateInv, NEW j \in Jobs, job[j].at # "idle",
         NEW c \in Contexts, c.message = held(j).message, c.building = held(j).building,
         c.stage = "success" => sent # {},
         NEW why \in SUBSET Reasons,
         Writes("answer", held(j), c, why) \/ (ui' = ui /\ mishaps' = mishaps),
         timer' = timer \/ (timer' = c /\ c.stage = "form"),
         key' = key \/ key' = FALSE,
         Handled(c), allowance' \in [events : Nat, disturbances : Nat], open \/ Closed',
         UNCHANGED <<open, typed, inbox, build, built, refresh, sent, amiss>>
  PROVE  StateInv'
<1>1. held(j) \in Contexts /\ IsContext(held(j))
  BY HeldBy
<1>2. Assembled /\ Received
  BY Untouched
<1>3. ui' \in {ui, c} /\ mishaps \subseteq mishaps' /\ mishaps' \subseteq Reasons
  <2>1. CASE Writes("answer", held(j), c, why)
    BY <2>1, Written, ScreenTyped, StateFacts DEF StateInv
  <2>2. CASE ui' = ui /\ mishaps' = mishaps
    BY <2>2, StateFacts DEF StateInv
  <2> QED BY <2>1, <2>2
<1>4. Recorded
  BY <1>3, Untouched, StateFacts DEF StateInv, Fit
<1>5. Wrote(c)
  BY <1>1, <1>3, Reshaped DEF Wrote
<1> QED BY <1>2, <1>4, <1>5, StateKept

\* One after the other.
LEMMA ResolvedKeepsState ==
  ASSUME StateInv, NEW j \in Jobs, OnDomainResolved(j)
  PROVE  StateInv'
<1>1. /\ job[j].at = "resolving" /\ Finishes(j)
      /\ UNCHANGED <<open, typed, key, inbox, build, built, refresh, sent, amiss>>
  BY DEF OnDomainResolved, At
<1>2. held(j) \in Contexts /\ JobOK(j) /\ job[j] # Idle /\ open
  BY <1>1, HeldBy DEF Sending
<1>3. job[j].input \in Recipients /\ held(j).stage = "form"
  BY <1>1, <1>2, RecipientsAssumption DEF JobOK, Sending, held
<1>4. PICK r \in {job[j].input, None} :
        /\ IF r = None THEN Use("disturbances") ELSE UNCHANGED allowance
        /\ Writes("answer", held(j), [held(j) EXCEPT !.text = r, !.to = r], IF r = None THEN {"failed"} ELSE {})
        /\ timer' = [held(j) EXCEPT !.text = r, !.to = r]
  BY DEF OnDomainResolved, Debounces
<1> DEFINE c == [held(j) EXCEPT !.text = r, !.to = r]
           why == IF r = None THEN {"failed"} ELSE {}
<1>5. c \in Contexts /\ c.stage = "form" /\ c.message = held(j).message /\ c.building = held(j).building
  BY <1>2, <1>3 DEF Contexts
<1>6. why \in SUBSET Reasons
  BY StateFacts DEF StateInv
<1>7. Writes("answer", held(j), c, why) /\ timer' = c
  BY <1>4
<1>8. allowance' \in [events : Nat, disturbances : Nat]
  BY <1>4, AllowanceUsed, StateFacts DEF StateInv, Types
<1>9. Handled(c)
  BY <1>1, Finished
<1> HIDE DEF c, why
<1> QED BY <1>1, <1>2, <1>5, <1>6, <1>7, <1>8, <1>9, AnswerKeepsState

LEMMA PricedKeepsState ==
  ASSUME StateInv, NEW j \in Jobs, OnPriced(j)
  PROVE  StateInv'
<1>1. /\ job[j].at = "pricing" /\ Finishes(j)
      /\ UNCHANGED <<open, typed, key, inbox, building, refresh, sent, amiss>>
  BY DEF OnPriced, At
<1>2. held(j) \in Contexts /\ JobOK(j) /\ job[j] # Idle /\ open
  BY <1>1, HeldBy DEF Sending
<1>3. held(j).stage = "confirmation"
  BY <1>1, <1>2 DEF JobOK, Sending, held
<1>4. PICK p \in Prices :
        /\ IF p = held(j).price THEN UNCHANGED allowance ELSE Use("disturbances")
        /\ Writes("answer", held(j), [held(j) EXCEPT !.loading = FALSE, !.price = p], {})
  BY DEF OnPriced
<1> DEFINE c == [held(j) EXCEPT !.loading = FALSE, !.price = p]
<1>5. c \in Contexts /\ c.stage = "confirmation" /\ c.message = held(j).message /\ c.building = held(j).building
  BY <1>2, <1>3 DEF Contexts
<1>6. Writes("answer", held(j), c, {}) /\ UNCHANGED <<timer, build, built>>
  BY <1>1, <1>4 DEF building
<1>7. allowance' \in [events : Nat, disturbances : Nat]
  BY <1>4, AllowanceUsed, StateFacts DEF StateInv, Types
<1>8. Handled(c)
  BY <1>1, Finished
<1> HIDE DEF c
<1> QED BY <1>1, <1>2, <1>5, <1>6, <1>7, <1>8, AnswerKeepsState

LEMMA ApprovedKeepsState ==
  ASSUME StateInv, NEW j \in Jobs, OnApproved(j)
  PROVE  StateInv'
<1> DEFINE c == [held(j) EXCEPT !.stage = "pending"]
<1>1. /\ job[j].at = "approving" /\ job' = [job EXCEPT ![j].at = "signing", ![j].context = c]
      /\ Writes("answer", held(j), c, {})
      /\ UNCHANGED <<open, typed, key, inbox, building, refresh, sent, amiss, allowance>>
  BY DEF OnApproved, At
<1>2. held(j) \in Contexts /\ JobOK(j) /\ job[j] # Idle /\ open
  BY <1>1, HeldBy DEF Sending
<1>3. held(j).message # None
  BY <1>1, <1>2 DEF JobOK, Sending, held
<1>4. c \in Contexts /\ c.stage = "pending" /\ c.message = held(j).message /\ c.building = held(j).building
  BY <1>2 DEF Contexts, Stages
<1> HIDE DEF c
<1>5. UNCHANGED <<timer, build, built>> /\ allowance' \in [events : Nat, disturbances : Nat]
  BY <1>1, StateFacts DEF building, StateInv
<1>6. Handled(c)
  <2>1. job' \in [Jobs -> JobRecords] /\ job \in [Jobs -> JobRecords]
    BY <1>1, <1>4, JobsTyped DEF StateInv, Types, JobKinds, EventTypes
  <2>2. job'[j].at = "signing" /\ job'[j].context = c /\ \A k \in Jobs : k # j => job'[k] = job[k]
    BY <1>1, <2>1 DEF JobRecords
  <2>3. JobOK(j)'
    BY <1>3, <1>4, <2>2 DEF JobOK, Sending
  <2> QED BY <2>1, <2>2, <2>3 DEF Handled
<1> QED BY <1>1, <1>2, <1>4, <1>5, <1>6, AnswerKeepsState

LEMMA SigningKeepsState ==
  ASSUME StateInv, NEW j \in Jobs, SignAndSend(j)
  PROVE  StateInv'
<1>1. /\ job[j].at = "signing"
      /\ UNCHANGED <<screen, key, inbox, building, refresh>>
      /\ \E at \in {"sent", "not sent"} :
           job' = [job EXCEPT ![j].at = at] /\ (at = "sent" => sent' = sent \cup {held(j).message})
      /\ sent' = sent \/ sent' = sent \cup {held(j).message}
      /\ mishaps' \in {mishaps, mishaps \cup {"lost"}}
      /\ UNCHANGED allowance \/ Use("disturbances")
      /\ amiss' = (amiss \/ Shown(held(j)) # Does(held(j).message))
  BY DEF SignAndSend, At
<1>2. held(j) \in Contexts /\ JobOK(j) /\ job[j] # Idle
  BY <1>1, HeldBy
<1>3. held(j).message \in Messages
  BY <1>1, <1>2 DEF JobOK, Sending, held, Contexts
<1>4. Recorded
  <2>1. sent \subseteq sent' /\ sent' \subseteq Messages
    BY <1>1, <1>3, StateFacts DEF StateInv
  <2>2. amiss' \in BOOLEAN
    BY <1>1
  <2>3. mishaps \subseteq mishaps' /\ mishaps' \subseteq Reasons
    BY <1>1, StateFacts DEF StateInv
  <2>4. BoundTypes'
    BY <1>1, AllowanceUsed DEF StateInv, Types, BoundTypes, screen
  <2> QED BY <2>1, <2>2, <2>3, <2>4 DEF Recorded
<1>5. PICK at \in {"sent", "not sent"} :
        job' = [job EXCEPT ![j].at = at] /\ (at = "sent" => sent' = sent \cup {held(j).message})
  BY <1>1
<1>6. job' \in [Jobs -> JobRecords] /\ job \in [Jobs -> JobRecords]
  BY <1>5, JobsTyped DEF StateInv, Types, JobKinds, EventTypes
<1>7. /\ job'[j].at = at /\ job'[j].context = held(j) /\ job'[j].input = job[j].input
      /\ \A k \in Jobs : k # j => job'[k] = job[k]
  BY <1>5, <1>6 DEF JobRecords, held
<1>8. Handled(ui)
  <2>1. JobOK(j)'
    BY <1>1, <1>2, <1>5, <1>7 DEF JobOK, Sending, held
  <2> QED BY <1>6, <1>7, <2>1 DEF Handled, held
<1>9. Assembled /\ Received
  BY <1>1, Untouched DEF building
<1>10. Wrote(ui)
  <2>1. ui \in Contexts /\ ui \in Copies
    BY StateFacts DEF StateInv, Copies
  <2>2. IsContext(ui) /\ (ui.stage = "success" => sent # {})
    BY <2>1, Kept
  <2> QED BY <1>1, <1>4, <2>1, <2>2 DEF Wrote, IsContext, screen, building, Recorded
<1>11. open \/ Closed'
  <2>1. SUFFICES ASSUME ~open PROVE Closed'
    OBVIOUS
  <2>2. Closed
    BY <2>1 DEF StateInv, FlowInv, Closed
  <2>3. \A k \in Jobs : job'[k] = Idle \/ job'[k].at \in Sending
    BY <1>7, <2>2 DEF Closed, Sending
  <2> QED BY <1>1, <2>2, <2>3 DEF Closed, building
<1> QED BY <1>4, <1>8, <1>9, <1>10, <1>11, StateKept

LEMMA ReportKeepsState ==
  ASSUME StateInv, NEW j \in Jobs, Report(j)
  PROVE  StateInv'
<1> DEFINE c == [held(j) EXCEPT !.stage = IF At(j, "sent") THEN "success" ELSE "failure"]
<1>1. /\ job[j].at \in {"sent", "not sent"} /\ key' = FALSE /\ Finishes(j)
      /\ Writes("answer", held(j), c, {}) \/ (ui' = ui /\ mishaps' = mishaps)
      /\ UNCHANGED <<open, typed, inbox, building, refresh, sent, amiss, allowance>>
  BY DEF Report
<1>2. held(j) \in Contexts /\ job[j].at # "idle" /\ (At(j, "sent") => sent # {})
  BY <1>1, HeldBy DEF JobOK, At, Sending
<1>3. /\ c \in Contexts /\ c.message = held(j).message /\ c.building = held(j).building
      /\ c.stage = "success" => sent # {}
  BY <1>2 DEF Contexts, Stages, At
<1> HIDE DEF c
<1>4. UNCHANGED <<timer, build, built>> /\ allowance' \in [events : Nat, disturbances : Nat]
  BY <1>1, StateFacts DEF building, StateInv
<1>5. Handled(c) /\ job'[j] = Idle /\ \A k \in Jobs : k # j => job'[k] = job[k]
  BY <1>1, Finished
<1>6. open \/ Closed'
  <2>1. SUFFICES ASSUME ~open PROVE Closed'
    OBVIOUS
  <2>2. Closed
    BY <2>1 DEF StateInv, FlowInv, Closed
  <2>3. \A k \in Jobs : job'[k] = Idle \/ job'[k].at \in Sending
    BY <1>5, <2>2 DEF Closed
  <2> QED BY <1>1, <1>4, <2>2, <2>3 DEF Closed
<1>7. /\ Writes("answer", held(j), c, {}) \/ (ui' = ui /\ mishaps' = mishaps)
      /\ key' = key \/ key' = FALSE
      /\ {} \in SUBSET Reasons
      /\ UNCHANGED <<open, typed, inbox, build, built, refresh, sent, amiss>>
  BY <1>1, <1>4
<1> QED BY <1>2, <1>3, <1>4, <1>5, <1>6, <1>7, AnswerKeepsState

------------------------------------------------------------------------------
(* The builds and the refresh.                                             *)

\* A build has the next number, which no other has.
LEMMA BuildStartKeepsState ==
  ASSUME StateInv, NEW b \in Builds, BuildStarts(b)
  PROVE  StateInv'
<1>1. /\ timer # None /\ build[b] = NoBuild /\ timer' = None
      /\ UNCHANGED <<open, typed, key, events, refresh, sent, amiss, allowance>>
  BY DEF BuildStarts
<1>2. /\ timer \in Contexts /\ open /\ IsContext(timer) /\ (timer.stage = "success" => sent # {})
      /\ build \in [Builds -> BuildRecords] /\ built \in Nat
  <2>1. timer \in Contexts /\ build \in [Builds -> BuildRecords] /\ built \in Nat
    BY <1>1 DEF StateInv, Types, BuildingTypes
  <2>2. open
    BY <1>1 DEF StateInv, FlowInv
  <2>3. timer \in Copies
    BY DEF Copies
  <2> QED BY <2>1, <2>2, <2>3, Kept
<1>3. Received /\ \A c : Handled(c)
  BY <1>1, Untouched DEF events
<1>4. CASE UNCHANGED <<ui, mishaps, build, built>>
  <2>1. Assembled /\ Recorded
    BY <1>1, <1>4, Untouched, StateFacts DEF StateInv, Fit
  <2>2. Wrote(timer)
    BY <1>1, <1>2, <1>4 DEF Wrote, IsContext
  <2> QED BY <1>2, <1>3, <2>1, <2>2, StateKept
<1> DEFINE c == [timer EXCEPT !.building = TRUE, !.message = None]
           m == [to |-> timer.to, tokens |-> Tokens(timer), number |-> built']
           n == [at |-> "building", context |-> None, number |-> built', message |-> m]
<1>5. CASE /\ Valid(timer) /\ Writes("build", timer, c, {}) /\ built' = built + 1
           /\ build' = [build EXCEPT ![b] = n]
  <2>1. c \in Contexts /\ c.message = None /\ c.stage = timer.stage
    BY <1>2 DEF Contexts
  <2>2. m \in Messages /\ m.number = built' /\ m # None
    <3>1. Tokens(timer) \in Nat /\ timer.to \in Recipients
      BY <1>2, <1>5, Summed DEF Valid, Contexts
    <3> QED BY <1>2, <1>5, <3>1, NoneAssumption DEF Messages
  <2> HIDE DEF c, m
  <2>3. n \in BuildRecords /\ n.context = None /\ n.number = built' /\ n.message = m /\ n.at = "building"
    BY <1>2, <1>5, <2>2 DEF BuildRecords, BuildKinds
  <2> HIDE DEF n
  <2>4. build'[b] = n /\ build' \in [Builds -> BuildRecords] /\ \A d \in Builds : d # b => build'[d] = build[d]
    BY <1>2, <1>5, <2>3
  <2>5. BuildOK(b)'
    BY <1>2, <1>5, <2>2, <2>3, <2>4 DEF BuildOK
  <2>6. Assembled
    <3>1. \A d \in Builds : d # b => build'[d].number # built'
      <4> SUFFICES ASSUME NEW d \in Builds, d # b PROVE build'[d].number # built'
        OBVIOUS
      <4>1. build'[d] = build[d]
        BY <2>4
      <4>2. build[d].number \in 0..built
        BY <1>2 DEF StateInv, FlowInv, BuildOK, NoBuild
      <4> QED BY <1>2, <1>5, <4>1, <4>2
    <3> QED BY <1>5, <2>3, <2>4, <2>5, <3>1 DEF Assembled
  <2>7. ui' = c /\ mishaps \subseteq mishaps' /\ mishaps' \subseteq Reasons
    BY <1>5, <2>1, Written, ScreenTyped, StateFacts DEF StateInv
  <2>8. Recorded
    BY <1>1, <2>7, Untouched, StateFacts DEF StateInv, Fit
  <2>9. Wrote(c)
    BY <1>1, <1>2, <2>1, <2>7 DEF Wrote
  <2> QED BY <1>2, <1>3, <2>6, <2>8, <2>9, StateKept
<1> QED BY <1>4, <1>5 DEF BuildStarts

\* What a build is that has begun.
LEMMA BuildsAre ==
  ASSUME StateInv, NEW b \in Builds, build[b].at # "idle"
  PROVE  /\ build \in [Builds -> BuildRecords] /\ build[b] # NoBuild /\ BuildOK(b) /\ open /\ built \in Nat
         /\ ui \in Contexts /\ ui \in Copies /\ IsContext(ui) /\ (ui.stage = "success" => sent # {})
<1>1. build \in [Builds -> BuildRecords] /\ built \in Nat /\ build[b] # NoBuild
  BY DEF StateInv, Types, BuildingTypes, NoBuild
<1>2. BuildOK(b) /\ open
  BY <1>1 DEF StateInv, FlowInv
<1>3. ui \in Contexts /\ ui \in Copies
  BY StateFacts DEF StateInv, Copies
<1> QED BY <1>1, <1>2, <1>3, Kept

LEMMA BuildEndKeepsState ==
  ASSUME StateInv, NEW b \in Builds, BuildEnds(b)
  PROVE  StateInv'
<1>1. /\ build[b].at = "building"
      /\ UNCHANGED <<screen, key, events, timer, built, refresh, sent, amiss>>
  BY DEF BuildEnds
<1>2. /\ build \in [Builds -> BuildRecords] /\ build[b] # NoBuild /\ BuildOK(b) /\ open
      /\ ui \in Contexts /\ IsContext(ui) /\ (ui.stage = "success" => sent # {}) /\ built \in Nat
  BY <1>1, BuildsAre
<1>3. \/ /\ build' = [build EXCEPT ![b] = [@ EXCEPT !.at = "merging", !.context = ui]]
         /\ UNCHANGED <<mishaps, allowance>>
      \/ /\ build' = [build EXCEPT ![b] = [@ EXCEPT !.at = "merging", !.context = ui, !.message = None]]
         /\ mishaps' = mishaps \cup {"failed"} /\ Use("disturbances")
  BY <1>2 DEF BuildEnds
<1>4. /\ build'[b].at = "merging" /\ build'[b].context = ui /\ build'[b].number = build[b].number
      /\ build' \in [Builds -> BuildRecords] /\ \A d \in Builds : d # b => build'[d] = build[d]
      /\ \/ build'[b].message = build[b].message /\ UNCHANGED <<mishaps, allowance>>
         \/ build'[b].message = None /\ mishaps' = mishaps \cup {"failed"} /\ Use("disturbances")
  <2>1. /\ [build[b] EXCEPT !.at = "merging", !.context = ui] \in BuildRecords
        /\ [build[b] EXCEPT !.at = "merging", !.context = ui, !.message = None] \in BuildRecords
    BY <1>2 DEF BuildRecords, BuildKinds
  <2>2. CASE /\ build' = [build EXCEPT ![b] = [@ EXCEPT !.at = "merging", !.context = ui]]
             /\ UNCHANGED <<mishaps, allowance>>
    BY <1>2, <2>1, <2>2 DEF BuildRecords
  <2>3. CASE /\ build' = [build EXCEPT ![b] = [@ EXCEPT !.at = "merging", !.context = ui, !.message = None]]
             /\ mishaps' = mishaps \cup {"failed"} /\ Use("disturbances")
    BY <1>2, <2>1, <2>3 DEF BuildRecords
  <2> QED BY <1>3, <2>2, <2>3
<1>5. BuildOK(b)'
  BY <1>1, <1>2, <1>4 DEF BuildOK
<1>6. Assembled
  <2>1. \A d \in Builds : build'[d].number \in 0..built
    <3>1. \A d \in Builds : build[d].number \in 0..built
      BY <1>2 DEF StateInv, FlowInv, BuildOK, NoBuild
    <3> QED BY <1>4, <3>1
  <2> QED BY <1>1, <1>2, <1>4, <1>5, <2>1 DEF Assembled
<1>7. Recorded
  BY <1>1, <1>4, Untouched, StateFacts, AllowanceUsed DEF StateInv, Types, screen, Fit
<1>8. Received /\ \A c : Handled(c)
  BY <1>1, Untouched DEF events
<1>9. Wrote(ui)
  BY <1>1, <1>2 DEF Wrote, IsContext, screen
<1> QED BY <1>2, <1>6, <1>7, <1>8, <1>9, StateKept

LEMMA MergeKeepsState ==
  ASSUME StateInv, NEW b \in Builds, BuildMerges(b)
  PROVE  StateInv'
<1> DEFINE c == [build[b].context EXCEPT !.message = build[b].message, !.building = FALSE]
           why == IF build[b].number < built THEN {"disorder"} ELSE {}
<1>1. /\ build[b].at = "merging" /\ Writes("merge", build[b].context, c, why)
      /\ build' = [build EXCEPT ![b] = NoBuild]
      /\ UNCHANGED <<open, typed, key, events, timer, built, refresh, sent, amiss, allowance>>
  BY DEF BuildMerges
<1>2. /\ build \in [Builds -> BuildRecords] /\ build[b] # NoBuild /\ BuildOK(b) /\ open /\ built \in Nat
  BY <1>1, BuildsAre
<1>3. build[b].context \in Contexts /\ build[b].context \in Copies
  BY <1>1, <1>2 DEF BuildOK, Copies
<1>4. /\ IsContext(build[b].context) /\ (build[b].context.stage = "success" => sent # {})
      /\ build[b].message # None => build[b].message.number <= built
      /\ build[b].message \in Messages \cup {None}
  BY <1>2, <1>3, Kept DEF BuildOK, BuildRecords
<1>5. /\ c \in Contexts /\ c.message = build[b].message /\ ~c.building /\ c.stage = build[b].context.stage
  BY <1>3, <1>4 DEF Contexts
<1>6. why \in SUBSET Reasons
  BY StateFacts DEF StateInv
<1> HIDE DEF c, why
<1>7. ui' = c /\ mishaps \subseteq mishaps' /\ mishaps' \subseteq Reasons
  BY <1>1, <1>5, <1>6, Written, ScreenTyped, StateFacts DEF StateInv
<1>8. Assembled
  <2>1. NoBuild \in BuildRecords
    BY DEF NoBuild, BuildRecords, BuildKinds
  <2>2. build' \in [Builds -> BuildRecords] /\ \A d \in Builds : build'[d] \in {build[d], NoBuild}
    BY <1>1, <1>2, <2>1
  <2> QED BY <1>1, <1>2, <2>2 DEF Assembled
<1>9. Recorded /\ Received /\ \A d : Handled(d)
  BY <1>1, <1>7, Untouched, StateFacts DEF StateInv, Fit, events
<1>10. Wrote(c)
  BY <1>1, <1>4, <1>5, <1>7 DEF Wrote
<1> QED BY <1>2, <1>8, <1>9, <1>10, StateKept

LEMMA RefreshKeepsState ==
  ASSUME StateInv, RefreshReads \/ RefreshWrites
  PROVE  StateInv'
<1>1. CASE RefreshReads
  <2>1. /\ key /\ refresh' = ui /\ Use("disturbances")
        /\ UNCHANGED <<screen, key, events, building, sent, amiss, mishaps>>
    BY <1>1 DEF RefreshReads
  <2>2. open /\ ui \in Contexts /\ ui \in Copies
    BY <2>1, StateFacts DEF StateInv, Types, ScreenTypes, Copies
  <2>3. Received /\ Assembled /\ \A d : Handled(d)
    BY <2>1, Untouched DEF events, building
  <2>4. Recorded
    BY <2>1, Untouched, StateFacts, AllowanceUsed DEF StateInv, Types, Fit, screen
  <2>5. Wrote(ui)
    BY <2>1, <2>2, Kept DEF Wrote, IsContext, screen, building
  <2> QED BY <2>2, <2>3, <2>4, <2>5, StateKept
<1>2. CASE RefreshWrites
  <2>1. /\ refresh # None /\ refresh' = None
        /\ UNCHANGED <<open, typed, key, events, building, sent, amiss, allowance>>
    BY <1>2 DEF RefreshWrites
  <2>2. PICK p \in Prices : Writes("refresh", refresh, [refresh EXCEPT !.price = p], {})
    BY <1>2 DEF RefreshWrites
  <2> DEFINE c == [refresh EXCEPT !.price = p]
  <2>3. refresh \in Contexts /\ refresh \in Copies /\ open
    BY <2>1 DEF StateInv, Types, BuildingTypes, Copies, FlowInv
  <2>4. IsContext(refresh) /\ (refresh.stage = "success" => sent # {})
    BY <2>3, Kept
  <2>5. c \in Contexts /\ c.message = refresh.message /\ c.building = refresh.building /\ c.stage = refresh.stage
    BY <2>3 DEF Contexts
  <2>6. Writes("refresh", refresh, c, {})
    BY <2>2
  <2> HIDE DEF c
  <2>7. ui' = c /\ mishaps \subseteq mishaps' /\ mishaps' \subseteq Reasons
    BY <2>5, <2>6, Written, ScreenTyped, StateFacts DEF StateInv
  <2>8. Received /\ Assembled /\ \A d : Handled(d)
    BY <2>1, Untouched DEF events, building
  <2>9. Recorded
    BY <2>1, <2>7, Untouched, StateFacts DEF StateInv, Types, Fit
  <2>10. Wrote(c)
    BY <2>1, <2>3, <2>4, <2>5, <2>7, Reshaped DEF Wrote, building
  <2> QED BY <2>3, <2>8, <2>9, <2>10, StateKept
<1> QED BY <1>1, <1>2

\* Nothing happens.
LEMMA StillKeepsState == StateInv /\ UNCHANGED sendVars => StateInv'
  BY DEF StateInv, Types, ScreenTypes, EventTypes, BuildingTypes, HistoryTypes, BoundTypes, Events, JobRecords,
         BuildRecords, CopiesInv, Copies, Waiting, IsContext, FlowInv, EventOK, JobOK, BuildOK,
         sendVars, screen, building, events

\* Every step keeps the state.
LEMMA StateStep == StateInv /\ [SendNext]_sendVars => StateInv'
<1> SUFFICES ASSUME StateInv, [SendNext]_sendVars PROVE StateInv'
  OBVIOUS
<1>1. CASE Clicks
  BY <1>1, ClicksKeepState
<1>2. CASE TakesUp
  BY <1>2, RecipientKeepsState, AmountKeepsState, SwapKeepsState, SendKeepsState, BackKeepsState,
     CancelKeepsState, ConfirmKeepsState DEF TakesUp
<1>3. ASSUME NEW j \in Jobs, Handles(j) PROVE StateInv'
  BY <1>3, ResolvedKeepsState, PricedKeepsState, ApprovedKeepsState, SigningKeepsState, ReportKeepsState
     DEF Handles
<1>4. ASSUME NEW b \in Builds, BuildsOn(b) PROVE StateInv'
  BY <1>4, BuildStartKeepsState, BuildEndKeepsState, MergeKeepsState DEF BuildsOn
<1>5. CASE RefreshReads \/ RefreshWrites
  BY <1>5, RefreshKeepsState
<1>6. CASE UNCHANGED sendVars
  BY <1>6, StillKeepsState
<1> QED BY <1>1, <1>2, <1>3, <1>4, <1>5, <1>6 DEF SendNext, Clicks

\* The form is shown.
LEMMA StateInitially == SendInit => StateInv
<1> SUFFICES ASSUME SendInit PROVE StateInv
  OBVIOUS
<1>1. /\ open = TRUE /\ key = TRUE /\ inbox = <<>> /\ job = [j \in Jobs |-> Idle] /\ timer = None
      /\ build = [b \in Builds |-> NoBuild] /\ refresh = None /\ sent = {} /\ built = 0 /\ amiss = FALSE
      /\ mishaps = {} /\ allowance = [events |-> MaxEvents, disturbances |-> MaxDisturbances]
  BY DEF SendInit
<1>2. PICK r \in (Recipients \ Domains) \cup {None}, a \in Amounts :
        LET form == [text |-> r, to |-> r, amount |-> IF r = None THEN 0 ELSE a, fiat |-> FALSE,
                     price |-> FirstPrice, message |-> None, building |-> FALSE, loading |-> FALSE,
                     stage |-> "form"]
        IN /\ ui = IF r = None THEN form
                   ELSE [form EXCEPT !.message = [to |-> r, tokens |-> Tokens(form), number |-> 0]]
           /\ typed = [text |-> r, amount |-> form.amount]
  BY DEF SendInit
<1> DEFINE form == [text |-> r, to |-> r, amount |-> IF r = None THEN 0 ELSE a, fiat |-> FALSE,
                    price |-> FirstPrice, message |-> None, building |-> FALSE, loading |-> FALSE,
                    stage |-> "form"]
           m == [to |-> r, tokens |-> Tokens(form), number |-> 0]
<1>3. form \in Contexts /\ form.message = None /\ ~form.building /\ form.stage = "form" /\ form.to = r
      /\ form.amount \in Nat
  BY AmountsAssumption DEF Contexts, Stages
<1> HIDE DEF form
<1>4. r # None => m \in Messages /\ m.number = 0
  BY <1>3, Summed
<1> HIDE DEF m
<1>5. ui = (IF r = None THEN form ELSE [form EXCEPT !.message = m]) /\ typed = [text |-> r, amount |-> form.amount]
  BY <1>2 DEF form, m
<1>6. /\ ui \in Contexts /\ ui.stage = "form" /\ ~ui.building
      /\ ui.message = None \/ ui.message.number = 0
  BY <1>3, <1>4, <1>5 DEF Contexts
<1>7. Types
  <2>1. ScreenTypes
    BY <1>1, <1>6 DEF ScreenTypes
  <2>2. EventTypes
    <3>1. Idle \in JobRecords
      BY DEF Idle, JobRecords, JobKinds, Inputs
    <3> QED BY <1>1, <3>1 DEF EventTypes
  <2>3. BuildingTypes
    <3>1. NoBuild \in BuildRecords
      BY DEF NoBuild, BuildRecords, BuildKinds
    <3> QED BY <1>1, <3>1 DEF BuildingTypes
  <2>4. HistoryTypes
    BY <1>1 DEF HistoryTypes
  <2>5. BoundTypes
    BY <1>1, <1>3, <1>5, SendBoundsAssumption DEF BoundTypes
  <2> QED BY <2>1, <2>2, <2>3, <2>4, <2>5 DEF Types
<1>8. Waiting = {}
  BY <1>1 DEF Waiting
<1>9. CopiesInv
  <2>1. Copies \subseteq {ui, None}
    BY <1>1, <1>8 DEF Copies, Idle, NoBuild
  <2> QED BY <1>1, <1>6, <2>1 DEF CopiesInv, IsContext
<1>10. FlowInv
  BY <1>1, <1>8 DEF FlowInv, JobOK, BuildOK, Idle
<1> QED BY <1>7, <1>9, <1>10 DEF StateInv

\* What the events, jobs and builds hold is always what their kinds say, and every variable
\* keeps its type: all contexts, those of the screen, of the events and of what runs.
THEOREM SendTypeCorrect == SendSpec => []SendTypeOK
<1>1. StateInv => SendTypeOK
  <2> SUFFICES ASSUME StateInv PROVE SendTypeOK
    OBVIOUS
  <2>1. IsContext(ui)
    BY Kept, StateFacts DEF StateInv, Copies
  <2>2. {open, key, amiss} \subseteq BOOLEAN /\ (key => open)
    BY DEF StateInv, Types, ScreenTypes, HistoryTypes
  <2>3. /\ inbox \in Seq([at : EventKinds, context : Contexts, input : Inputs])
        /\ job \in [Jobs -> [at : JobKinds, context : Contexts \cup {None}, input : Inputs]]
    BY DEF StateInv, Types, EventTypes, Events, JobRecords
  <2>4. /\ {timer, refresh} \subseteq Contexts \cup {None} /\ built \in Nat
        /\ build \in [Builds -> [at : BuildKinds, context : Contexts \cup {None},
                                 message : Messages \cup {None}, number : Nat]]
    BY DEF StateInv, Types, BuildingTypes, BuildRecords
  <2>5. /\ sent \subseteq Messages /\ mishaps \subseteq Reasons
        /\ typed \in [text : Recipients \cup {None}, amount : Nat]
        /\ allowance \in [events : Nat, disturbances : Nat]
    BY StateFacts DEF StateInv
  <2> QED BY <2>1, <2>2, <2>3, <2>4, <2>5 DEF SendTypeOK
<1> QED BY <1>1, StateInitially, StateStep, PTL DEF SendSpec

------------------------------------------------------------------------------
(* What happened is not forgotten; and as long as nothing of a kind has,   *)
(* all writes are made from the context that they replace.                 *)

Without(reasons) == mishaps \cap reasons = {}

\* What happened stays on record.
LEMMA MishapsGrow ==
  ASSUME [SendNext]_sendVars
  PROVE  mishaps \subseteq mishaps'
<1>1. CASE Clicks
  BY <1>1 DEF Clicks, TypeRecipient, TypeAmount, ClickSwap, ClickSend, ClickBack, ClickConfirm, ClickCancel
<1>2. CASE TakesUp
  BY <1>2, Written DEF TakesUp, OnDestinationChange, OnAmountChange, OnSwapCurrency, OnSend, OnBack, OnCancel,
     OnConfirm
<1>3. ASSUME NEW j \in Jobs, Handles(j) PROVE mishaps \subseteq mishaps'
  BY <1>3, Written DEF Handles, OnDomainResolved, OnPriced, OnApproved, SignAndSend, Report
<1>4. ASSUME NEW b \in Builds, BuildsOn(b) PROVE mishaps \subseteq mishaps'
  BY <1>4, Written DEF BuildsOn, BuildStarts, BuildEnds, BuildMerges
<1>5. CASE RefreshReads \/ RefreshWrites
  BY <1>5, Written DEF RefreshReads, RefreshWrites
<1>6. CASE UNCHANGED sendVars
  BY <1>6 DEF sendVars
<1> QED BY <1>1, <1>2, <1>3, <1>4, <1>5, <1>6 DEF SendNext, Clicks

------------------------------------------------------------------------------
(* What the actions say, field by field, once the state is known.          *)

SameText(c, d) == c.text = d.text /\ c.to = d.to
SameSum(c, d) == c.amount = d.amount /\ c.fiat = d.fiat /\ c.price = d.price
SameMessage(c, d) == c.message = d.message /\ c.building = d.building

\* A job begins in place of an idle one.
LEMMA Beginning ==
  ASSUME StateInv, NEW at, NEW c, NEW i, Starts(at, c, i)
  PROVE  \E k \in Jobs : /\ job[k] = Idle /\ job'[k] = [at |-> at, context |-> c, input |-> i]
                         /\ \A j \in Jobs : j # k => job'[j] = job[j]
  BY DEF StateInv, Types, EventTypes, Starts

\* A context is written over the one it was made from, or that is on record.
LEMMA WritesInPlace ==
  ASSUME StateInv, NEW who, NEW old, NEW c \in Contexts, NEW why, Writes(who, old, c, why)
  PROVE  /\ ui' = c /\ ui' \in Contexts /\ ui \in Contexts
         /\ ui = old \/ who \in mishaps'
         /\ why \subseteq mishaps'
         /\ ui'.fiat /\ ui'.price # ui.price => "repriced" \in mishaps'
  BY Written, StateFacts DEF StateInv

\* One lemma for each action, with what the proofs below need of it.
LEMMA RecipientSays ==
  ASSUME StateInv, OnDestinationChange
  PROVE  /\ Takes("recipient") /\ base \in Contexts /\ ui' \in Contexts /\ base.stage = "form"
         /\ ui = base \/ "event" \in mishaps'
         /\ ui'.text = input /\ ui'.stage = "form" /\ SameSum(ui', base) /\ SameMessage(ui', base)
         /\ \/ ui'.to = base.to /\ timer' = timer /\ Starts("resolving", ui', input)
            \/ ui'.to = input /\ job' = job /\ (timer' = ui' \/ (input = None /\ timer' = timer))
         /\ UNCHANGED <<open, typed, build, built, sent, amiss>>
<1>1. Takes("recipient") /\ UNCHANGED <<open, typed, build, built, sent, amiss>>
  BY DEF OnDestinationChange
<1>2. EventOK(Head(inbox)) /\ Head(inbox).at = "recipient" /\ base \in Contexts
  BY <1>1, TakenUp
<1>3. base.stage = "form" /\ input \in Recipients \cup {None}
  BY <1>2 DEF EventOK, FormEvents, base, input
<1> DEFINE c1 == [base EXCEPT !.text = input]
           c2 == [base EXCEPT !.text = input, !.to = input]
<1>4. /\ c1 \in Contexts /\ c1.text = input /\ c1.to = base.to /\ c1.stage = "form"
      /\ SameSum(c1, base) /\ SameMessage(c1, base)
      /\ c2 \in Contexts /\ c2.text = input /\ c2.to = input /\ c2.stage = "form"
      /\ SameSum(c2, base) /\ SameMessage(c2, base)
  BY <1>2, <1>3 DEF Contexts, SameSum, SameMessage
<1>5. \/ Writes("event", base, c1, {}) /\ Starts("resolving", c1, input) /\ timer' = timer
      \/ /\ Writes("event", base, c2, {}) /\ job' = job
         /\ timer' = c2 \/ (input = None /\ timer' = timer)
  BY DEF OnDestinationChange, Debounces
<1> HIDE DEF c1, c2
<1>6. CASE Writes("event", base, c1, {}) /\ Starts("resolving", c1, input) /\ timer' = timer
  <2>1. ui' = c1 /\ (ui = base \/ "event" \in mishaps')
    BY <1>4, <1>6, WritesInPlace
  <2> QED BY <1>1, <1>2, <1>3, <1>4, <1>6, <2>1
<1>7. CASE /\ Writes("event", base, c2, {}) /\ job' = job
           /\ timer' = c2 \/ (input = None /\ timer' = timer)
  <2>1. ui' = c2 /\ (ui = base \/ "event" \in mishaps')
    BY <1>4, <1>7, WritesInPlace
  <2> QED BY <1>1, <1>2, <1>3, <1>4, <1>7, <2>1
<1> QED BY <1>5, <1>6, <1>7

LEMMA AmountSays ==
  ASSUME StateInv, OnAmountChange
  PROVE  /\ Takes("amount") /\ base \in Contexts /\ ui' \in Contexts /\ base.stage = "form"
         /\ ui = base \/ "event" \in mishaps'
         /\ \/ /\ ui'.amount = input /\ ui'.fiat = base.fiat /\ ui'.stage = "form"
               /\ SameText(ui', base) /\ SameMessage(ui', base)
               /\ timer' = ui' \/ (input = 0 /\ timer' = timer)
            \/ ui' = ui /\ input = 0 /\ base.amount = 0 /\ timer' = timer
         /\ UNCHANGED <<open, typed, job, build, built, sent, amiss>>
<1>1. Takes("amount") /\ UNCHANGED <<open, typed, job, build, built, sent, amiss>>
  BY DEF OnAmountChange
<1>2. EventOK(Head(inbox)) /\ Head(inbox).at = "amount" /\ base \in Contexts /\ ui \in Contexts
  BY <1>1, TakenUp, StateFacts DEF StateInv
<1>3. base.stage = "form" /\ input \in Nat
  BY <1>2 DEF EventOK, FormEvents, base, input
<1> DEFINE c == [base EXCEPT !.amount = input]
<1>4. /\ c \in Contexts /\ c.amount = input /\ c.fiat = base.fiat /\ c.stage = "form"
      /\ SameText(c, base) /\ SameMessage(c, base)
  BY <1>2, <1>3 DEF Contexts, SameText, SameMessage
<1>5. \/ Writes("event", base, c, {}) /\ (timer' = c \/ (input = 0 /\ timer' = timer))
      \/ /\ ui' = ui /\ input = 0 /\ base.amount = 0 /\ timer' = timer
         /\ ui = base \/ "event" \in mishaps'
  BY DEF OnAmountChange, Debounces
<1> HIDE DEF c
<1>6. CASE Writes("event", base, c, {}) /\ (timer' = c \/ (input = 0 /\ timer' = timer))
  <2>1. ui' = c /\ (ui = base \/ "event" \in mishaps')
    BY <1>4, <1>6, WritesInPlace
  <2> QED BY <1>1, <1>2, <1>3, <1>4, <1>6, <2>1
<1>7. CASE /\ ui' = ui /\ input = 0 /\ base.amount = 0 /\ timer' = timer
           /\ ui = base \/ "event" \in mishaps'
  BY <1>1, <1>2, <1>3, <1>7
<1> QED BY <1>5, <1>6, <1>7

LEMMA SwapSays ==
  ASSUME StateInv, OnSwapCurrency
  PROVE  /\ Takes("swap") /\ base \in Contexts /\ ui' \in Contexts /\ base.stage = "form"
         /\ ui = base \/ "event" \in mishaps'
         /\ ui'.fiat = ~base.fiat /\ ui'.stage = "form" /\ SameText(ui', base) /\ SameMessage(ui', base)
         /\ Shown(ui') = Shown(base) /\ (Valid(ui') => Valid(base))
         /\ typed'.text = typed.text /\ typed'.amount = ui'.amount
         /\ UNCHANGED <<open, job, timer, build, built, sent, amiss>>
<1>1. /\ Takes("swap") /\ UNCHANGED <<open, job, timer, build, built, sent, amiss>>
  BY DEF OnSwapCurrency, building
<1>2. EventOK(Head(inbox)) /\ Head(inbox).at = "swap" /\ base \in Contexts
  BY <1>1, TakenUp
<1>3. base.stage = "form"
  BY <1>2 DEF EventOK, FormEvents, base
<1> DEFINE n == IF base.fiat THEN base.amount \div base.price ELSE base.amount * base.price
           c == [base EXCEPT !.fiat = ~@, !.amount = n]
<1>4. n \in Nat
  BY <1>2, Summed
<1>5. Writes("event", base, c, {}) /\ typed' = [typed EXCEPT !.amount = c.amount]
  BY DEF OnSwapCurrency
<1>6. base.amount \in Nat /\ base.price \in Nat \ {0} /\ base.fiat \in BOOLEAN
  BY <1>2, AmountsAssumption DEF Contexts
<1>7. /\ base.amount \div base.price \in Nat /\ (base.amount * base.price) \div base.price = base.amount
      /\ base.amount * base.price \in Nat
      /\ base.amount = 0 => base.amount * base.price = 0 /\ base.amount \div base.price = 0
  <2>1. base.amount = 0 => base.amount * base.price = 0 /\ base.amount \div base.price = 0
    BY <1>6
  <2> QED BY <1>6, <2>1, Divides
<1> HIDE DEF n
<1>8. /\ c \in Contexts /\ c.stage = "form" /\ SameText(c, base) /\ SameMessage(c, base)
      /\ c.amount = n /\ c.fiat = ~base.fiat /\ c.price = base.price /\ c.to = base.to
  BY <1>2, <1>3, <1>4 DEF Contexts, SameText, SameMessage
<1> HIDE DEF c
<1>9. Tokens(c) = Tokens(base)
  <2>1. CASE base.fiat
    BY <1>8, <2>1 DEF Tokens, n
  <2>2. CASE ~base.fiat
    BY <1>7, <1>8, <2>2 DEF Tokens, n
  <2> QED BY <2>1, <2>2
<1>10. Shown(c) = Shown(base) /\ (Valid(c) => Valid(base))
  <2>1. base.amount = 0 => n = 0
    BY <1>7 DEF n
  <2> QED BY <1>8, <1>9, <2>1 DEF Shown, Valid
<1>11. ui' = c /\ (ui = base \/ "event" \in mishaps')
  BY <1>5, <1>8, WritesInPlace
<1>12. typed'.text = typed.text /\ typed'.amount = c.amount
  BY <1>5, StateFacts DEF StateInv
<1> QED BY <1>1, <1>2, <1>3, <1>8, <1>10, <1>11, <1>12

LEMMA SendSays ==
  ASSUME StateInv, OnSend
  PROVE  /\ Takes("send") /\ base \in Contexts /\ base.stage = "form" /\ base.message # None
         /\ \/ ~Valid(base) /\ UNCHANGED <<ui, job>>
            \/ /\ Valid(base) /\ (ui = base \/ "event" \in mishaps')
               /\ ui' \in Contexts /\ ui'.stage = "confirmation"
               /\ SameText(ui', base) /\ SameSum(ui', base) /\ SameMessage(ui', base)
               /\ Starts("pricing", ui', None)
         /\ UNCHANGED <<open, typed, timer, build, built, sent, amiss>>
<1>1. Takes("send") /\ UNCHANGED <<open, typed, timer, build, built, sent, amiss>>
  BY DEF OnSend, building
<1>2. EventOK(Head(inbox)) /\ Head(inbox).at = "send" /\ base \in Contexts
  BY <1>1, TakenUp
<1>3. base.stage = "form" /\ base.message # None
  BY <1>2 DEF EventOK, FormEvents, base
<1> DEFINE c == [base EXCEPT !.stage = "confirmation", !.loading = TRUE]
<1>4. /\ c \in Contexts /\ c.stage = "confirmation"
      /\ SameText(c, base) /\ SameSum(c, base) /\ SameMessage(c, base)
  BY <1>2 DEF Contexts, Stages, SameText, SameSum, SameMessage
<1>5. \/ ~Valid(base) /\ UNCHANGED <<ui, job>>
      \/ Valid(base) /\ Writes("event", base, c, {}) /\ Starts("pricing", c, None)
  BY DEF OnSend
<1> HIDE DEF c
<1>6. CASE Valid(base) /\ Writes("event", base, c, {}) /\ Starts("pricing", c, None)
  <2>1. ui' = c /\ (ui = base \/ "event" \in mishaps')
    BY <1>4, <1>6, WritesInPlace
  <2> QED BY <1>1, <1>2, <1>3, <1>4, <1>6, <2>1
<1> QED BY <1>1, <1>2, <1>3, <1>5, <1>6

LEMMA BackSays ==
  ASSUME StateInv, OnBack
  PROVE  /\ Takes("back") /\ base \in Contexts /\ base.stage = "confirmation"
         /\ ui = base \/ "event" \in mishaps'
         /\ ui' \in Contexts /\ ui'.stage = "form"
         /\ SameText(ui', base) /\ SameSum(ui', base) /\ SameMessage(ui', base)
         /\ typed' = [text |-> base.text, amount |-> base.amount]
         /\ UNCHANGED <<open, job, timer, build, built, sent, amiss>>
<1>1. /\ Takes("back") /\ UNCHANGED <<open, job, timer, build, built, sent, amiss>>
      /\ typed' = [text |-> base.text, amount |-> base.amount]
  BY DEF OnBack, building
<1>2. EventOK(Head(inbox)) /\ Head(inbox).at = "back" /\ base \in Contexts
  BY <1>1, TakenUp
<1>3. base.stage = "confirmation"
  BY <1>2 DEF EventOK, ConfirmationEvents, base
<1> DEFINE c == [base EXCEPT !.stage = "form"]
<1>4. c \in Contexts /\ c.stage = "form" /\ SameText(c, base) /\ SameSum(c, base) /\ SameMessage(c, base)
  BY <1>2 DEF Contexts, Stages, SameText, SameSum, SameMessage
<1>5. Writes("event", base, c, {})
  BY DEF OnBack
<1> HIDE DEF c
<1>6. ui' = c /\ (ui = base \/ "event" \in mishaps')
  BY <1>4, <1>5, WritesInPlace
<1> QED BY <1>1, <1>2, <1>3, <1>4, <1>6

LEMMA ConfirmSays ==
  ASSUME StateInv, OnConfirm
  PROVE  /\ Takes("confirm") /\ base \in Contexts /\ base.stage = "confirmation"
         /\ \/ /\ base.message = None /\ (ui = base \/ "event" \in mishaps')
               /\ ui' \in Contexts /\ ui'.stage = "form" /\ job' = job
               /\ SameText(ui', base) /\ SameSum(ui', base) /\ SameMessage(ui', base)
            \/ base.message # None /\ Starts("approving", base, None) /\ ui' = ui
         /\ UNCHANGED <<open, typed, timer, build, built, sent, amiss>>
<1>1. Takes("confirm") /\ UNCHANGED <<open, typed, timer, build, built, sent, amiss>>
  BY DEF OnConfirm, building
<1>2. EventOK(Head(inbox)) /\ Head(inbox).at = "confirm" /\ base \in Contexts
  BY <1>1, TakenUp
<1>3. base.stage = "confirmation"
  BY <1>2 DEF EventOK, ConfirmationEvents, base
<1> DEFINE c == [base EXCEPT !.stage = "form"]
<1>4. c \in Contexts /\ c.stage = "form" /\ SameText(c, base) /\ SameSum(c, base) /\ SameMessage(c, base)
  BY <1>2 DEF Contexts, Stages, SameText, SameSum, SameMessage
<1>5. \/ base.message = None /\ Writes("event", base, c, {}) /\ job' = job
      \/ base.message # None /\ Starts("approving", base, None) /\ ui' = ui
  BY DEF OnConfirm
<1> HIDE DEF c
<1>6. CASE base.message = None /\ Writes("event", base, c, {}) /\ job' = job
  <2>1. ui' = c /\ (ui = base \/ "event" \in mishaps')
    BY <1>4, <1>6, WritesInPlace
  <2> QED BY <1>1, <1>2, <1>3, <1>4, <1>6, <2>1
<1> QED BY <1>1, <1>2, <1>3, <1>5, <1>6

LEMMA ResolvedSays ==
  ASSUME StateInv, NEW j \in Jobs, OnDomainResolved(j)
  PROVE  /\ job[j].at = "resolving" /\ Finishes(j) /\ open
         /\ held(j) \in Contexts /\ held(j).stage = "form" /\ held(j).text # None
         /\ ui = held(j) \/ "answer" \in mishaps'
         /\ ui' \in Contexts /\ ui'.text = ui'.to /\ ui'.stage = "form"
         /\ ui'.text = held(j).text \/ "failed" \in mishaps'
         /\ SameSum(ui', held(j)) /\ SameMessage(ui', held(j)) /\ timer' = ui'
         /\ UNCHANGED <<open, typed, inbox, build, built, sent, amiss>>
<1>1. /\ job[j].at = "resolving" /\ Finishes(j)
      /\ UNCHANGED <<open, typed, inbox, build, built, sent, amiss>>
  BY DEF OnDomainResolved, At
<1>2. held(j) \in Contexts /\ JobOK(j) /\ job[j] # Idle /\ open
  BY <1>1, HeldBy DEF Sending
<1>3. job[j].input \in Recipients /\ held(j).stage = "form" /\ held(j).text = job[j].input
  BY <1>1, <1>2, RecipientsAssumption DEF JobOK, Sending, held
<1>4. PICK r \in {job[j].input, None} :
        /\ Writes("answer", held(j), [held(j) EXCEPT !.text = r, !.to = r], IF r = None THEN {"failed"} ELSE {})
        /\ timer' = [held(j) EXCEPT !.text = r, !.to = r]
  BY DEF OnDomainResolved, Debounces
<1> DEFINE c == [held(j) EXCEPT !.text = r, !.to = r]
           why == IF r = None THEN {"failed"} ELSE {}
<1>5. /\ c \in Contexts /\ c.stage = "form" /\ c.text = r /\ c.to = r
      /\ SameSum(c, held(j)) /\ SameMessage(c, held(j))
  BY <1>2, <1>3 DEF Contexts, SameSum, SameMessage
<1>6. Writes("answer", held(j), c, why) /\ timer' = c
  BY <1>4
<1>7. r = held(j).text \/ why = {"failed"}
  BY <1>3
<1> HIDE DEF c, why
<1>8. ui' = c /\ (ui = held(j) \/ "answer" \in mishaps') /\ why \subseteq mishaps'
  BY <1>5, <1>6, WritesInPlace
<1>9. held(j).text # None
  BY <1>3, NoneAssumption
<1> QED BY <1>1, <1>2, <1>3, <1>5, <1>6, <1>7, <1>8, <1>9

LEMMA PricedSays ==
  ASSUME StateInv, NEW j \in Jobs, OnPriced(j)
  PROVE  /\ job[j].at = "pricing" /\ Finishes(j) /\ open
         /\ held(j) \in Contexts /\ held(j).stage = "confirmation"
         /\ ui = held(j) \/ "answer" \in mishaps'
         /\ ui' \in Contexts /\ ui'.stage = "confirmation"
         /\ SameText(ui', held(j)) /\ SameMessage(ui', held(j))
         /\ ui'.amount = held(j).amount /\ ui'.fiat = held(j).fiat
         /\ ui'.fiat /\ ui'.price # ui.price => "repriced" \in mishaps'
         /\ UNCHANGED <<open, typed, inbox, timer, build, built, sent, amiss>>
<1>1. /\ job[j].at = "pricing" /\ Finishes(j)
      /\ UNCHANGED <<open, typed, inbox, timer, build, built, sent, amiss>>
  BY DEF OnPriced, At, building
<1>2. held(j) \in Contexts /\ JobOK(j) /\ job[j] # Idle /\ open
  BY <1>1, HeldBy DEF Sending
<1>3. held(j).stage = "confirmation"
  BY <1>1, <1>2 DEF JobOK, Sending, held
<1>4. PICK p \in Prices : Writes("answer", held(j), [held(j) EXCEPT !.loading = FALSE, !.price = p], {})
  BY DEF OnPriced
<1> DEFINE c == [held(j) EXCEPT !.loading = FALSE, !.price = p]
<1>5. /\ c \in Contexts /\ c.stage = "confirmation" /\ SameText(c, held(j)) /\ SameMessage(c, held(j))
      /\ c.amount = held(j).amount /\ c.fiat = held(j).fiat
  BY <1>2, <1>3 DEF Contexts, SameText, SameMessage
<1>6. Writes("answer", held(j), c, {})
  BY <1>4
<1> HIDE DEF c
<1>7. /\ ui' = c /\ (ui = held(j) \/ "answer" \in mishaps')
      /\ ui'.fiat /\ ui'.price # ui.price => "repriced" \in mishaps'
  BY <1>5, <1>6, WritesInPlace
<1> QED BY <1>1, <1>2, <1>3, <1>5, <1>7

LEMMA ApprovedSays ==
  ASSUME StateInv, NEW j \in Jobs, OnApproved(j)
  PROVE  /\ job[j].at = "approving" /\ open
         /\ held(j) \in Contexts /\ held(j).stage = "confirmation" /\ held(j).message # None
         /\ ui = held(j) \/ "answer" \in mishaps'
         /\ ui' \in Contexts /\ ui'.stage = "pending"
         /\ SameText(ui', held(j)) /\ SameSum(ui', held(j)) /\ SameMessage(ui', held(j))
         /\ job'[j].at = "signing" /\ job'[j].context = ui' /\ \A k \in Jobs : k # j => job'[k] = job[k]
         /\ UNCHANGED <<open, typed, inbox, timer, build, built, sent, amiss>>
<1> DEFINE c == [held(j) EXCEPT !.stage = "pending"]
<1>1. /\ job[j].at = "approving" /\ job' = [job EXCEPT ![j].at = "signing", ![j].context = c]
      /\ Writes("answer", held(j), c, {})
      /\ UNCHANGED <<open, typed, inbox, timer, build, built, sent, amiss>>
  BY DEF OnApproved, At, building
<1>2. held(j) \in Contexts /\ JobOK(j) /\ job[j] # Idle /\ open
  BY <1>1, HeldBy DEF Sending
<1>3. held(j).message # None /\ held(j).stage = "confirmation"
  BY <1>1, <1>2 DEF JobOK, Sending, held
<1>4. /\ c \in Contexts /\ c.stage = "pending"
      /\ SameText(c, held(j)) /\ SameSum(c, held(j)) /\ SameMessage(c, held(j))
  BY <1>2 DEF Contexts, Stages, SameText, SameSum, SameMessage
<1> HIDE DEF c
<1>5. ui' = c /\ (ui = held(j) \/ "answer" \in mishaps')
  BY <1>1, <1>4, WritesInPlace
<1>6. job'[j].at = "signing" /\ job'[j].context = c /\ \A k \in Jobs : k # j => job'[k] = job[k]
  BY <1>1 DEF StateInv, Types, EventTypes, JobRecords
<1> QED BY <1>1, <1>2, <1>3, <1>4, <1>5, <1>6

LEMMA SigningSays ==
  ASSUME StateInv, NEW j \in Jobs, SignAndSend(j)
  PROVE  /\ job[j].at = "signing" /\ held(j) \in Contexts /\ held(j).message # None
         /\ \A k \in Jobs : k # j => job'[k] = job[k]
         /\ job'[j].context = held(j) /\ job'[j].at \in {"sent", "not sent"}
         /\ \/ sent' = sent \cup {held(j).message} /\ job'[j].at = "sent"
            \/ sent' = sent /\ job'[j].at = "not sent"
            \/ sent' = sent \cup {held(j).message} /\ job'[j].at = "not sent" /\ "lost" \in mishaps'
         /\ amiss' = (amiss \/ Shown(held(j)) # Does(held(j).message))
         /\ UNCHANGED <<ui, open, typed, inbox, timer, build, built>>
<1>1. /\ job[j].at = "signing" /\ UNCHANGED <<ui, open, typed, inbox, timer, build, built>>
      /\ amiss' = (amiss \/ Shown(held(j)) # Does(held(j).message))
      /\ \/ sent' = sent \cup {held(j).message} /\ job' = [job EXCEPT ![j].at = "sent"]
         \/ sent' = sent /\ job' = [job EXCEPT ![j].at = "not sent"]
         \/ /\ sent' = sent \cup {held(j).message} /\ job' = [job EXCEPT ![j].at = "not sent"]
            /\ "lost" \in mishaps'
  BY DEF SignAndSend, At, screen, building
<1>2. held(j) \in Contexts /\ JobOK(j) /\ job[j] # Idle
  BY <1>1, HeldBy
<1>3. held(j).message # None
  BY <1>1, <1>2 DEF JobOK, Sending, held
<1>4. \A at \in {"sent", "not sent"} :
        job' = [job EXCEPT ![j].at = at] =>
          /\ job'[j].at = at /\ job'[j].context = held(j)
          /\ \A k \in Jobs : k # j => job'[k] = job[k]
  BY DEF StateInv, Types, EventTypes, JobRecords, held
<1>5. PICK at \in {"sent", "not sent"} : job' = [job EXCEPT ![j].at = at]
  BY <1>1
<1>6. /\ job'[j].at = at /\ job'[j].context = held(j)
      /\ \A k \in Jobs : k # j => job'[k] = job[k]
  BY <1>4, <1>5
<1>7. \/ sent' = sent \cup {held(j).message} /\ job'[j].at = "sent"
      \/ sent' = sent /\ job'[j].at = "not sent"
      \/ sent' = sent \cup {held(j).message} /\ job'[j].at = "not sent" /\ "lost" \in mishaps'
  BY <1>1, <1>4
<1> QED BY <1>1, <1>2, <1>3, <1>6, <1>7

LEMMA ReportSays ==
  ASSUME StateInv, NEW j \in Jobs, Report(j)
  PROVE  /\ job[j].at \in {"sent", "not sent"} /\ Finishes(j)
         /\ held(j) \in Contexts /\ held(j).stage = "pending"
         /\ \/ /\ ui = held(j) \/ "answer" \in mishaps'
               /\ ui' \in Contexts /\ ui'.stage \in {"success", "failure"}
               /\ ui'.stage = "failure" => job[j].at = "not sent"
               /\ SameText(ui', held(j)) /\ SameSum(ui', held(j)) /\ SameMessage(ui', held(j))
            \/ ui' = ui /\ ~open
         /\ UNCHANGED <<open, typed, inbox, timer, build, built, sent, amiss>>
<1> DEFINE c == [held(j) EXCEPT !.stage = IF At(j, "sent") THEN "success" ELSE "failure"]
<1>1. /\ job[j].at \in {"sent", "not sent"} /\ Finishes(j)
      /\ Writes("answer", held(j), c, {}) \/ (ui' = ui /\ ~open)
      /\ UNCHANGED <<open, typed, inbox, timer, build, built, sent, amiss>>
  BY DEF Report, building
<1>2. held(j) \in Contexts /\ JobOK(j) /\ job[j] # Idle
  BY <1>1, HeldBy
<1>3. held(j).stage = "pending"
  BY <1>1, <1>2 DEF JobOK, Sending, held
<1>4. /\ c \in Contexts /\ c.stage \in {"success", "failure"} /\ (c.stage = "failure" => job[j].at = "not sent")
      /\ SameText(c, held(j)) /\ SameSum(c, held(j)) /\ SameMessage(c, held(j))
  BY <1>1, <1>2 DEF Contexts, Stages, At, SameText, SameSum, SameMessage
<1> HIDE DEF c
<1>5. CASE Writes("answer", held(j), c, {})
  <2>1. ui' = c /\ (ui = held(j) \/ "answer" \in mishaps')
    BY <1>4, <1>5, WritesInPlace
  <2> QED BY <1>1, <1>2, <1>3, <1>4, <2>1
<1> QED BY <1>1, <1>2, <1>3, <1>5

LEMMA BuildStartSays ==
  ASSUME StateInv, NEW b \in Builds, BuildStarts(b)
  PROVE  /\ timer \in Contexts /\ timer.stage = "form" /\ timer' = None /\ open /\ built \in Nat
         /\ \/ ~Valid(timer) /\ UNCHANGED <<ui, build, built>>
            \/ /\ Valid(timer) /\ (ui = timer \/ "build" \in mishaps')
               /\ ui' \in Contexts /\ ui'.stage = "form" /\ ui'.message = None
               /\ SameText(ui', timer) /\ SameSum(ui', timer)
               /\ built' = built + 1 /\ build[b] = NoBuild
               /\ build'[b] # NoBuild /\ build'[b].number = built' /\ Does(build'[b].message) = Shown(timer)
               /\ \A d \in Builds : d # b => build'[d] = build[d]
         /\ UNCHANGED <<open, typed, inbox, job, sent, amiss>>
<1>1. /\ timer # None /\ build[b] = NoBuild /\ timer' = None
      /\ UNCHANGED <<open, typed, inbox, job, sent, amiss>>
  BY DEF BuildStarts, events
<1>2. timer \in Contexts /\ build \in [Builds -> BuildRecords] /\ built \in Nat /\ open /\ timer.stage = "form"
  BY <1>1 DEF StateInv, Types, BuildingTypes, FlowInv
<1> DEFINE c == [timer EXCEPT !.building = TRUE, !.message = None]
           m == [to |-> timer.to, tokens |-> Tokens(timer), number |-> built']
           n == [at |-> "building", context |-> None, number |-> built', message |-> m]
<1>3. \/ ~Valid(timer) /\ UNCHANGED <<ui, build, built>>
      \/ /\ Valid(timer) /\ Writes("build", timer, c, {}) /\ built' = built + 1
         /\ build' = [build EXCEPT ![b] = n]
  BY DEF BuildStarts
<1>4. CASE /\ Valid(timer) /\ Writes("build", timer, c, {}) /\ built' = built + 1
           /\ build' = [build EXCEPT ![b] = n]
  <2>1. c \in Contexts /\ c.message = None /\ c.stage = "form" /\ SameText(c, timer) /\ SameSum(c, timer)
    BY <1>2 DEF Contexts, SameText, SameSum
  <2>2. Does(m) = Shown(timer)
    BY DEF Does, Shown
  <2> HIDE DEF c, m
  <2>3. n # NoBuild /\ n.number = built' /\ n.message = m
    BY DEF NoBuild
  <2> HIDE DEF n
  <2>4. build'[b] = n /\ \A d \in Builds : d # b => build'[d] = build[d]
    BY <1>2, <1>4
  <2>5. ui' = c /\ (ui = timer \/ "build" \in mishaps')
    BY <1>4, <2>1, WritesInPlace
  <2>6. /\ ui' \in Contexts /\ ui'.stage = "form" /\ ui'.message = None
        /\ SameText(ui', timer) /\ SameSum(ui', timer)
    BY <2>1, <2>5
  <2>7. build'[b] # NoBuild /\ build'[b].number = built' /\ Does(build'[b].message) = Shown(timer)
    BY <2>2, <2>3, <2>4
  <2> QED BY <1>1, <1>2, <1>4, <2>4, <2>5, <2>6, <2>7
<1> QED BY <1>1, <1>2, <1>3, <1>4

LEMMA BuildEndSays ==
  ASSUME StateInv, NEW b \in Builds, BuildEnds(b)
  PROVE  /\ build[b] # NoBuild /\ build'[b] # NoBuild /\ build'[b].number = build[b].number
         /\ build'[b].message = build[b].message \/ build'[b].message = None
         /\ \A d \in Builds : d # b => build'[d] = build[d]
         /\ UNCHANGED <<ui, open, typed, inbox, job, timer, built, sent, amiss>>
<1>1. /\ build[b].at = "building" /\ UNCHANGED <<ui, open, typed, inbox, job, timer, built, sent, amiss>>
      /\ \/ build' = [build EXCEPT ![b].at = "merging", ![b].context = ui]
         \/ build' = [build EXCEPT ![b].at = "merging", ![b].context = ui, ![b].message = None]
  BY DEF BuildEnds, screen, events
<1>2. build \in [Builds -> BuildRecords]
  BY DEF StateInv, Types, BuildingTypes
<1>3. /\ build'[b].at = "merging" /\ build'[b].number = build[b].number
      /\ build'[b].message = build[b].message \/ build'[b].message = None
      /\ \A d \in Builds : d # b => build'[d] = build[d]
  BY <1>1, <1>2 DEF BuildRecords
<1> QED BY <1>1, <1>3 DEF NoBuild

LEMMA MergeSays ==
  ASSUME StateInv, NEW b \in Builds, BuildMerges(b)
  PROVE  /\ build[b] # NoBuild /\ BuildOK(b) /\ build'[b] = NoBuild
         /\ \A d \in Builds : d # b => build'[d] = build[d]
         /\ build[b].number = built \/ "disorder" \in mishaps'
         /\ build[b].context \in Contexts /\ (ui = build[b].context \/ "merge" \in mishaps')
         /\ ui' \in Contexts /\ ui'.stage = build[b].context.stage
         /\ SameText(ui', build[b].context) /\ SameSum(ui', build[b].context)
         /\ ui'.message = build[b].message /\ ~ui'.building
         /\ UNCHANGED <<open, typed, inbox, job, timer, built, sent, amiss>>
<1> DEFINE c == [build[b].context EXCEPT !.message = build[b].message, !.building = FALSE]
           why == IF build[b].number < built THEN {"disorder"} ELSE {}
<1>1. /\ build[b].at = "merging" /\ Writes("merge", build[b].context, c, why)
      /\ build' = [build EXCEPT ![b] = NoBuild]
      /\ UNCHANGED <<open, typed, inbox, job, timer, built, sent, amiss>>
  BY DEF BuildMerges, events
<1>2. /\ build \in [Builds -> BuildRecords] /\ build[b] # NoBuild /\ BuildOK(b) /\ built \in Nat
  BY <1>1, BuildsAre
<1>3. build[b].context \in Contexts /\ build[b].number \in 1..built /\ build[b].message \in Messages \cup {None}
  BY <1>1, <1>2 DEF BuildOK, BuildRecords
<1>4. /\ c \in Contexts /\ c.stage = build[b].context.stage /\ c.message = build[b].message /\ ~c.building
      /\ SameText(c, build[b].context) /\ SameSum(c, build[b].context)
  BY <1>3 DEF Contexts, SameText, SameSum
<1>5. build[b].number = built \/ why = {"disorder"}
  BY <1>2, <1>3
<1>6. build'[b] = NoBuild /\ \A d \in Builds : d # b => build'[d] = build[d]
  BY <1>1, <1>2
<1> HIDE DEF c, why
<1>7. ui' = c /\ (ui = build[b].context \/ "merge" \in mishaps') /\ why \subseteq mishaps'
  BY <1>1, <1>4, WritesInPlace
<1> QED BY <1>1, <1>2, <1>3, <1>4, <1>5, <1>6, <1>7

LEMMA RefreshSays ==
  ASSUME StateInv, RefreshReads \/ RefreshWrites
  PROVE  /\ \/ ui' = ui
            \/ /\ ui = refresh \/ "refresh" \in mishaps'
               /\ refresh \in Contexts /\ ui' \in Contexts /\ ui'.stage = refresh.stage
               /\ SameText(ui', refresh) /\ SameMessage(ui', refresh)
               /\ ui'.amount = refresh.amount /\ ui'.fiat = refresh.fiat
               /\ ui'.fiat /\ ui'.price # ui.price => "repriced" \in mishaps'
         /\ UNCHANGED <<open, typed, inbox, job, timer, build, built, sent, amiss>>
<1>1. CASE RefreshReads
  BY <1>1 DEF RefreshReads, screen, events, building
<1>2. CASE RefreshWrites
  <2>1. refresh # None /\ UNCHANGED <<open, typed, inbox, job, timer, build, built, sent, amiss>>
    BY <1>2 DEF RefreshWrites, events, building
  <2>2. refresh \in Contexts
    BY <2>1 DEF StateInv, Types, BuildingTypes
  <2>3. PICK p \in Prices : Writes("refresh", refresh, [refresh EXCEPT !.price = p], {})
    BY <1>2 DEF RefreshWrites
  <2> DEFINE c == [refresh EXCEPT !.price = p]
  <2>4. /\ c \in Contexts /\ c.stage = refresh.stage /\ SameText(c, refresh) /\ SameMessage(c, refresh)
        /\ c.amount = refresh.amount /\ c.fiat = refresh.fiat
    BY <2>2 DEF Contexts, SameText, SameMessage
  <2>5. Writes("refresh", refresh, c, {})
    BY <2>3
  <2> HIDE DEF c
  <2>6. /\ ui' = c /\ (ui = refresh \/ "refresh" \in mishaps')
        /\ ui'.fiat /\ ui'.price # ui.price => "repriced" \in mishaps'
    BY <2>4, <2>5, WritesInPlace
  <2> QED BY <2>1, <2>2, <2>4, <2>6
<1> QED BY <1>1, <1>2

------------------------------------------------------------------------------
(* What is sent.                                                           *)

Unfresh == {"event", "answer", "build", "merge", "refresh"}

\* At most one job signs, while the screen waits for it, and signs once.
SentOnce ==
  /\ \A j, k \in Jobs : job[j].at \in Sending /\ job[k].at \in Sending => j = k
  /\ \A j \in Jobs : job[j].at \in Sending => ui.stage = "pending"
  /\ \A j \in Jobs : /\ job[j].at = "signing" => sent = {}
                     /\ job[j].at = "not sent" => sent = {} \/ "lost" \in mishaps
  /\ ui.stage \in {"form", "confirmation"} => sent = {}
  /\ ui.stage = "failure" => sent = {} \/ "lost" \in mishaps
  /\ \A m, n \in sent : m = n

SentInv == Without(Unfresh) => SentOnce

\* Nothing is sent, no job signs that did not, and form and confirmation are as good as each other.
LEMMA SentKept ==
  ASSUME SentOnce, sent' = sent, mishaps \subseteq mishaps',
         ui'.stage = ui.stage \/ {ui.stage, ui'.stage} \subseteq {"form", "confirmation"},
         \A j \in Jobs : job'[j] = job[j] \/ job'[j].at \notin Sending
  PROVE  SentOnce'
<1>1. \A j \in Jobs : job'[j].at \in Sending => job'[j] = job[j]
  OBVIOUS
<1>2. /\ \A j, k \in Jobs : job'[j].at \in Sending /\ job'[k].at \in Sending => j = k
      /\ \A j \in Jobs : /\ job'[j].at = "signing" => sent = {}
                         /\ job'[j].at = "not sent" => sent = {} \/ "lost" \in mishaps'
  BY <1>1 DEF SentOnce, Sending
<1>3. \A j \in Jobs : job'[j].at \in Sending => ui'.stage = "pending"
  BY <1>1 DEF SentOnce
<1> QED BY <1>2, <1>3 DEF SentOnce

\* Of the jobs, none signs that did not.
LEMMA NoneSigns ==
  ASSUME StateInv
  PROVE  /\ \A j \in Jobs : Finishes(j) => \A k \in Jobs : job'[k] = job[k] \/ job'[k].at \notin Sending
         /\ \A at \in {"resolving", "pricing", "approving"} : \A c, i :
              Starts(at, c, i) => \A k \in Jobs : job'[k] = job[k] \/ job'[k].at \notin Sending
<1>1. ASSUME NEW j \in Jobs, Finishes(j), NEW k \in Jobs PROVE job'[k] = job[k] \/ job'[k].at \notin Sending
  <2>1. job'[j] = Idle /\ (k # j => job'[k] = job[k])
    BY <1>1, Finished
  <2>2. Idle.at \notin Sending
    BY DEF Idle, Sending
  <2> QED BY <2>1, <2>2
<1>2. ASSUME NEW at \in {"resolving", "pricing", "approving"}, NEW c, NEW i, Starts(at, c, i), NEW k \in Jobs
      PROVE  job'[k] = job[k] \/ job'[k].at \notin Sending
  <2>1. PICK j \in Jobs : /\ job'[j] = [at |-> at, context |-> c, input |-> i]
                          /\ \A l \in Jobs : l # j => job'[l] = job[l]
    BY <1>2, Beginning
  <2>2. job'[j].at = at
    BY <2>1
  <2>3. at \notin Sending
    BY DEF Sending
  <2> QED BY <2>1, <2>2, <2>3
<1> QED BY <1>1, <1>2

\* Every step keeps it.
LEMMA SentStep == StateInv /\ SentInv /\ [SendNext]_sendVars => SentInv'
<1> SUFFICES ASSUME StateInv, SentInv, [SendNext]_sendVars, Without(Unfresh)' PROVE SentOnce'
  BY DEF SentInv
<1>1. /\ mishaps \subseteq mishaps' /\ "event" \notin mishaps' /\ "answer" \notin mishaps'
      /\ "build" \notin mishaps' /\ "merge" \notin mishaps' /\ "refresh" \notin mishaps'
  BY MishapsGrow DEF Without, Unfresh
<1>2. SentOnce
  BY <1>1 DEF SentInv, Without
<1>3. CASE Clicks
  <2>1. UNCHANGED <<ui, job, sent>>
    BY <1>3, ClicksDispatch DEF Dispatch, StateInv
  <2> QED BY <1>1, <1>2, <2>1, SentKept
<1>4. CASE OnDestinationChange
  <2>1. sent' = sent /\ ui'.stage = ui.stage
    BY <1>1, <1>4, RecipientSays
  <2>2. \A j \in Jobs : job'[j] = job[j] \/ job'[j].at \notin Sending
    BY <1>4, NoneSigns, RecipientSays
  <2> QED BY <1>1, <1>2, <2>1, <2>2, SentKept
<1>5. CASE OnAmountChange
  BY <1>1, <1>2, <1>5, AmountSays, SentKept
<1>6. CASE OnSwapCurrency
  BY <1>1, <1>2, <1>6, SwapSays, SentKept
<1>7. CASE OnSend
  <2>1. sent' = sent /\ (ui'.stage = ui.stage \/ {ui.stage, ui'.stage} \subseteq {"form", "confirmation"})
    BY <1>1, <1>7, SendSays
  <2>2. \A j \in Jobs : job'[j] = job[j] \/ job'[j].at \notin Sending
    BY <1>7, NoneSigns, SendSays
  <2> QED BY <1>1, <1>2, <2>1, <2>2, SentKept
<1>8. CASE OnBack
  BY <1>1, <1>2, <1>8, BackSays, SentKept
<1>9. CASE OnConfirm
  <2>1. sent' = sent /\ (ui'.stage = ui.stage \/ {ui.stage, ui'.stage} \subseteq {"form", "confirmation"})
    BY <1>1, <1>9, ConfirmSays
  <2>2. \A j \in Jobs : job'[j] = job[j] \/ job'[j].at \notin Sending
    BY <1>9, NoneSigns, ConfirmSays
  <2> QED BY <1>1, <1>2, <2>1, <2>2, SentKept
<1>10. CASE OnCancel
  <2>1. \A j \in Jobs : job'[j] = job[j] \/ job'[j].at \notin Sending
    BY <1>10 DEF OnCancel, Idle, Sending
  <2>2. UNCHANGED <<ui, sent>>
    BY <1>10 DEF OnCancel
  <2> QED BY <1>1, <1>2, <2>1, <2>2, SentKept
<1>11. ASSUME NEW j \in Jobs, OnDomainResolved(j) \/ OnPriced(j) PROVE SentOnce'
  <2>1. sent' = sent /\ ui'.stage = ui.stage
    BY <1>1, <1>11, ResolvedSays, PricedSays
  <2>2. \A k \in Jobs : job'[k] = job[k] \/ job'[k].at \notin Sending
    BY <1>11, NoneSigns, ResolvedSays, PricedSays
  <2> QED BY <1>1, <1>2, <2>1, <2>2, SentKept
<1>12. ASSUME NEW j \in Jobs, OnApproved(j) PROVE SentOnce'
  <2>1. /\ sent' = sent /\ ui.stage = "confirmation" /\ ui'.stage = "pending"
        /\ job'[j].at = "signing" /\ \A k \in Jobs : k # j => job'[k] = job[k]
    BY <1>1, <1>12, ApprovedSays
  <2>2. sent = {} /\ \A k \in Jobs : job[k].at \notin Sending
    BY <1>2, <2>1 DEF SentOnce
  <2> QED BY <2>1, <2>2 DEF SentOnce, Sending
<1>13. ASSUME NEW j \in Jobs, SignAndSend(j) PROVE SentOnce'
  <2>1. /\ job[j].at = "signing" /\ ui' = ui /\ job'[j].at \in {"sent", "not sent"}
        /\ \A k \in Jobs : k # j => job'[k] = job[k]
        /\ \/ sent' = sent \cup {held(j).message} /\ job'[j].at = "sent"
           \/ sent' = sent
           \/ sent' = sent \cup {held(j).message} /\ "lost" \in mishaps'
    BY <1>13, SigningSays
  <2>2. sent = {} /\ ui.stage = "pending" /\ \A k \in Jobs : k # j => job[k].at \notin Sending
    BY <1>2, <2>1 DEF SentOnce, Sending
  <2> QED BY <2>1, <2>2 DEF SentOnce, Sending
<1>14. ASSUME NEW j \in Jobs, Report(j) PROVE SentOnce'
  <2>1. /\ job[j].at \in {"sent", "not sent"} /\ sent' = sent /\ Finishes(j)
        /\ ui' = ui \/ (ui'.stage \in {"success", "failure"} /\ (ui'.stage = "failure" => job[j].at = "not sent"))
    BY <1>1, <1>14, ReportSays
  <2>2. ui.stage = "pending" /\ \A k \in Jobs : k # j => job[k].at \notin Sending
    BY <1>2, <2>1 DEF SentOnce, Sending
  <2>3. job'[j] = Idle /\ \A k \in Jobs : k # j => job'[k] = job[k]
    BY <2>1, Finished
  <2>4. \A k \in Jobs : job'[k].at \notin Sending
    <3>1. Idle.at \notin Sending
      BY DEF Idle, Sending
    <3> QED BY <2>2, <2>3, <3>1
  <2>5. ui'.stage = "failure" => sent = {} \/ "lost" \in mishaps'
    BY <1>1, <1>2, <2>1, <2>2 DEF SentOnce
  <2>6. ui'.stage \in {"pending", "success", "failure"}
    BY <2>1, <2>2
  <2> QED BY <1>2, <2>1, <2>4, <2>5, <2>6 DEF SentOnce, Sending
<1>15. ASSUME NEW b \in Builds, BuildsOn(b) PROVE SentOnce'
  <2>1. UNCHANGED <<sent, job>> /\ ui'.stage = ui.stage
    BY <1>1, <1>15, BuildStartSays, BuildEndSays, MergeSays DEF BuildsOn
  <2> QED BY <1>1, <1>2, <2>1, SentKept
<1>16. CASE RefreshReads \/ RefreshWrites
  <2>1. UNCHANGED <<sent, job>> /\ ui'.stage = ui.stage
    BY <1>1, <1>16, RefreshSays
  <2> QED BY <1>1, <1>2, <2>1, SentKept
<1>17. CASE UNCHANGED sendVars
  BY <1>1, <1>2, <1>17, SentKept DEF sendVars, screen, events
<1> QED BY <1>3, <1>4, <1>5, <1>6, <1>7, <1>8, <1>9, <1>10, <1>11, <1>12, <1>13, <1>14, <1>15, <1>16, <1>17
        DEF SendNext, Clicks, TakesUp, Handles

\* Success is shown of what was sent only; and as long as nothing older is written over
\* something newer, no more than one message is sent, and the screens do not deny it.
THEOREM SentAsTold == SendSpec => []SentAsToldUnlessExcused
<1>1. SendInit => SentInv
  <2> SUFFICES ASSUME SendInit PROVE SentOnce
    BY DEF SentInv
  <2>1. sent = {} /\ \A j \in Jobs : job[j].at = "idle"
    BY DEF SendInit, Idle
  <2> QED BY <2>1 DEF SentOnce, Sending
<1>2. StateInv /\ SentInv => SentAsToldUnlessExcused
  <2> SUFFICES ASSUME StateInv, SentInv PROVE SentAsToldUnlessExcused
    OBVIOUS
  <2>1. ui.stage = "success" => sent # {}
    BY Kept, StateFacts DEF StateInv, Copies
  <2>2. CASE ~Without(Unfresh)
    BY <2>1, <2>2 DEF SentAsToldUnlessExcused, Without, Unfresh
  <2>3. CASE Without(Unfresh)
    <3>1. SentOnce
      BY <2>3 DEF SentInv
    <3>2. Cardinality(sent) <= 1
      <4>1. CASE sent = {}
        BY <4>1, FS_EmptySet
      <4>2. ASSUME NEW m \in sent PROVE Cardinality(sent) = 1
        <5>1. sent = {m}
          BY <3>1, <4>2 DEF SentOnce
        <5> QED BY <5>1, FS_Singleton
      <4> QED BY <4>1, <4>2
    <3> QED BY <2>1, <3>1, <3>2 DEF SentAsToldUnlessExcused, SentOnce
  <2> QED BY <2>2, <2>3
<1> QED BY <1>1, <1>2, StateInitially, StateStep, SentStep, PTL DEF SendSpec

------------------------------------------------------------------------------
(* What is built.                                                          *)

Stale == {"event", "answer", "merge", "refresh", "disorder", "repriced"}

Agrees(c) == c.message # None => Does(c.message) = Shown(c)
Latest(b) == build[b] # NoBuild /\ build[b].number = built

\* The message of the screen is of the build begun last, and so is not there while that runs.
\* It, or the one being built, does what the screen shows, or another build is asked for.
BuiltAsShown ==
  /\ timer # None /\ Valid(ui) => Valid(timer)
  /\ ui.message # None => ui.message.number = built
  /\ \A b \in Builds : Latest(b) =>
       /\ ui.message = None
       /\ Valid(ui) /\ build[b].message # None => Does(build[b].message) = Shown(ui) \/ timer # None
  /\ Valid(ui) => Agrees(ui) \/ timer # None

BuildInv == open /\ Without(Stale) => BuiltAsShown

\* The screen shows what it showed, or nothing that could be built.
LEMMA BuiltKept ==
  ASSUME BuiltAsShown, ui'.message = ui.message, Valid(ui') => Valid(ui) /\ Shown(ui') = Shown(ui),
         UNCHANGED <<timer, build, built>>
  PROVE  BuiltAsShown'
  BY DEF BuiltAsShown, Latest, Agrees

\* A build of what the screen shows is asked for.
LEMMA BuiltAgain ==
  ASSUME BuiltAsShown, ui'.message = ui.message, timer' = ui', ui' \in Contexts, UNCHANGED <<build, built>>
  PROVE  BuiltAsShown'
  BY NoneAssumption DEF BuiltAsShown, Latest

\* Contexts with the same text and sum show the same.
LEMMA SameShown ==
  ASSUME NEW c, NEW d, SameText(c, d), SameSum(c, d)
  PROVE  Shown(c) = Shown(d) /\ (Valid(c) <=> Valid(d))
  BY DEF SameText, SameSum, Shown, Valid, Tokens

\* The price matters only for an amount in the user's currency.
LEMMA SamePrice ==
  ASSUME NEW c \in Contexts, NEW d, SameText(c, d), c.amount = d.amount, c.fiat = d.fiat,
         c.fiat => c.price = d.price
  PROVE  Shown(c) = Shown(d) /\ (Valid(c) <=> Valid(d))
  BY DEF SameText, Shown, Valid, Tokens

\* Every step keeps it.
LEMMA BuildStep == StateInv /\ BuildInv /\ [SendNext]_sendVars => BuildInv'
<1> SUFFICES ASSUME StateInv, BuildInv, [SendNext]_sendVars, open', Without(Stale)' PROVE BuiltAsShown'
  BY DEF BuildInv
<1>1. /\ mishaps \subseteq mishaps' /\ "event" \notin mishaps' /\ "answer" \notin mishaps' /\ "merge" \notin mishaps'
      /\ "refresh" \notin mishaps' /\ "disorder" \notin mishaps' /\ "repriced" \notin mishaps'
  BY MishapsGrow DEF Without, Stale
<1>2. open => BuiltAsShown
  BY <1>1 DEF BuildInv, Without
<1>3. CASE Clicks
  <2>1. UNCHANGED <<ui, open, timer, build, built>>
    BY <1>3, ClicksDispatch DEF Dispatch, StateInv, building
  <2> QED BY <1>2, <2>1, BuiltKept
<1>4. CASE OnDestinationChange
  <2>1. /\ open /\ base \in Contexts /\ ui' \in Contexts /\ ui = base /\ ui'.text = input
        /\ SameSum(ui', ui) /\ ui'.message = ui.message
        /\ \/ ui'.to = ui.to /\ timer' = timer
           \/ timer' = ui'
           \/ ui'.to = None /\ timer' = timer
        /\ UNCHANGED <<build, built>>
    BY <1>1, <1>4, RecipientSays DEF SameMessage
  <2>2. CASE ui'.to = ui.to /\ timer' = timer
    <3>1. Shown(ui') = Shown(ui) /\ (Valid(ui') <=> Valid(ui))
      BY <2>1, <2>2 DEF SameSum, Shown, Valid, Tokens
    <3> QED BY <1>2, <2>1, <2>2, <3>1, BuiltKept
  <2>3. CASE timer' = ui'
    BY <1>2, <2>1, <2>3, BuiltAgain
  <2>4. CASE ui'.to = None /\ timer' = timer
    <3>1. ~Valid(ui')
      BY <2>4 DEF Valid
    <3> QED BY <1>2, <2>1, <2>4, <3>1, BuiltKept
  <2> QED BY <2>1, <2>2, <2>3, <2>4
<1>5. CASE OnAmountChange
  <2>1. /\ open /\ ui' \in Contexts /\ ui = base /\ ui'.message = ui.message
        /\ \/ timer' = ui'
           \/ timer' = timer /\ ui'.amount = 0
           \/ timer' = timer /\ ui' = ui
        /\ UNCHANGED <<build, built>>
    BY <1>1, <1>5, AmountSays DEF SameMessage
  <2>2. CASE timer' = ui'
    BY <1>2, <2>1, <2>2, BuiltAgain
  <2>3. CASE timer' = timer /\ (ui'.amount = 0 \/ ui' = ui)
    <3>1. Valid(ui') => Valid(ui) /\ Shown(ui') = Shown(ui)
      BY <2>3 DEF Valid
    <3> QED BY <1>2, <2>1, <2>3, <3>1, BuiltKept
  <2> QED BY <2>1, <2>2, <2>3
<1>6. CASE OnSwapCurrency
  BY <1>1, <1>2, <1>6, SwapSays, BuiltKept DEF SameMessage
<1>7. CASE OnSend
  <2>1. /\ open /\ UNCHANGED <<timer, build, built>>
        /\ ui' = ui \/ (SameText(ui', ui) /\ SameSum(ui', ui) /\ SameMessage(ui', ui))
    BY <1>1, <1>7, SendSays
  <2>2. ui'.message = ui.message /\ (Valid(ui') => Valid(ui) /\ Shown(ui') = Shown(ui))
    BY <2>1, SameShown DEF SameMessage
  <2> QED BY <1>2, <2>1, <2>2, BuiltKept
<1>8. CASE OnBack
  <2>1. /\ open /\ UNCHANGED <<timer, build, built>>
        /\ SameText(ui', ui) /\ SameSum(ui', ui) /\ SameMessage(ui', ui)
    BY <1>1, <1>8, BackSays
  <2>2. ui'.message = ui.message /\ (Valid(ui') => Valid(ui) /\ Shown(ui') = Shown(ui))
    BY <2>1, SameShown DEF SameMessage
  <2> QED BY <1>2, <2>1, <2>2, BuiltKept
<1>9. CASE OnConfirm
  <2>1. /\ open /\ UNCHANGED <<timer, build, built>>
        /\ ui' = ui \/ (SameText(ui', ui) /\ SameSum(ui', ui) /\ SameMessage(ui', ui))
    BY <1>1, <1>9, ConfirmSays
  <2>2. ui'.message = ui.message /\ (Valid(ui') => Valid(ui) /\ Shown(ui') = Shown(ui))
    BY <2>1, SameShown DEF SameMessage
  <2> QED BY <1>2, <2>1, <2>2, BuiltKept
<1>10. CASE OnCancel
  BY <1>10 DEF OnCancel
<1>11. ASSUME NEW j \in Jobs, OnDomainResolved(j) PROVE BuiltAsShown'
  BY <1>1, <1>2, <1>11, ResolvedSays, BuiltAgain DEF SameMessage
<1>12. ASSUME NEW j \in Jobs, OnPriced(j) PROVE BuiltAsShown'
  <2>1. /\ open /\ UNCHANGED <<timer, build, built>> /\ ui' \in Contexts /\ ui'.message = ui.message
        /\ SameText(ui', ui) /\ ui'.amount = ui.amount /\ ui'.fiat = ui.fiat
        /\ ui'.fiat => ui'.price = ui.price
    BY <1>1, <1>12, PricedSays DEF SameMessage
  <2> QED BY <1>2, <2>1, SamePrice, BuiltKept
<1>13. ASSUME NEW j \in Jobs, OnApproved(j) PROVE BuiltAsShown'
  <2>1. /\ open /\ UNCHANGED <<timer, build, built>>
        /\ SameText(ui', ui) /\ SameSum(ui', ui) /\ SameMessage(ui', ui)
    BY <1>1, <1>13, ApprovedSays
  <2>2. ui'.message = ui.message /\ (Valid(ui') => Valid(ui) /\ Shown(ui') = Shown(ui))
    BY <2>1, SameShown DEF SameMessage
  <2> QED BY <1>2, <2>1, <2>2, BuiltKept
<1>14. ASSUME NEW j \in Jobs, SignAndSend(j) PROVE BuiltAsShown'
  BY <1>2, <1>14, SigningSays, BuiltKept
<1>15. ASSUME NEW j \in Jobs, Report(j) PROVE BuiltAsShown'
  <2>1. /\ open /\ UNCHANGED <<timer, build, built>>
        /\ SameText(ui', ui) /\ SameSum(ui', ui) /\ SameMessage(ui', ui)
    BY <1>1, <1>15, ReportSays
  <2>2. ui'.message = ui.message /\ (Valid(ui') => Valid(ui) /\ Shown(ui') = Shown(ui))
    BY <2>1, SameShown DEF SameMessage
  <2> QED BY <1>2, <2>1, <2>2, BuiltKept
<1>16. ASSUME NEW b \in Builds, BuildStarts(b) PROVE BuiltAsShown'
  <2>1. timer \in Contexts /\ timer # None /\ timer' = None /\ BuiltAsShown /\ built \in Nat
    BY <1>2, <1>16, BuildStartSays, NoneAssumption
  <2>2. CASE ~Valid(timer) /\ UNCHANGED <<ui, build, built>>
    BY <2>1, <2>2 DEF BuiltAsShown, Latest
  <2>3. CASE /\ ui'.message = None /\ SameText(ui', timer) /\ SameSum(ui', timer) /\ built' = built + 1
             /\ Does(build'[b].message) = Shown(timer) /\ \A d \in Builds : d # b => build'[d] = build[d]
    <3>1. Does(build'[b].message) = Shown(ui')
      BY <2>3, SameShown
    <3>2. \A d \in Builds : Latest(d)' => d = b
      BY <2>1, <2>3 DEF Latest, StateInv, FlowInv, BuildOK
    <3> QED BY <2>1, <2>3, <3>1, <3>2 DEF BuiltAsShown, Agrees
  <2> QED BY <1>16, <2>2, <2>3, BuildStartSays
<1>17. ASSUME NEW b \in Builds, BuildEnds(b) PROVE BuiltAsShown'
  BY <1>2, <1>17, BuildEndSays DEF BuiltAsShown, Latest, Agrees
<1>18. ASSUME NEW b \in Builds, BuildMerges(b) PROVE BuiltAsShown'
  <2>1. /\ Latest(b) /\ BuildOK(b) /\ build'[b] = NoBuild /\ \A d \in Builds : d # b => build'[d] = build[d]
        /\ SameText(ui', ui) /\ SameSum(ui', ui) /\ ui'.message = build[b].message
        /\ UNCHANGED <<timer, built, open>>
    BY <1>1, <1>18, MergeSays DEF Latest
  <2>2. Shown(ui') = Shown(ui) /\ (Valid(ui') <=> Valid(ui))
    BY <2>1, SameShown
  <2>3. \A d \in Builds : ~Latest(d)'
    BY <2>1 DEF Latest, StateInv, FlowInv
  <2>4. ui'.message # None => ui'.message.number = built'
    BY <2>1 DEF BuildOK, Latest
  <2> QED BY <1>2, <2>1, <2>2, <2>3, <2>4 DEF BuiltAsShown, Agrees
<1>19. CASE RefreshReads \/ RefreshWrites
  <2>1. /\ UNCHANGED <<open, timer, build, built>>
        /\ \/ ui' = ui
           \/ /\ ui' \in Contexts /\ SameText(ui', ui) /\ SameMessage(ui', ui) /\ ui'.amount = ui.amount
              /\ ui'.fiat = ui.fiat /\ (ui'.fiat => ui'.price = ui.price)
    BY <1>1, <1>19, RefreshSays
  <2>2. ui'.message = ui.message /\ (Valid(ui') => Valid(ui) /\ Shown(ui') = Shown(ui))
    BY <2>1, SamePrice DEF SameMessage
  <2> QED BY <1>2, <2>1, <2>2, BuiltKept
<1>20. CASE UNCHANGED sendVars
  BY <1>2, <1>20, BuiltKept DEF sendVars, screen, building
<1> QED BY <1>3, <1>4, <1>5, <1>6, <1>7, <1>8, <1>9, <1>10, <1>11, <1>12, <1>13, <1>14, <1>15, <1>16, <1>17,
           <1>18, <1>19, <1>20 DEF SendNext, Clicks, TakesUp, Handles, BuildsOn

------------------------------------------------------------------------------
(* What is confirmed and signed.                                           *)

Unsafe == Stale \cup {"early"}

\* Who continues does so with the message of what the form shows, all builds over; none begins
\* until the form is back; so what is shown, confirmed and signed is one thing.
SendsAgree ==
  \A e \in Waiting : e.at = "send" =>
    /\ Valid(e.context) => Agrees(e.context)
    /\ \A b \in Builds : build[b] # NoBuild => build[b].number > e.context.message.number
ConfirmsAgree == \A e \in Waiting : e.at = "confirm" => Agrees(e.context)
JobsAgree == \A j \in Jobs : job[j].at \in {"approving"} \cup Sending => Agrees(job[j].context)
ScreenAgrees ==
  /\ ui.stage # "form" => \A b \in Builds : build[b] = NoBuild
  /\ ui.stage = "confirmation" => Agrees(ui)
Confirmed == SendsAgree /\ ConfirmsAgree /\ JobsAgree /\ ScreenAgrees /\ ~amiss

ConfirmInv == Without(Unsafe) => Confirmed

\* The parts that a step leaves alone.
LEMMA SendsKept ==
  ASSUME SendsAgree, Waiting' \subseteq Waiting,
         \A b \in Builds : build'[b] # NoBuild => build[b] # NoBuild /\ build'[b].number = build[b].number
  PROVE  SendsAgree'
  BY DEF SendsAgree, Agrees

\* No job begins to approve or to sign.
LEMMA JobsKept ==
  ASSUME JobsAgree, \A j \in Jobs : job'[j] = job[j] \/ job'[j].at \notin {"approving"} \cup Sending
  PROVE  JobsAgree'
  BY DEF JobsAgree, Agrees

\* Of an event's handler: it leaves the builds and what was signed alone.
LEMMA TakenKeepsAgreed ==
  ASSUME StateInv, Confirmed, NEW at, Takes(at), UNCHANGED <<build, amiss>>,
         \A j \in Jobs : job'[j] = job[j] \/ job'[j].at \notin {"approving"} \cup Sending, ScreenAgrees'
  PROVE  Confirmed'
<1>1. Waiting' \subseteq Waiting
  BY TakenUp DEF Received
<1>2. SendsAgree' /\ ConfirmsAgree' /\ JobsAgree'
  BY <1>1, SendsKept, JobsKept DEF Confirmed, ConfirmsAgree, Agrees
<1> QED BY <1>2 DEF Confirmed

\* Of an answer's handler likewise.
LEMMA AnswerKeepsAgreed ==
  ASSUME Confirmed, UNCHANGED <<inbox, build, amiss>>, JobsAgree', ScreenAgrees'
  PROVE  Confirmed'
<1>1. Waiting' = Waiting
  BY DEF Waiting
<1>2. SendsAgree' /\ ConfirmsAgree'
  BY <1>1, SendsKept DEF Confirmed, ConfirmsAgree, Agrees
<1> QED BY <1>2 DEF Confirmed

\* Jobs that end, and those that begin with another answer, do not approve.
LEMMA NoneApproves ==
  ASSUME StateInv
  PROVE  /\ \A j \in Jobs : Finishes(j) =>
              \A k \in Jobs : job'[k] = job[k] \/ job'[k].at \notin {"approving"} \cup Sending
         /\ \A at \in {"resolving", "pricing"} : \A c, i : Starts(at, c, i) =>
              \A k \in Jobs : job'[k] = job[k] \/ job'[k].at \notin {"approving"} \cup Sending
<1>1. ASSUME NEW j \in Jobs, Finishes(j), NEW k \in Jobs
      PROVE  job'[k] = job[k] \/ job'[k].at \notin {"approving"} \cup Sending
  <2>1. job'[j] = Idle /\ (k # j => job'[k] = job[k])
    BY <1>1, Finished
  <2>2. Idle.at \notin {"approving"} \cup Sending
    BY DEF Idle, Sending
  <2> QED BY <2>1, <2>2
<1>2. ASSUME NEW at \in {"resolving", "pricing"}, NEW c, NEW i, Starts(at, c, i), NEW k \in Jobs
      PROVE  job'[k] = job[k] \/ job'[k].at \notin {"approving"} \cup Sending
  <2>1. PICK j \in Jobs : /\ job'[j] = [at |-> at, context |-> c, input |-> i]
                          /\ \A l \in Jobs : l # j => job'[l] = job[l]
    BY <1>2, Beginning
  <2>2. job'[j].at = at
    BY <2>1
  <2>3. at \notin {"approving"} \cup Sending
    BY DEF Sending
  <2> QED BY <2>1, <2>2, <2>3
<1> QED BY <1>1, <1>2

\* A context with the same message that shows the same.
LEMMA AgreesAlso ==
  ASSUME NEW c, NEW d, Agrees(d), c.message = d.message, Shown(c) = Shown(d)
  PROVE  Agrees(c)
  BY DEF Agrees

\* Every step keeps it.
LEMMA ConfirmStep == StateInv /\ BuildInv /\ ConfirmInv /\ [SendNext]_sendVars => ConfirmInv'
<1> SUFFICES ASSUME StateInv, BuildInv, ConfirmInv, [SendNext]_sendVars, Without(Unsafe)' PROVE Confirmed'
  BY DEF ConfirmInv
<1>1. /\ mishaps \subseteq mishaps' /\ "event" \notin mishaps' /\ "answer" \notin mishaps' /\ "merge" \notin mishaps'
      /\ "refresh" \notin mishaps' /\ "disorder" \notin mishaps' /\ "repriced" \notin mishaps'
      /\ "early" \notin mishaps'
  BY MishapsGrow DEF Without, Unsafe, Stale
<1>2. Confirmed /\ Without(Stale)
  BY <1>1 DEF ConfirmInv, Without, Unsafe
<1>3. open => BuiltAsShown
  BY <1>2 DEF BuildInv
<1>4. ScreenAgrees /\ SendsAgree /\ ConfirmsAgree /\ JobsAgree /\ ~amiss
  BY <1>2 DEF Confirmed
<1>5. CASE Clicks
  <2>1. PICK at \in EventKinds, i \in Inputs :
          /\ Dispatch(at, i)
          /\ EventOK([at |-> at, context |-> ui, input |-> i])
          /\ mishaps' = IF at = "send" /\ StillBuilding THEN mishaps \cup {"early"} ELSE mishaps
    BY <1>5, ClicksDispatch DEF StateInv
  <2> DEFINE e == [at |-> at, context |-> ui, input |-> i]
  <2>2. Waiting' = Waiting \cup {e} /\ UNCHANGED <<ui, job, build, amiss>> /\ open
    BY <2>1, Dispatched DEF StateInv, Dispatch, building
  <2>3. e.at = at /\ e.context = ui /\ EventOK(e)
    BY <2>1
  <2> HIDE DEF e
  <2>4. JobsAgree' /\ ScreenAgrees' /\ ~amiss'
    BY <1>4, <2>2 DEF JobsAgree, ScreenAgrees, Agrees
  <2>5. at = "send" => timer = None /\ \A b \in Builds : build[b] = NoBuild
    BY <1>1, <2>1 DEF StillBuilding
  <2>6. at = "send" => (Valid(ui) => Agrees(ui))
    BY <1>3, <2>2, <2>5 DEF BuiltAsShown
  <2>7. SendsAgree'
    BY <1>4, <2>2, <2>3, <2>5, <2>6 DEF SendsAgree, Agrees
  <2>8. at = "confirm" => Agrees(ui)
    BY <1>4, <2>3 DEF EventOK, ConfirmationEvents, ScreenAgrees
  <2>9. ConfirmsAgree'
    BY <1>4, <2>2, <2>3, <2>8 DEF ConfirmsAgree, Agrees
  <2> QED BY <2>4, <2>7, <2>9 DEF Confirmed
<1>6. CASE OnDestinationChange
  <2>1. /\ Takes("recipient") /\ UNCHANGED <<build, amiss>> /\ ui'.stage = "form"
        /\ job' = job \/ Starts("resolving", ui', input)
    BY <1>6, RecipientSays
  <2>2. \A j \in Jobs : job'[j] = job[j] \/ job'[j].at \notin {"approving"} \cup Sending
    BY <2>1, NoneApproves
  <2>3. ScreenAgrees'
    BY <2>1 DEF ScreenAgrees
  <2> QED BY <1>2, <2>1, <2>2, <2>3, TakenKeepsAgreed
<1>7. CASE OnAmountChange
  <2>1. Takes("amount") /\ UNCHANGED <<job, build, amiss>> /\ ui'.stage = "form"
    BY <1>1, <1>7, AmountSays
  <2>2. ScreenAgrees'
    BY <2>1 DEF ScreenAgrees
  <2> QED BY <1>2, <2>1, <2>2, TakenKeepsAgreed
<1>8. CASE OnSwapCurrency
  <2>1. Takes("swap") /\ UNCHANGED <<job, build, amiss>> /\ ui'.stage = "form"
    BY <1>8, SwapSays
  <2>2. ScreenAgrees'
    BY <2>1 DEF ScreenAgrees
  <2> QED BY <1>2, <2>1, <2>2, TakenKeepsAgreed
<1>9. CASE OnSend
  <2>1. /\ Takes("send") /\ UNCHANGED <<build, built, amiss>> /\ base.message # None
        /\ \/ UNCHANGED <<ui, job>>
           \/ /\ Valid(base) /\ ui = base /\ ui'.stage = "confirmation"
              /\ SameText(ui', ui) /\ SameSum(ui', ui) /\ SameMessage(ui', ui)
              /\ Starts("pricing", ui', None)
    BY <1>1, <1>9, SendSays
  <2>2. \A j \in Jobs : job'[j] = job[j] \/ job'[j].at \notin {"approving"} \cup Sending
    BY <2>1, NoneApproves
  <2>3. ScreenAgrees'
    <3>1. CASE UNCHANGED <<ui, job>>
      BY <1>4, <2>1, <3>1 DEF ScreenAgrees, Agrees
    <3>2. CASE /\ Valid(base) /\ ui = base /\ ui'.stage = "confirmation"
               /\ SameText(ui', ui) /\ SameSum(ui', ui) /\ SameMessage(ui', ui)
      <4>1. Head(inbox) \in Waiting /\ Head(inbox).at = "send" /\ Head(inbox).context = base /\ open
        BY <2>1, Taken, TakenUp DEF StateInv, base
      <4>2. Agrees(base) /\ \A b \in Builds : build[b] # NoBuild => build[b].number > base.message.number
        BY <1>4, <3>2, <4>1 DEF SendsAgree
      <4>3. base.message.number = built
        BY <1>3, <2>1, <3>2, <4>1 DEF BuiltAsShown
      <4>4. \A b \in Builds : build[b] = NoBuild
        BY <4>2, <4>3 DEF StateInv, FlowInv, BuildOK, Types, BuildingTypes
      <4>5. Shown(ui') = Shown(base) /\ ui'.message = base.message
        BY <3>2, SameShown DEF SameMessage
      <4>6. Does(ui'.message) = Shown(ui')
        BY <2>1, <4>2, <4>5 DEF Agrees
      <4> QED BY <2>1, <4>4, <4>6 DEF ScreenAgrees, Agrees
    <3> QED BY <2>1, <3>1, <3>2
  <2> QED BY <1>2, <2>1, <2>2, <2>3, TakenKeepsAgreed
<1>10. CASE OnBack
  <2>1. Takes("back") /\ UNCHANGED <<job, build, amiss>> /\ ui'.stage = "form"
    BY <1>10, BackSays
  <2>2. ScreenAgrees'
    BY <2>1 DEF ScreenAgrees
  <2> QED BY <1>2, <2>1, <2>2, TakenKeepsAgreed
<1>11. CASE OnConfirm
  <2>1. /\ Takes("confirm") /\ UNCHANGED <<build, amiss>>
        /\ (ui'.stage = "form" /\ job' = job) \/ (Starts("approving", base, None) /\ ui' = ui)
    BY <1>11, ConfirmSays
  <2>2. CASE ui'.stage = "form" /\ job' = job
    <3>1. ScreenAgrees'
      BY <2>2 DEF ScreenAgrees
    <3> QED BY <1>2, <2>1, <2>2, <3>1, TakenKeepsAgreed
  <2>3. CASE Starts("approving", base, None) /\ ui' = ui
    <3>1. /\ Head(inbox) \in Waiting /\ Head(inbox).at = "confirm" /\ Head(inbox).context = base
          /\ Waiting' \subseteq Waiting
      BY <2>1, Taken DEF StateInv, base
    <3>2. Agrees(base)
      BY <1>4, <3>1 DEF ConfirmsAgree
    <3>3. PICK k \in Jobs : /\ job'[k] = [at |-> "approving", context |-> base, input |-> None]
                            /\ \A j \in Jobs : j # k => job'[j] = job[j]
      BY <2>3, Beginning
    <3>4. job'[k].context = base
      BY <3>3
    <3>5. \A j \in Jobs : job'[j] = job[j] \/ job'[j].context = base
      BY <3>3, <3>4
    <3>6. JobsAgree'
      BY <1>4, <3>2, <3>5 DEF JobsAgree, Agrees
    <3>7. ScreenAgrees' /\ SendsAgree' /\ ConfirmsAgree' /\ ~amiss'
      BY <1>4, <2>1, <2>3, <3>1, SendsKept DEF ScreenAgrees, ConfirmsAgree, Agrees
    <3> QED BY <3>6, <3>7 DEF Confirmed
  <2> QED BY <2>1, <2>2, <2>3
<1>12. CASE OnCancel
  <2>1. /\ inbox' = <<>> /\ UNCHANGED <<ui, amiss>> /\ \A b \in Builds : build'[b] = NoBuild
        /\ \A j \in Jobs : job'[j] = job[j] \/ job'[j] = Idle
    BY <1>12 DEF OnCancel
  <2>2. Waiting' = {}
    BY <2>1 DEF Waiting
  <2>3. Idle.at \notin {"approving"} \cup Sending
    BY DEF Idle, Sending
  <2>4. JobsAgree'
    BY <1>4, <2>1, <2>3, JobsKept
  <2> QED BY <1>4, <2>1, <2>2, <2>4 DEF Confirmed, SendsAgree, ConfirmsAgree, ScreenAgrees, Agrees
<1>13. ASSUME NEW j \in Jobs, OnDomainResolved(j) PROVE Confirmed'
  <2>1. Finishes(j) /\ UNCHANGED <<inbox, build, amiss>> /\ ui'.stage = "form"
    BY <1>13, ResolvedSays
  <2>2. JobsAgree' /\ ScreenAgrees'
    BY <1>4, <2>1, NoneApproves, JobsKept DEF ScreenAgrees
  <2> QED BY <1>2, <2>1, <2>2, AnswerKeepsAgreed
<1>14. ASSUME NEW j \in Jobs, OnPriced(j) PROVE Confirmed'
  <2>1. /\ Finishes(j) /\ UNCHANGED <<inbox, build, amiss>> /\ ui.stage = "confirmation"
        /\ ui' \in Contexts /\ ui'.message = ui.message /\ ui'.stage = "confirmation"
        /\ SameText(ui', ui) /\ ui'.amount = ui.amount /\ ui'.fiat = ui.fiat
        /\ ui'.fiat => ui'.price = ui.price
    BY <1>1, <1>14, PricedSays DEF SameMessage
  <2>2. Shown(ui') = Shown(ui)
    BY <2>1, SamePrice
  <2>3. JobsAgree' /\ ScreenAgrees'
    BY <1>4, <2>1, <2>2, NoneApproves, JobsKept DEF ScreenAgrees, Agrees
  <2> QED BY <1>2, <2>1, <2>3, AnswerKeepsAgreed
<1>15. ASSUME NEW j \in Jobs, OnApproved(j) PROVE Confirmed'
  <2>1. /\ job[j].at = "approving" /\ ui.stage = "confirmation" /\ ui'.stage = "pending"
        /\ SameText(ui', held(j)) /\ SameSum(ui', held(j)) /\ ui'.message = held(j).message
        /\ job'[j].context = ui' /\ \A k \in Jobs : k # j => job'[k] = job[k]
        /\ UNCHANGED <<inbox, build, amiss>>
    BY <1>1, <1>15, ApprovedSays DEF SameMessage
  <2>2. Agrees(job[j].context) /\ held(j) = job[j].context
    BY <1>4, <2>1 DEF JobsAgree, held
  <2>3. Shown(ui') = Shown(held(j))
    BY <2>1, SameShown
  <2>4. Agrees(ui')
    BY <2>1, <2>2, <2>3, AgreesAlso
  <2>5. JobsAgree'
    BY <1>4, <2>1, <2>4 DEF JobsAgree, Agrees
  <2>6. ScreenAgrees'
    BY <1>4, <2>1 DEF ScreenAgrees
  <2> QED BY <1>2, <2>1, <2>5, <2>6, AnswerKeepsAgreed
<1>16. ASSUME NEW j \in Jobs, SignAndSend(j) PROVE Confirmed'
  <2>1. /\ job[j].at = "signing" /\ held(j).message # None /\ job'[j].context = held(j)
        /\ \A k \in Jobs : k # j => job'[k] = job[k]
        /\ amiss' = (amiss \/ Shown(held(j)) # Does(held(j).message))
        /\ UNCHANGED <<ui, inbox, build>>
    BY <1>16, SigningSays
  <2>2. Agrees(held(j))
    BY <1>4, <2>1 DEF JobsAgree, held, Sending
  <2>3. ~amiss'
    BY <1>4, <2>1, <2>2 DEF Agrees
  <2>4. JobsAgree'
    BY <1>4, <2>1, <2>2 DEF JobsAgree, Agrees
  <2>5. Waiting' = Waiting /\ ScreenAgrees'
    BY <1>4, <2>1 DEF Waiting, ScreenAgrees, Agrees
  <2>6. SendsAgree' /\ ConfirmsAgree'
    BY <1>4, <2>1, <2>5, SendsKept DEF ConfirmsAgree, Agrees
  <2> QED BY <2>3, <2>4, <2>5, <2>6 DEF Confirmed
<1>17. ASSUME NEW j \in Jobs, Report(j) PROVE Confirmed'
  <2>1. /\ Finishes(j) /\ UNCHANGED <<inbox, build, amiss>>
        /\ ui' = ui \/ (ui.stage = "pending" /\ ui'.stage \in {"success", "failure"})
    BY <1>1, <1>17, ReportSays
  <2>2. JobsAgree'
    BY <1>4, <2>1, NoneApproves, JobsKept
  <2>3. ScreenAgrees'
    BY <1>4, <2>1 DEF ScreenAgrees, Agrees
  <2> QED BY <1>2, <2>1, <2>2, <2>3, AnswerKeepsAgreed
<1>18. ASSUME NEW b \in Builds, BuildStarts(b) PROVE Confirmed'
  <2>1. UNCHANGED <<inbox, job, amiss>> /\ Waiting' = Waiting
    BY <1>18, BuildStartSays DEF Waiting
  <2>2. CASE UNCHANGED <<ui, build, built>>
    BY <1>4, <2>1, <2>2, SendsKept DEF Confirmed, ScreenAgrees, ConfirmsAgree, JobsAgree, Agrees
  <2>3. CASE /\ ui'.stage = "form" /\ built' = built + 1 /\ build'[b].number = built'
             /\ \A d \in Builds : d # b => build'[d] = build[d]
    <3>1. ASSUME NEW e \in Waiting, e.at = "send"
          PROVE  built' > e.context.message.number
      <4>1. e.context \in Contexts /\ e.context.message # None
        <5>1. e \in Events
          BY QueueFacts DEF StateInv, Types, EventTypes, Waiting
        <5>2. EventOK(e)
          BY DEF StateInv, FlowInv
        <5> QED BY <3>1, <5>1, <5>2 DEF Events, EventOK
      <4>2. IsContext(e.context)
        BY <3>1, <4>1, Kept DEF Copies
      <4>3. e.context.message.number \in Nat /\ e.context.message.number <= built /\ built \in Nat
        BY <4>1, <4>2 DEF IsContext, Contexts, Messages, StateInv, Types, BuildingTypes
      <4> QED BY <2>3, <4>3
    <3>2. SendsAgree'
      BY <1>4, <2>1, <2>3, <3>1 DEF SendsAgree, Agrees
    <3> QED BY <1>4, <2>1, <2>3, <3>2 DEF Confirmed, ScreenAgrees, ConfirmsAgree, JobsAgree, Agrees
  <2> QED BY <1>18, <2>2, <2>3, BuildStartSays
<1>19. ASSUME NEW b \in Builds, BuildEnds(b) \/ BuildMerges(b) PROVE Confirmed'
  <2>1. /\ UNCHANGED <<inbox, job, amiss>> /\ build[b] # NoBuild /\ ui'.stage = ui.stage
        /\ ui' = ui \/ build'[b] = NoBuild
        /\ \A d \in Builds : build'[d] # NoBuild => build[d] # NoBuild /\ build'[d].number = build[d].number
    BY <1>1, <1>19, BuildEndSays, MergeSays
  <2>2. ui.stage = "form"
    BY <1>4, <2>1 DEF ScreenAgrees
  <2>3. Waiting' = Waiting
    BY <2>1 DEF Waiting
  <2> QED BY <1>4, <2>1, <2>2, <2>3, SendsKept DEF Confirmed, ScreenAgrees, ConfirmsAgree, JobsAgree, Agrees
<1>20. CASE RefreshReads \/ RefreshWrites
  <2>1. /\ UNCHANGED <<inbox, job, build, amiss>>
        /\ \/ ui' = ui
           \/ /\ ui' \in Contexts /\ SameText(ui', ui) /\ SameMessage(ui', ui) /\ ui'.amount = ui.amount
              /\ ui'.fiat = ui.fiat /\ (ui'.fiat => ui'.price = ui.price) /\ ui'.stage = ui.stage
    BY <1>1, <1>20, RefreshSays
  <2>2. ui'.message = ui.message /\ Shown(ui') = Shown(ui) /\ ui'.stage = ui.stage
    BY <2>1, SamePrice DEF SameMessage
  <2>3. JobsAgree' /\ ScreenAgrees'
    BY <1>4, <2>1, <2>2 DEF JobsAgree, ScreenAgrees, Agrees
  <2> QED BY <1>2, <2>1, <2>3, AnswerKeepsAgreed
<1>21. CASE UNCHANGED sendVars
  <2>1. UNCHANGED <<ui, inbox, job, build, amiss>>
    BY <1>21 DEF sendVars, screen, building, events
  <2>2. JobsAgree' /\ ScreenAgrees'
    BY <1>4, <2>1 DEF JobsAgree, ScreenAgrees, Agrees
  <2> QED BY <1>2, <2>1, <2>2, AnswerKeepsAgreed
<1> QED BY <1>5, <1>6, <1>7, <1>8, <1>9, <1>10, <1>11, <1>12, <1>13, <1>14, <1>15, <1>16, <1>17,
           <1>18, <1>19, <1>20, <1>21 DEF SendNext, Clicks, TakesUp, Handles, BuildsOn

\* In the form first shown, the message is of what it shows.
LEMMA ShownInitially == SendInit => BuildInv /\ ConfirmInv
<1> SUFFICES ASSUME SendInit PROVE BuiltAsShown /\ Confirmed
  BY DEF BuildInv, ConfirmInv
<1>1. /\ inbox = <<>> /\ built = 0 /\ amiss = FALSE /\ timer = None
      /\ \A j \in Jobs : job[j].at = "idle"
      /\ \A b \in Builds : build[b] = NoBuild
  BY DEF SendInit, Idle
<1>2. PICK r \in (Recipients \ Domains) \cup {None}, a \in Amounts :
        LET form == [text |-> r, to |-> r, amount |-> IF r = None THEN 0 ELSE a, fiat |-> FALSE,
                     price |-> FirstPrice, message |-> None, building |-> FALSE, loading |-> FALSE,
                     stage |-> "form"]
        IN ui = IF r = None THEN form
                ELSE [form EXCEPT !.message = [to |-> r, tokens |-> Tokens(form), number |-> 0]]
  BY DEF SendInit
<1>3. Agrees(ui) /\ ui.stage = "form" /\ (ui.message # None => ui.message.number = 0)
  BY <1>2 DEF Agrees, Does, Shown, Tokens
<1>4. Waiting = {}
  BY <1>1 DEF Waiting
<1>5. BuiltAsShown
  BY <1>1, <1>3 DEF BuiltAsShown, Latest
<1>6. Confirmed
  BY <1>1, <1>3, <1>4 DEF Confirmed, SendsAgree, ConfirmsAgree, JobsAgree, ScreenAgrees, Sending
<1> QED BY <1>5, <1>6

\* What is signed is what the confirmation showed, recipient and amount, whatever is typed,
\* clicked, answered and built in between, unless one of the things that are named happened.
THEOREM SignedAsShown == SendSpec => []SignedAsShownUnlessExcused
<1>1. ConfirmInv => SignedAsShownUnlessExcused
  BY DEF ConfirmInv, Confirmed, SignedAsShownUnlessExcused, Without, Unsafe, Stale
<1> QED BY <1>1, ShownInitially, StateInitially, StateStep, BuildStep, ConfirmStep, PTL DEF SendSpec

------------------------------------------------------------------------------
(* What the form holds.                                                    *)

Behind == Unfresh \cup {"disorder", "repriced", "failed"}

\* The address is the one of the recipient, or being resolved; and what is complete has its
\* message, or will.
Resolving == \E j \in Jobs : job[j].at = "resolving" /\ job[j].input = ui.text
Complete ==
  /\ ui.to = ui.text \/ Resolving
  /\ ui.building => \E b \in Builds : Latest(b)
  /\ Valid(ui) => ui.message # None \/ timer # None \/ \E b \in Builds : Latest(b)

FormInv == open /\ Without(Behind) => Complete

\* A context with the same recipient and message.
LEMMA CompleteKept ==
  ASSUME Complete, SameText(ui', ui), SameMessage(ui', ui), Valid(ui') => Valid(ui), UNCHANGED <<timer, built>>,
         \A b \in Builds : Latest(b) => Latest(b)',
         \A j \in Jobs : job[j].at = "resolving" => job'[j] = job[j]
  PROVE  Complete'
  BY DEF Complete, Resolving, SameText, SameMessage

\* Of the jobs, those that resolve a domain go on.
LEMMA ResolvingKept ==
  ASSUME StateInv
  PROVE  /\ \A j \in Jobs : Finishes(j) /\ job[j].at # "resolving" =>
              \A k \in Jobs : job[k].at = "resolving" => job'[k] = job[k]
         /\ \A at, c, i : Starts(at, c, i) => \A k \in Jobs : job[k].at = "resolving" => job'[k] = job[k]
<1>1. ASSUME NEW j \in Jobs, Finishes(j), job[j].at # "resolving", NEW k \in Jobs, job[k].at = "resolving"
      PROVE  job'[k] = job[k]
  BY <1>1, Finished
<1>2. ASSUME NEW at, NEW c, NEW i, Starts(at, c, i), NEW k \in Jobs, job[k].at = "resolving"
      PROVE  job'[k] = job[k]
  <2>1. PICK j \in Jobs : job[j] = Idle /\ \A l \in Jobs : l # j => job'[l] = job[l]
    BY <1>2, Beginning
  <2>2. Idle.at # "resolving"
    BY DEF Idle
  <2> QED BY <1>2, <2>1, <2>2
<1> QED BY <1>1, <1>2

\* Every step keeps it.
LEMMA FormStep == StateInv /\ BuildInv /\ FormInv /\ [SendNext]_sendVars => FormInv'
<1> SUFFICES ASSUME StateInv, BuildInv, FormInv, [SendNext]_sendVars, open', Without(Behind)' PROVE Complete'
  BY DEF FormInv
<1>1. /\ mishaps \subseteq mishaps' /\ "event" \notin mishaps' /\ "answer" \notin mishaps' /\ "merge" \notin mishaps'
      /\ "refresh" \notin mishaps' /\ "build" \notin mishaps' /\ "disorder" \notin mishaps'
      /\ "failed" \notin mishaps'
  BY MishapsGrow DEF Without, Behind, Unfresh
<1>2. open => Complete /\ BuiltAsShown
  BY <1>1 DEF FormInv, BuildInv, Without, Behind, Unfresh, Stale
<1>3. CASE Clicks
  <2>1. UNCHANGED <<ui, open, job, timer, build, built>>
    BY <1>3, ClicksDispatch DEF Dispatch, StateInv, building
  <2> QED BY <1>2, <2>1 DEF Complete, Resolving, Latest
<1>4. CASE OnDestinationChange
  <2>1. /\ open /\ base \in Contexts /\ ui' \in Contexts /\ ui = base /\ ui'.text = input
        /\ SameSum(ui', ui) /\ SameMessage(ui', ui) /\ UNCHANGED <<build, built>>
        /\ \/ ui'.to = ui.to /\ timer' = timer /\ Starts("resolving", ui', input)
           \/ ui'.to = input /\ job' = job /\ (timer' = ui' \/ (input = None /\ timer' = timer))
    BY <1>1, <1>4, RecipientSays
  <2>2. \A b \in Builds : Latest(b) => Latest(b)'
    BY <2>1 DEF Latest
  <2>3. CASE ui'.to = ui.to /\ timer' = timer /\ Starts("resolving", ui', input)
    <3>1. PICK j \in Jobs : job'[j] = [at |-> "resolving", context |-> ui', input |-> input]
      BY <2>3, Beginning
    <3>2. job'[j].at = "resolving" /\ job'[j].input = ui'.text
      BY <2>1, <3>1
    <3>3. Resolving'
      BY <3>2 DEF Resolving
    <3>4. Valid(ui') <=> Valid(ui)
      BY <2>1, <2>3 DEF Valid, SameSum
    <3> QED BY <1>2, <2>1, <2>2, <2>3, <3>3, <3>4 DEF Complete, SameMessage
  <2>4. CASE ui'.to = input /\ (timer' = ui' \/ (input = None /\ timer' = timer))
    <3>1. Valid(ui') => timer' # None
      BY <2>1, <2>4, NoneAssumption DEF Valid
    <3> QED BY <1>2, <2>1, <2>2, <2>4, <3>1 DEF Complete, SameMessage
  <2> QED BY <2>1, <2>3, <2>4
<1>5. CASE OnAmountChange
  <2>1. /\ open /\ ui' \in Contexts /\ ui = base /\ UNCHANGED <<job, build, built>>
        /\ \/ /\ ui'.amount = input /\ SameText(ui', ui) /\ SameMessage(ui', ui)
              /\ timer' = ui' \/ (input = 0 /\ timer' = timer)
           \/ ui' = ui /\ timer' = timer
    BY <1>1, <1>5, AmountSays
  <2>2. CASE ui' = ui /\ timer' = timer
    BY <1>2, <2>1, <2>2 DEF Complete, Resolving, Latest
  <2>3. CASE /\ ui'.amount = input /\ SameText(ui', ui) /\ SameMessage(ui', ui)
             /\ timer' = ui' \/ (input = 0 /\ timer' = timer)
    <3>1. Valid(ui') => timer' # None
      BY <2>1, <2>3, NoneAssumption DEF Valid
    <3> QED BY <1>2, <2>1, <2>3, <3>1 DEF Complete, Resolving, Latest, SameText, SameMessage
  <2> QED BY <2>1, <2>2, <2>3
<1>6. CASE OnSwapCurrency
  <2>1. /\ open /\ SameText(ui', ui) /\ SameMessage(ui', ui) /\ (Valid(ui') => Valid(ui))
        /\ UNCHANGED <<job, timer, build, built>>
    BY <1>1, <1>6, SwapSays
  <2> QED BY <1>2, <2>1, CompleteKept DEF Latest
<1>7. CASE OnSend
  <2>1. /\ open /\ UNCHANGED <<timer, build, built>>
        /\ \/ UNCHANGED <<ui, job>>
           \/ /\ SameText(ui', ui) /\ SameSum(ui', ui) /\ SameMessage(ui', ui)
              /\ Starts("pricing", ui', None)
    BY <1>1, <1>7, SendSays
  <2>2. CASE UNCHANGED <<ui, job>>
    BY <1>2, <2>1, <2>2 DEF Complete, Resolving, Latest
  <2>3. CASE SameText(ui', ui) /\ SameSum(ui', ui) /\ SameMessage(ui', ui) /\ Starts("pricing", ui', None)
    <3>1. \A j \in Jobs : job[j].at = "resolving" => job'[j] = job[j]
      BY <2>3, ResolvingKept
    <3> QED BY <1>2, <2>1, <2>3, <3>1, SameShown, CompleteKept DEF Latest
  <2> QED BY <2>1, <2>2, <2>3
<1>8. CASE OnBack
  <2>1. /\ open /\ UNCHANGED <<job, timer, build, built>>
        /\ SameText(ui', ui) /\ SameSum(ui', ui) /\ SameMessage(ui', ui)
    BY <1>1, <1>8, BackSays
  <2> QED BY <1>2, <2>1, SameShown, CompleteKept DEF Latest
<1>9. CASE OnConfirm
  <2>1. /\ open /\ UNCHANGED <<timer, build, built>>
        /\ \/ /\ SameText(ui', ui) /\ SameSum(ui', ui) /\ SameMessage(ui', ui) /\ job' = job
           \/ ui' = ui /\ Starts("approving", base, None)
    BY <1>1, <1>9, ConfirmSays
  <2>2. SameText(ui', ui) /\ SameMessage(ui', ui) /\ (Valid(ui') => Valid(ui))
    BY <2>1, SameShown DEF SameText, SameMessage
  <2>3. \A j \in Jobs : job[j].at = "resolving" => job'[j] = job[j]
    BY <2>1, ResolvingKept
  <2> QED BY <1>2, <2>1, <2>2, <2>3, CompleteKept DEF Latest
<1>10. CASE OnCancel
  BY <1>10 DEF OnCancel
<1>11. ASSUME NEW j \in Jobs, OnDomainResolved(j) PROVE Complete'
  <2>1. /\ open /\ ui' \in Contexts /\ ui'.text = ui'.to /\ timer' = ui' /\ SameMessage(ui', ui)
        /\ UNCHANGED <<build, built>>
    BY <1>1, <1>11, ResolvedSays
  <2> QED BY <1>2, <2>1, NoneAssumption DEF Complete, Latest, SameMessage
<1>12. ASSUME NEW j \in Jobs, OnPriced(j) PROVE Complete'
  <2>1. /\ open /\ UNCHANGED <<timer, build, built>> /\ SameText(ui', ui) /\ SameMessage(ui', ui)
        /\ ui'.amount = ui.amount /\ Finishes(j) /\ job[j].at # "resolving"
    BY <1>1, <1>12, PricedSays
  <2>2. (Valid(ui') => Valid(ui)) /\ \A k \in Jobs : job[k].at = "resolving" => job'[k] = job[k]
    BY <2>1, ResolvingKept DEF Valid, SameText
  <2> QED BY <1>2, <2>1, <2>2, CompleteKept DEF Latest
<1>13. ASSUME NEW j \in Jobs, OnApproved(j) PROVE Complete'
  <2>1. /\ open /\ UNCHANGED <<timer, build, built>> /\ job[j].at # "resolving"
        /\ SameText(ui', ui) /\ SameSum(ui', ui) /\ SameMessage(ui', ui)
        /\ \A k \in Jobs : k # j => job'[k] = job[k]
    BY <1>1, <1>13, ApprovedSays
  <2> QED BY <1>2, <2>1, SameShown, CompleteKept DEF Latest
<1>14. ASSUME NEW j \in Jobs, SignAndSend(j) PROVE Complete'
  <2>1. /\ UNCHANGED <<ui, open, timer, build, built>> /\ job[j].at # "resolving"
        /\ \A k \in Jobs : k # j => job'[k] = job[k]
    BY <1>14, SigningSays
  <2> QED BY <1>2, <2>1, CompleteKept DEF Latest, SameText, SameMessage
<1>15. ASSUME NEW j \in Jobs, Report(j) PROVE Complete'
  <2>1. /\ open /\ UNCHANGED <<timer, build, built>> /\ Finishes(j) /\ job[j].at # "resolving"
        /\ SameText(ui', ui) /\ SameSum(ui', ui) /\ SameMessage(ui', ui)
    BY <1>1, <1>15, ReportSays
  <2>2. \A k \in Jobs : job[k].at = "resolving" => job'[k] = job[k]
    BY <2>1, ResolvingKept
  <2> QED BY <1>2, <2>1, <2>2, SameShown, CompleteKept DEF Latest
<1>16. ASSUME NEW b \in Builds, BuildStarts(b) PROVE Complete'
  <2>1. /\ open /\ job' = job
        /\ \/ ~Valid(timer) /\ UNCHANGED <<ui, build, built>>
           \/ /\ SameText(ui', ui) /\ SameSum(ui', ui) /\ ui'.message = None
              /\ build'[b] # NoBuild /\ build'[b].number = built'
    BY <1>1, <1>16, BuildStartSays
  <2>2. CASE ~Valid(timer) /\ UNCHANGED <<ui, build, built>>
    <3>1. ~Valid(ui)
      BY <1>2, <2>1, <2>2, <1>16, BuildStartSays, NoneAssumption DEF BuiltAsShown
    <3> QED BY <1>2, <2>1, <2>2, <3>1 DEF Complete, Resolving, Latest, Valid
  <2>3. CASE SameText(ui', ui) /\ build'[b] # NoBuild /\ build'[b].number = built'
    <3>1. Latest(b)'
      BY <2>3 DEF Latest
    <3> QED BY <1>2, <2>1, <2>3, <3>1 DEF Complete, Resolving, SameText
  <2> QED BY <2>1, <2>2, <2>3
<1>17. ASSUME NEW b \in Builds, BuildEnds(b) PROVE Complete'
  <2>1. \A d \in Builds : Latest(d) => Latest(d)'
    BY <1>17, BuildEndSays DEF Latest
  <2>2. UNCHANGED <<ui, open, job, timer, built>>
    BY <1>17, BuildEndSays
  <2> QED BY <1>2, <2>1, <2>2, CompleteKept DEF SameText, SameMessage
<1>18. ASSUME NEW b \in Builds, BuildMerges(b) PROVE Complete'
  <2>1. /\ BuildOK(b) /\ build[b] # NoBuild /\ ui'.message = build[b].message /\ ~ui'.building
        /\ SameText(ui', ui) /\ UNCHANGED <<open, job>>
    BY <1>1, <1>18, MergeSays
  <2>2. ui'.message # None
    BY <1>1, <2>1 DEF BuildOK
  <2> QED BY <1>2, <2>1, <2>2 DEF Complete, Resolving, SameText
<1>19. CASE RefreshReads \/ RefreshWrites
  <2>1. /\ UNCHANGED <<open, job, timer, build, built>>
        /\ ui' = ui \/ (SameText(ui', ui) /\ SameMessage(ui', ui) /\ ui'.amount = ui.amount)
    BY <1>1, <1>19, RefreshSays
  <2>2. SameText(ui', ui) /\ SameMessage(ui', ui) /\ (Valid(ui') => Valid(ui))
    BY <2>1 DEF SameText, SameMessage, Valid
  <2> QED BY <1>2, <2>1, <2>2, CompleteKept DEF Latest
<1>20. CASE UNCHANGED sendVars
  BY <1>2, <1>20 DEF Complete, Resolving, Latest, Valid, sendVars, screen, building, events
<1> QED BY <1>3, <1>4, <1>5, <1>6, <1>7, <1>8, <1>9, <1>10, <1>11, <1>12, <1>13, <1>14, <1>15, <1>16, <1>17,
           <1>18, <1>19, <1>20 DEF SendNext, Clicks, TakesUp, Handles, BuildsOn

------------------------------------------------------------------------------
(* What the form holds and its inputs show.                                *)

\* The events whose handlers write, and those that came from what the screen still is.
Acts(e) == (e.at = "send" => Valid(e.context)) /\ (e.at = "confirm" => e.context.message = None)
Fits(e) == e.context.stage = ui.stage /\ e.context.fiat = ui.fiat

\* The next event that writes came from an older screen.
Doomed == \E i \in DOMAIN inbox : Acts(inbox[i]) /\ \A h \in 1..i : Acts(inbox[h]) => ~Fits(inbox[h])

LastOf(at, i) == i \in DOMAIN inbox /\ inbox[i].at = at /\ \A h \in DOMAIN inbox : h > i => inbox[h].at # at

\* Otherwise all of them fit, and what is typed is what the last of them brings, or is there.
TextFollows ==
  /\ \A i \in DOMAIN inbox : LastOf("recipient", i) => typed.text = inbox[i].input
  /\ (\A i \in DOMAIN inbox : inbox[i].at # "recipient") => typed.text = ui.text
AmountFollows ==
  /\ \A i \in DOMAIN inbox : LastOf("amount", i) => typed.amount = inbox[i].input
  /\ (\A i \in DOMAIN inbox : inbox[i].at # "amount") => typed.amount = ui.amount
Follows ==
  /\ \A i \in DOMAIN inbox : Acts(inbox[i]) => Fits(inbox[i])
  /\ TextFollows /\ AmountFollows

TypedInv == open /\ Without(Behind) => Doomed \/ Follows

\* The inbox as it was, and the screen as well, in what counts here.
LEMMA FollowsKept ==
  ASSUME Doomed \/ Follows, UNCHANGED <<inbox, typed>>, ui'.stage = ui.stage, ui'.fiat = ui.fiat,
         ui'.text = ui.text, ui'.amount = ui.amount
  PROVE  (Doomed \/ Follows)'
<1>1. CASE Doomed
  BY <1>1 DEF Doomed, Acts, Fits, Valid
<1>2. CASE Follows
  BY <1>2 DEF Follows, TextFollows, AmountFollows, LastOf, Acts, Fits, Valid
<1> QED BY <1>1, <1>2

\* The inbox as it was, and a screen that none of its events came from.
LEMMA FollowsPast ==
  ASSUME StateInv, Doomed \/ Follows, UNCHANGED <<inbox, typed>>, ui'.stage \notin {"form", "confirmation"},
         ui'.text = ui.text, ui'.amount = ui.amount
  PROVE  (Doomed \/ Follows)'
<1>1. \A i \in DOMAIN inbox : ~Fits(inbox[i])' /\ (Acts(inbox[i])' <=> Acts(inbox[i]))
  BY DEF StateInv, FlowInv, EventOK, Waiting, Fits, Acts, Valid
<1>2. /\ Len(inbox) \in Nat /\ DOMAIN inbox = 1..Len(inbox)
  BY QueueFacts DEF StateInv, Types, EventTypes
<1>3. CASE \E i \in DOMAIN inbox : Acts(inbox[i])
  <2>1. PICK i \in DOMAIN inbox : Acts(inbox[i])
    BY <1>3
  <2>2. \A h \in 1..i : ~Fits(inbox[h])'
    BY <1>1, <1>2
  <2>3. Doomed'
    BY <1>1, <2>1, <2>2 DEF Doomed
  <2> QED BY <2>3
<1>4. CASE \A i \in DOMAIN inbox : ~Acts(inbox[i])
  <2>1. Follows
    BY <1>4 DEF Doomed
  <2>2. Follows'
    BY <1>1, <1>4, <2>1 DEF Follows, TextFollows, AmountFollows, LastOf
  <2> QED BY <2>2
<1> QED BY <1>3, <1>4

\* The first event is taken up.
LEMMA Shifted ==
  ASSUME StateInv, NEW at, Takes(at)
  PROVE  /\ Len(inbox) \in Nat \ {0} /\ DOMAIN inbox = 1..Len(inbox) /\ DOMAIN inbox' = 1..(Len(inbox) - 1)
         /\ inbox[1].at = at /\ inbox[1].context = base /\ inbox[1].input = input
         /\ \A i \in DOMAIN inbox' : i + 1 \in DOMAIN inbox /\ inbox'[i] = inbox[i + 1]
         /\ \A i \in DOMAIN inbox : i = 1 \/ (i - 1 \in DOMAIN inbox' /\ inbox'[i - 1] = inbox[i])
  BY QueueFacts DEF StateInv, Types, EventTypes, Takes, base, input

\* It writes, in place: then the next event that writes was no other, and came from this screen.
LEMMA NotDoomed ==
  ASSUME StateInv, Doomed \/ Follows, NEW at, Takes(at), Acts(inbox[1]), ui = base
  PROVE  Follows
<1>1. inbox[1].context = base /\ Fits(inbox[1])
  BY Shifted DEF Fits
<1>2. ~Doomed
  BY <1>1, Shifted DEF Doomed
<1> QED BY <1>2

\* It does not write.
LEMMA FollowsSkipped ==
  ASSUME StateInv, Doomed \/ Follows, NEW at \in {"send", "confirm"}, Takes(at), ~Acts(inbox[1]),
         UNCHANGED <<ui, typed>>
  PROVE  (Doomed \/ Follows)'
<1>1. /\ Len(inbox) \in Nat \ {0} /\ DOMAIN inbox = 1..Len(inbox) /\ DOMAIN inbox' = 1..(Len(inbox) - 1)
      /\ inbox[1].at = at
      /\ \A i \in DOMAIN inbox' : i + 1 \in DOMAIN inbox /\ inbox'[i] = inbox[i + 1]
      /\ \A i \in DOMAIN inbox : i = 1 \/ (i - 1 \in DOMAIN inbox' /\ inbox'[i - 1] = inbox[i])
  BY Shifted
<1>2. \A e : (Acts(e)' <=> Acts(e)) /\ (Fits(e)' <=> Fits(e))
  BY DEF Acts, Fits, Valid
<1>3. CASE Doomed
  <2>1. PICK i \in DOMAIN inbox : Acts(inbox[i]) /\ \A h \in 1..i : Acts(inbox[h]) => ~Fits(inbox[h])
    BY <1>3 DEF Doomed
  <2>2. i # 1 /\ i - 1 \in DOMAIN inbox' /\ inbox'[i - 1] = inbox[i]
    BY <1>1, <2>1
  <2>3. \A h \in 1..(i - 1) : h + 1 \in 1..i /\ inbox'[h] = inbox[h + 1]
    BY <1>1, <2>2
  <2>4. Acts(inbox'[i - 1]) /\ \A h \in 1..(i - 1) : Acts(inbox'[h]) => ~Fits(inbox'[h])
    BY <2>1, <2>2, <2>3
  <2>5. Doomed'
    BY <2>2, <2>4 DEF Doomed, Acts, Fits, Valid
  <2> QED BY <2>5
<1>4. CASE Follows
  <2>1. ASSUME NEW k \in {"recipient", "amount"}, NEW i \in DOMAIN inbox', LastOf(k, i)'
        PROVE  LastOf(k, i + 1) /\ inbox'[i] = inbox[i + 1]
    BY <1>1, <2>1 DEF LastOf
  <2>2. ASSUME NEW k \in {"recipient", "amount"}, \A i \in DOMAIN inbox' : inbox'[i].at # k
        PROVE  \A i \in DOMAIN inbox : inbox[i].at # k
    BY <1>1, <2>2
  <2>3. TextFollows'
    BY <1>1, <1>4, <2>1, <2>2 DEF Follows, TextFollows
  <2>4. AmountFollows'
    BY <1>1, <1>4, <2>1, <2>2 DEF Follows, AmountFollows
  <2>5. \A i \in DOMAIN inbox' : Acts(inbox'[i]) => Fits(inbox'[i])
    BY <1>1, <1>4 DEF Follows
  <2>6. Follows'
    BY <2>3, <2>4, <2>5 DEF Follows, Acts, Fits, Valid
  <2> QED BY <2>6
<1> QED BY <1>3, <1>4

\* It writes, and the screen is no more what the events came from that wait.
LEMMA FollowsTurned ==
  ASSUME StateInv, Follows, NEW at, Takes(at), at \notin {"recipient", "amount"}, Acts(inbox[1]),
         ui'.stage # ui.stage \/ ui'.fiat # ui.fiat,
         ui'.text = ui.text, typed.text = ui.text => typed'.text = ui'.text,
         typed.amount = ui.amount => typed'.amount = ui'.amount
  PROVE  (Doomed \/ Follows)'
<1>1. /\ Len(inbox) \in Nat \ {0} /\ DOMAIN inbox = 1..Len(inbox) /\ DOMAIN inbox' = 1..(Len(inbox) - 1)
      /\ inbox[1].at = at
      /\ \A i \in DOMAIN inbox' : i + 1 \in DOMAIN inbox /\ inbox'[i] = inbox[i + 1]
      /\ \A i \in DOMAIN inbox : i = 1 \/ (i - 1 \in DOMAIN inbox' /\ inbox'[i - 1] = inbox[i])
  BY Shifted
<1>2. \A i \in DOMAIN inbox' : Acts(inbox'[i]) =>
        ~(inbox'[i].context.stage = ui'.stage /\ inbox'[i].context.fiat = ui'.fiat)
  BY <1>1 DEF Follows, Fits
<1>3. CASE \E i \in DOMAIN inbox' : Acts(inbox'[i])
  <2>1. PICK i \in DOMAIN inbox' : Acts(inbox'[i])
    BY <1>3
  <2>2. \A h \in 1..i : h \in DOMAIN inbox'
    BY <1>1
  <2>3. Doomed'
    BY <1>2, <2>1, <2>2 DEF Doomed, Acts, Fits, Valid
  <2> QED BY <2>3
<1>4. CASE \A i \in DOMAIN inbox' : ~Acts(inbox'[i])
  <2>1. \A i \in DOMAIN inbox' : inbox'[i].at \notin {"recipient", "amount"}
    BY <1>4 DEF Acts
  <2>2. \A i \in DOMAIN inbox : inbox[i].at \notin {"recipient", "amount"}
    BY <1>1, <2>1
  <2>3. typed.text = ui.text /\ typed.amount = ui.amount
    BY <2>2 DEF Follows, TextFollows, AmountFollows
  <2>4. TextFollows' /\ AmountFollows'
    BY <2>1, <2>3 DEF TextFollows, AmountFollows, LastOf
  <2>5. Follows'
    BY <1>4, <2>4 DEF Follows, Acts, Valid
  <2> QED BY <2>5
<1> QED BY <1>3, <1>4

\* It writes what was typed.
LEMMA FollowsTyped ==
  ASSUME StateInv, Follows, NEW at \in {"recipient", "amount"}, Takes(at), typed' = typed,
         ui'.stage = ui.stage, ui'.fiat = ui.fiat,
         ui'.text = (IF at = "recipient" THEN input ELSE ui.text),
         ui'.amount = (IF at = "amount" THEN input ELSE ui.amount)
  PROVE  Follows'
<1>1. /\ Len(inbox) \in Nat \ {0} /\ DOMAIN inbox = 1..Len(inbox) /\ DOMAIN inbox' = 1..(Len(inbox) - 1)
      /\ inbox[1].at = at /\ inbox[1].input = input
      /\ \A i \in DOMAIN inbox' : i + 1 \in DOMAIN inbox /\ inbox'[i] = inbox[i + 1]
      /\ \A i \in DOMAIN inbox : i = 1 \/ (i - 1 \in DOMAIN inbox' /\ inbox'[i - 1] = inbox[i])
  BY Shifted
<1>2. ASSUME NEW k \in {"recipient", "amount"}, NEW i \in DOMAIN inbox', LastOf(k, i)'
      PROVE  LastOf(k, i + 1) /\ inbox'[i] = inbox[i + 1]
  BY <1>1, <1>2 DEF LastOf
<1>3. ASSUME NEW k \in {"recipient", "amount"}, \A i \in DOMAIN inbox' : inbox'[i].at # k
      PROVE  IF at = k THEN LastOf(k, 1) ELSE \A i \in DOMAIN inbox : inbox[i].at # k
  <2>1. \A i \in DOMAIN inbox : i = 1 \/ inbox[i].at # k
    BY <1>1, <1>3
  <2>2. 1 \in DOMAIN inbox
    BY <1>1
  <2> QED BY <1>1, <2>1, <2>2 DEF LastOf
<1>4. TextFollows'
  <2>1. ASSUME \A i \in DOMAIN inbox' : inbox'[i].at # "recipient" PROVE typed.text = ui'.text
    <3>1. CASE at = "recipient"
      BY <1>1, <1>3, <2>1, <3>1 DEF Follows, TextFollows
    <3>2. CASE at # "recipient"
      BY <1>3, <2>1, <3>2 DEF Follows, TextFollows
    <3> QED BY <3>1, <3>2
  <2> QED BY <1>1, <1>2, <2>1 DEF Follows, TextFollows
<1>5. AmountFollows'
  <2>1. ASSUME \A i \in DOMAIN inbox' : inbox'[i].at # "amount" PROVE typed.amount = ui'.amount
    <3>1. CASE at = "amount"
      BY <1>1, <1>3, <2>1, <3>1 DEF Follows, AmountFollows
    <3>2. CASE at # "amount"
      BY <1>3, <2>1, <3>2 DEF Follows, AmountFollows
    <3> QED BY <3>1, <3>2
  <2> QED BY <1>1, <1>2, <2>1 DEF Follows, AmountFollows
<1>6. \A i \in DOMAIN inbox' :
        Acts(inbox'[i]) => inbox'[i].context.stage = ui'.stage /\ inbox'[i].context.fiat = ui'.fiat
  BY <1>1 DEF Follows, Fits
<1> QED BY <1>4, <1>5, <1>6 DEF Follows, Acts, Fits, Valid

\* An event is dispatched, of the screen there is, and what it brings is what is typed.
LEMMA ClicksFollow ==
  ASSUME StateInv, Clicks, Doomed \/ Follows
  PROVE  (Doomed \/ Follows)'
<1>1. PICK at \in EventKinds, i \in Inputs : Dispatch(at, i) /\ typed' = TypedBy(at, i)
  BY ClicksDispatch DEF StateInv
<1> DEFINE e == [at |-> at, context |-> ui, input |-> i]
           n == Len(inbox)
<1>2. /\ n \in Nat /\ DOMAIN inbox = 1..n /\ DOMAIN inbox' = 1..(n + 1)
      /\ \A k \in DOMAIN inbox : inbox'[k] = inbox[k]
      /\ inbox'[n + 1] = e
  <2>1. e \in Events /\ inbox' = Append(inbox, e) /\ inbox \in Seq(Events)
    BY <1>1, Dispatched DEF StateInv, Types, EventTypes
  <2> HIDE DEF e
  <2> QED BY <2>1, QueueFacts
<1>3. ui' = ui
  BY <1>1 DEF Dispatch
<1>4. e.at = at /\ e.input = i /\ e.context = ui
  OBVIOUS
<1>5. /\ typed'.text = IF at = "recipient" THEN i ELSE typed.text
      /\ typed'.amount = IF at = "amount" THEN i ELSE typed.amount
  BY <1>1 DEF TypedBy
<1> HIDE DEF e, n
<1>6. CASE Doomed
  <2>1. PICK k \in DOMAIN inbox : Acts(inbox[k]) /\ \A h \in 1..k : Acts(inbox[h]) => ~Fits(inbox[h])
    BY <1>6 DEF Doomed
  <2>2. k \in DOMAIN inbox' /\ inbox'[k] = inbox[k] /\ \A h \in 1..k : inbox'[h] = inbox[h]
    BY <1>2
  <2>3. Doomed'
    BY <1>3, <2>1, <2>2 DEF Doomed, Acts, Fits, Valid
  <2> QED BY <2>3
<1>7. CASE Follows
  <2>1. ASSUME NEW f \in {"recipient", "amount"}, NEW k \in DOMAIN inbox', LastOf(f, k)'
        PROVE  IF at = f THEN inbox'[k] = e ELSE LastOf(f, k) /\ inbox'[k] = inbox[k]
    <3>1. n + 1 \in DOMAIN inbox'
      BY <1>2
    <3>2. CASE at = f
      BY <1>2, <1>4, <2>1, <3>1, <3>2 DEF LastOf
    <3>3. CASE at # f
      <4>1. k # n + 1
        BY <1>2, <1>4, <2>1, <3>3 DEF LastOf
      <4>2. k \in DOMAIN inbox
        BY <1>2, <4>1
      <4> QED BY <1>2, <2>1, <3>3, <4>2 DEF LastOf
    <3> QED BY <3>2, <3>3
  <2>2. ASSUME NEW f \in {"recipient", "amount"}, \A k \in DOMAIN inbox' : inbox'[k].at # f
        PROVE  at # f /\ \A k \in DOMAIN inbox : inbox[k].at # f
    BY <1>2, <1>4, <2>2
  <2>3. TextFollows'
    <3>1. ASSUME NEW k \in DOMAIN inbox', LastOf("recipient", k)' PROVE typed'.text = inbox'[k].input
      <4>1. CASE at = "recipient"
        BY <1>4, <1>5, <2>1, <3>1, <4>1
      <4>2. CASE at # "recipient"
        <5>1. LastOf("recipient", k) /\ inbox'[k] = inbox[k] /\ k \in DOMAIN inbox
          BY <2>1, <3>1, <4>2 DEF LastOf
        <5> QED BY <1>5, <1>7, <4>2, <5>1 DEF Follows, TextFollows
      <4> QED BY <4>1, <4>2
    <3>2. ASSUME \A k \in DOMAIN inbox' : inbox'[k].at # "recipient" PROVE typed'.text = ui'.text
      BY <1>3, <1>5, <1>7, <2>2, <3>2 DEF Follows, TextFollows
    <3> QED BY <3>1, <3>2 DEF TextFollows
  <2>4. AmountFollows'
    <3>1. ASSUME NEW k \in DOMAIN inbox', LastOf("amount", k)' PROVE typed'.amount = inbox'[k].input
      <4>1. CASE at = "amount"
        BY <1>4, <1>5, <2>1, <3>1, <4>1
      <4>2. CASE at # "amount"
        <5>1. LastOf("amount", k) /\ inbox'[k] = inbox[k] /\ k \in DOMAIN inbox
          BY <2>1, <3>1, <4>2 DEF LastOf
        <5> QED BY <1>5, <1>7, <4>2, <5>1 DEF Follows, AmountFollows
      <4> QED BY <4>1, <4>2
    <3>2. ASSUME \A k \in DOMAIN inbox' : inbox'[k].at # "amount" PROVE typed'.amount = ui'.amount
      BY <1>3, <1>5, <1>7, <2>2, <3>2 DEF Follows, AmountFollows
    <3> QED BY <3>1, <3>2 DEF AmountFollows
  <2>5. \A k \in DOMAIN inbox' : Acts(inbox'[k]) => inbox'[k].context.stage = ui.stage /\ inbox'[k].context.fiat = ui.fiat
    BY <1>2, <1>4, <1>7 DEF Follows, Fits
  <2>6. Follows'
    BY <1>3, <2>3, <2>4, <2>5 DEF Follows, Acts, Fits, Valid
  <2> QED BY <2>6
<1> QED BY <1>6, <1>7

\* Every step keeps it.
LEMMA TypedStep == StateInv /\ TypedInv /\ [SendNext]_sendVars => TypedInv'
<1> SUFFICES ASSUME StateInv, TypedInv, [SendNext]_sendVars, open', Without(Behind)' PROVE (Doomed \/ Follows)'
  BY DEF TypedInv
<1>1. /\ mishaps \subseteq mishaps' /\ "event" \notin mishaps' /\ "answer" \notin mishaps' /\ "merge" \notin mishaps'
      /\ "refresh" \notin mishaps' /\ "build" \notin mishaps' /\ "failed" \notin mishaps'
  BY MishapsGrow DEF Without, Behind, Unfresh
<1>2. open => Doomed \/ Follows
  BY <1>1 DEF TypedInv, Without, Behind, Unfresh
<1>3. CASE Clicks
  <2>1. open
    BY <1>3, ClicksDispatch DEF Dispatch, StateInv
  <2> QED BY <1>2, <1>3, <2>1, ClicksFollow
<1>4. ASSUME NEW at, Takes(at), Acts(inbox[1]), ui = base, open PROVE Follows
  BY <1>2, <1>4, NotDoomed
<1>5. CASE OnDestinationChange
  <2>1. /\ Takes("recipient") /\ ui = base /\ ui'.text = input /\ ui'.stage = ui.stage /\ SameSum(ui', ui)
        /\ open /\ typed' = typed
    BY <1>1, <1>5, RecipientSays
  <2>2. Acts(inbox[1])
    BY <2>1, Shifted DEF Acts
  <2>3. Follows
    BY <1>4, <2>1, <2>2
  <2> QED BY <2>1, <2>3, FollowsTyped DEF SameSum
<1>6. CASE OnAmountChange
  <2>1. /\ Takes("amount") /\ ui = base /\ open /\ typed' = typed
        /\ \/ ui'.amount = input /\ ui'.fiat = ui.fiat /\ ui'.stage = ui.stage /\ SameText(ui', ui)
           \/ ui' = ui /\ input = 0 /\ ui.amount = 0
    BY <1>1, <1>6, AmountSays
  <2>2. Acts(inbox[1])
    BY <2>1, Shifted DEF Acts
  <2>3. Follows
    BY <1>4, <2>1, <2>2
  <2> QED BY <2>1, <2>3, FollowsTyped DEF SameText
<1>7. CASE OnSwapCurrency
  <2>1. /\ Takes("swap") /\ ui = base /\ open /\ ui'.fiat = ~ui.fiat /\ ui'.text = ui.text
        /\ typed'.text = typed.text /\ typed'.amount = ui'.amount /\ base \in Contexts
    BY <1>1, <1>7, SwapSays DEF SameText
  <2>2. Acts(inbox[1])
    BY <2>1, Shifted DEF Acts
  <2>3. Follows
    BY <1>4, <2>1, <2>2
  <2>4. ui'.fiat # ui.fiat
    BY <2>1 DEF Contexts
  <2> QED BY <2>1, <2>2, <2>3, <2>4, FollowsTurned
<1>8. CASE OnSend
  <2>1. /\ Takes("send") /\ open /\ typed' = typed /\ base.stage = "form"
        /\ \/ ~Valid(base) /\ ui' = ui
           \/ /\ Valid(base) /\ ui = base /\ ui'.stage = "confirmation"
              /\ SameText(ui', ui) /\ SameSum(ui', ui)
    BY <1>1, <1>8, SendSays
  <2>2. Acts(inbox[1]) <=> Valid(base)
    BY <2>1, Shifted DEF Acts
  <2>3. CASE ~Valid(base) /\ ui' = ui
    BY <1>2, <2>1, <2>2, <2>3, FollowsSkipped
  <2>4. CASE /\ Valid(base) /\ ui = base /\ ui'.stage = "confirmation"
             /\ SameText(ui', ui) /\ SameSum(ui', ui)
    <3>1. Follows
      BY <1>4, <2>1, <2>2, <2>4
    <3>2. ui'.stage # ui.stage /\ ui'.text = ui.text /\ ui'.amount = ui.amount
      BY <2>1, <2>4 DEF SameText, SameSum
    <3> QED BY <2>1, <2>2, <2>4, <3>1, <3>2, FollowsTurned
  <2> QED BY <2>1, <2>3, <2>4
<1>9. CASE OnBack
  <2>1. /\ Takes("back") /\ open /\ ui = base /\ ui.stage = "confirmation" /\ ui'.stage = "form"
        /\ ui'.text = ui.text /\ ui'.amount = ui.amount /\ typed' = [text |-> ui.text, amount |-> ui.amount]
    BY <1>1, <1>9, BackSays DEF SameText, SameSum
  <2>2. Acts(inbox[1])
    BY <2>1, Shifted DEF Acts
  <2>3. Follows
    BY <1>4, <2>1, <2>2
  <2>4. ui'.stage # ui.stage /\ typed'.text = ui'.text /\ typed'.amount = ui'.amount
    BY <2>1
  <2> QED BY <2>1, <2>2, <2>3, <2>4, FollowsTurned
<1>10. CASE OnConfirm
  <2>1. /\ Takes("confirm") /\ open /\ typed' = typed /\ base.stage = "confirmation"
        /\ \/ /\ base.message = None /\ ui = base /\ ui'.stage = "form"
              /\ SameText(ui', ui) /\ SameSum(ui', ui)
           \/ base.message # None /\ ui' = ui
    BY <1>1, <1>10, ConfirmSays
  <2>2. Acts(inbox[1]) <=> base.message = None
    BY <2>1, Shifted DEF Acts
  <2>3. CASE base.message # None /\ ui' = ui
    BY <1>2, <2>1, <2>2, <2>3, FollowsSkipped
  <2>4. CASE /\ base.message = None /\ ui = base /\ ui'.stage = "form"
             /\ SameText(ui', ui) /\ SameSum(ui', ui)
    <3>1. Follows
      BY <1>4, <2>1, <2>2, <2>4
    <3>2. ui'.stage # ui.stage /\ ui'.text = ui.text /\ ui'.amount = ui.amount
      BY <2>1, <2>4 DEF SameText, SameSum
    <3> QED BY <2>1, <2>2, <2>4, <3>1, <3>2, FollowsTurned
  <2> QED BY <2>1, <2>3, <2>4
<1>11. CASE OnCancel
  BY <1>11 DEF OnCancel
<1>12. ASSUME NEW j \in Jobs, OnDomainResolved(j) PROVE (Doomed \/ Follows)'
  <2>1. /\ open /\ UNCHANGED <<inbox, typed>> /\ ui'.stage = ui.stage /\ ui'.text = ui.text /\ SameSum(ui', ui)
    BY <1>1, <1>12, ResolvedSays
  <2> QED BY <1>2, <2>1, FollowsKept DEF SameSum
<1>13. ASSUME NEW j \in Jobs, OnPriced(j) PROVE (Doomed \/ Follows)'
  <2>1. /\ open /\ UNCHANGED <<inbox, typed>> /\ ui'.stage = ui.stage /\ SameText(ui', ui)
        /\ ui'.amount = ui.amount /\ ui'.fiat = ui.fiat
    BY <1>1, <1>13, PricedSays
  <2> QED BY <1>2, <2>1, FollowsKept DEF SameText
<1>14. ASSUME NEW j \in Jobs, OnApproved(j) PROVE (Doomed \/ Follows)'
  <2>1. /\ open /\ UNCHANGED <<inbox, typed>> /\ ui'.stage = "pending" /\ SameText(ui', ui) /\ SameSum(ui', ui)
    BY <1>1, <1>14, ApprovedSays
  <2>2. ui'.stage \notin {"form", "confirmation"}
    BY <2>1
  <2> QED BY <1>2, <2>1, <2>2, FollowsPast DEF SameText, SameSum
<1>15. ASSUME NEW j \in Jobs, SignAndSend(j) PROVE (Doomed \/ Follows)'
  BY <1>2, <1>15, SigningSays, FollowsKept
<1>16. ASSUME NEW j \in Jobs, Report(j) PROVE (Doomed \/ Follows)'
  <2>0. /\ UNCHANGED <<open, inbox, typed>>
        /\ \/ /\ ui = held(j) \/ "answer" \in mishaps'
              /\ ui'.stage \in {"success", "failure"} /\ SameText(ui', held(j)) /\ SameSum(ui', held(j))
           \/ ui' = ui /\ ~open
    BY <1>16, ReportSays
  <2>1. open /\ UNCHANGED <<inbox, typed>> /\ SameText(ui', ui) /\ SameSum(ui', ui)
    BY <1>1, <2>0
  <2>2. ui'.stage \notin {"form", "confirmation"}
    BY <1>1, <2>0
  <2> QED BY <1>2, <2>1, <2>2, FollowsPast DEF SameText, SameSum
<1>17. ASSUME NEW b \in Builds, BuildStarts(b) PROVE (Doomed \/ Follows)'
  <2>1. /\ open /\ UNCHANGED <<inbox, typed>>
        /\ ui' = ui \/ (ui'.stage = ui.stage /\ SameText(ui', ui) /\ SameSum(ui', ui))
    BY <1>1, <1>17, BuildStartSays
  <2> QED BY <1>2, <2>1, FollowsKept DEF SameText, SameSum
<1>18. ASSUME NEW b \in Builds, BuildEnds(b) PROVE (Doomed \/ Follows)'
  BY <1>2, <1>18, BuildEndSays, FollowsKept
<1>19. ASSUME NEW b \in Builds, BuildMerges(b) PROVE (Doomed \/ Follows)'
  <2>1. open /\ UNCHANGED <<inbox, typed>> /\ ui'.stage = ui.stage /\ SameText(ui', ui) /\ SameSum(ui', ui)
    BY <1>1, <1>19, MergeSays
  <2> QED BY <1>2, <2>1, FollowsKept DEF SameText, SameSum
<1>20. CASE RefreshReads \/ RefreshWrites
  <2>1. /\ open /\ UNCHANGED <<inbox, typed>>
        /\ \/ ui' = ui
           \/ ui'.stage = ui.stage /\ SameText(ui', ui) /\ ui'.amount = ui.amount /\ ui'.fiat = ui.fiat
    BY <1>1, <1>20, RefreshSays
  <2> QED BY <1>2, <2>1, FollowsKept DEF SameText
<1>21. CASE UNCHANGED sendVars
  BY <1>2, <1>21, FollowsKept DEF sendVars, screen, events
<1> QED BY <1>3, <1>5, <1>6, <1>7, <1>8, <1>9, <1>10, <1>11, <1>12, <1>13, <1>14, <1>15, <1>16, <1>17,
           <1>18, <1>19, <1>20, <1>21 DEF SendNext, Clicks, TakesUp, Handles, BuildsOn

\* The form first shown holds what its inputs show.
LEMMA FilledInitially == SendInit => FormInv /\ TypedInv
<1> SUFFICES ASSUME SendInit PROVE Complete /\ Follows
  BY DEF FormInv, TypedInv
<1>1. inbox = <<>>
  BY DEF SendInit
<1>2. PICK r \in (Recipients \ Domains) \cup {None}, a \in Amounts :
        LET form == [text |-> r, to |-> r, amount |-> IF r = None THEN 0 ELSE a, fiat |-> FALSE,
                     price |-> FirstPrice, message |-> None, building |-> FALSE, loading |-> FALSE,
                     stage |-> "form"]
        IN /\ ui = IF r = None THEN form
                   ELSE [form EXCEPT !.message = [to |-> r, tokens |-> Tokens(form), number |-> 0]]
           /\ typed = [text |-> r, amount |-> form.amount]
  BY DEF SendInit
<1>3. /\ ui.to = r /\ ui.text = r /\ ~ui.building /\ typed.text = ui.text /\ typed.amount = ui.amount
      /\ r # None => ui.message = [to |-> r, tokens |-> a, number |-> 0]
  BY <1>2 DEF Tokens
<1>4. ui.message # None \/ ui.to = None
  <2>1. ASSUME r # None PROVE [to |-> r, tokens |-> a, number |-> 0] \in Messages
    BY <2>1, AmountsAssumption DEF Messages
  <2> QED BY <1>3, <2>1, NoneAssumption
<1>5. Complete
  BY <1>3, <1>4 DEF Complete, Valid
<1>6. Follows
  BY <1>1, <1>3 DEF Follows, TextFollows, AmountFollows
<1> QED BY <1>5, <1>6

\* When all is done that was on its way, the form holds what its inputs show, and its message
\* if it is complete, whatever was typed and in whatever order handlers and builds ended,
\* unless one of the things that are named happened.
THEOREM Filled == SendSpec => []FilledUnlessExcused
<1>1. StateInv /\ BuildInv /\ FormInv /\ TypedInv => FilledUnlessExcused
  <2> SUFFICES ASSUME StateInv, BuildInv, FormInv, TypedInv, open, Settled, Without(Behind)
               PROVE  /\ ui.text = typed.text /\ ui.amount = typed.amount /\ ~ui.building
                      /\ typed.text # None /\ typed.amount # 0 => ui.message # None /\ Does(ui.message) = Shown(ui)
    BY DEF FilledUnlessExcused, Without, Behind, Unfresh
  <2>1. /\ inbox = <<>> /\ timer = None /\ \A b \in Builds : build[b] = NoBuild
        /\ \A j \in Jobs : job[j].at = "idle"
    BY DEF Settled, StillBuilding, Idle
  <2>2. Complete /\ BuiltAsShown /\ (Doomed \/ Follows)
    BY DEF FormInv, BuildInv, TypedInv, Without, Behind, Unfresh, Stale
  <2>3. DOMAIN inbox = {}
    BY <2>1
  <2>4. ui.text = typed.text /\ ui.amount = typed.amount
    BY <2>2, <2>3 DEF Doomed, Follows, TextFollows, AmountFollows
  <2>5. ui.to = ui.text /\ ~ui.building
    BY <2>1, <2>2 DEF Complete, Resolving, Latest
  <2>6. ASSUME typed.text # None, typed.amount # 0 PROVE ui.message # None /\ Does(ui.message) = Shown(ui)
    <3>1. Valid(ui)
      BY <2>4, <2>5, <2>6 DEF Valid
    <3> QED BY <2>1, <2>2, <3>1 DEF Complete, BuiltAsShown, Latest, Agrees
  <2> QED BY <2>4, <2>5, <2>6
<1>2. SendInit => BuildInv
  BY ShownInitially
<1> QED BY <1>1, <1>2, StateInitially, StateStep, BuildStep, FilledInitially, FormStep, TypedStep,
           PTL DEF SendSpec
================================================================================
