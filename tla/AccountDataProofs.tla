------------------------- MODULE AccountDataProofs --------------------------
(***************************************************************************)
(* Proofs about AccountData: the monitoring of an account, its balances    *)
(* and its transactions, for any number of calls in flight, topics,        *)
(* holdings and transactions, and without bounds on what disturbs them.    *)
(*                                                                         *)
(* Each topic has an inductive invariant of its own, in parts that rest on *)
(* the parts before them; a lemma for each part says that a step keeps it. *)
(* A part that is about one asset or one transaction follows it from the   *)
(* cluster to where it is now: notified, with a call, saved, or excused.   *)
(***************************************************************************)
EXTENDS AccountData, Integers, Sequences, WellFoundedInduction, TLAPS

-----------------------------------------------------------------------------
(* KeyringAccountMonitor: what is said of an account and its topics.       *)

\* None of these has occurred.
Unexcused(why) == \A w \in why : w \notin excuse
SomeoneSubscribes == \E c \in Calls : Monitor!Subscribing(c)
Stops(c, purpose) == phase[c] = "stopping" /\ by[c] = purpose
Stopping == \E c \in Calls : phase[c] = "stopping"
\* The account is listed, and not about to be erased.
Listed == account = "listed" /\ ~erasing
\* A topic has a record, is held by #reSubscribe, or its subscribe has yet to save the record.
Kept(t) == t \in records \cup resubscribing \/ \E c \in Calls : step[c][t] = "save"

\* The types, as far as the proofs need them: what is excused and the bounds are left out.
MonitorTypes ==
  /\ account \in {"none", "listed", "gone"}
  /\ erasing \in BOOLEAN
  /\ monitored \subseteq Topics
  /\ records \subseteq Topics
  /\ resubscribing \subseteq Topics
  /\ by \in [Calls -> Monitor!Purposes]
  /\ phase \in [Calls -> Monitor!Phases]
  /\ doomed \in [Calls -> SUBSET Topics]
  /\ step \in [Calls -> [Topics -> Monitor!Steps]]
  /\ opened \subseteq {"reSubscribe", "recover"}
  /\ unsynced \in BOOLEAN

\* What the await of a call says of its purpose.
PurposeInv == \A c \in Calls :
  /\ phase[c] \in {"fetch", "announce"} => by[c] = "create"
  /\ phase[c] \in {"list", "enter"} => by[c] = "start"
  /\ phase[c] = "stopping" => by[c] \in {"start", "delete"}

\* Nothing is monitored before the account is created.
NoneInv == account = "none" =>
  /\ ~erasing /\ ~unsynced
  /\ monitored = {} /\ ~SomeoneSubscribes
  /\ \A c \in Calls : phase[c] \in {"idle", "list"}

\* Unless one crossed another: a call subscribes only while it monitors, unsubscribes only
\* while it stops, and the one that stops for #handleOnStart is the only one that does.
StopInv == Unexcused({"rejected", "overwritten", "crossed"}) => \A c \in Calls :
  /\ phase[c] # "throwing"
  /\ Monitor!Subscribing(c) => phase[c] = "monitoring"
  /\ doomed[c] # {} => phase[c] = "stopping"
  /\ Stops(c, "delete") => erasing \/ account = "gone"
  /\ Stops(c, "start") =>
       /\ monitored # {}
       /\ ~SomeoneSubscribes
       /\ \A d \in Calls \ {c} : phase[d] # "stopping"

\* #reSubscribe does not hold topics before it has read the records.
OpenInv == "reSubscribe" \in opened => resubscribing = {}

\* What is monitored, or about to be, is kept in all its topics.
KeptInv ==
  Unexcused({"rejected", "overwritten", "crossed"}) /\ Listed /\ ~Stopping /\
    (monitored # {} \/ SomeoneSubscribes) =>
    \A t \in Topics : Kept(t)

\* A listed account is kept in all its topics, or a call is on its way to monitor it.
MonitoredInv ==
  Unexcused({"rejected", "overwritten", "crossed", "restarted"}) /\ Listed =>
    \/ \E c \in Calls : phase[c] \in {"fetch", "enter"} \/ Stops(c, "start")
    \/ \A t \in Topics : Kept(t)

\* None of what leaves a record nobody knows of has occurred.
Accountable ==
  Unexcused({"rejected", "overwritten", "abandoned", "restarted", "crossed", "stale",
             "resurrected"})

\* Of every record somebody knows: the call that stops, the map, or the subscribe that will
\* note its id; and once the account is to go, only a deletion does.
RecordInv ==
  Accountable =>
    /\ \A c \in Calls :
         phase[c] = "stopping" =>
           (records \cup resubscribing) \subseteq doomed[c] /\ ~SomeoneSubscribes
    /\ ~Stopping =>
         \A t \in records \cup resubscribing : t \in monitored \/
           \E c \in Calls : step[c][t] = "note"
    /\ account = "gone" \/ erasing =>
         ~SomeoneSubscribes /\
           (records \cup resubscribing = {} \/ \E c \in Calls : Stops(c, "delete"))

\* Until the recovery looks for it, an account that was monitored when the connection opened
\* has a native topic that is kept, or is being monitored anew.
SyncInv ==
  /\ unsynced => NativeTopics # {}
  /\ Unexcused({"rejected", "overwritten", "crossed"}) /\ "recover" \in opened /\
        unsynced /\ Listed =>
       \/ \E c \in Calls : phase[c] = "enter" \/ Stops(c, "start")
       \/ \E t \in NativeTopics : Kept(t)

\* After that it has been found.
RecoveredInv ==
  Unexcused({"rejected", "overwritten", "crossed", "cleared", "between"}) /\
      "recover" \notin opened /\ unsynced =>
    ~Listed

\* A step keeps the types.
LEMMA MonitorTypesKept ==
  ASSUME DataAssumption, MonitorTypes, Monitor!Next \/ UNCHANGED Monitor!vars
  PROVE  MonitorTypes'
<1>1. ASSUME NEW c \in Calls, NEW t \in Topics, Monitor!Unsubscribe(c, t) PROVE MonitorTypes'
  BY <1>1 DEF MonitorTypes, Monitor!Unsubscribe, Monitor!state, Monitor!recovery
<1>2. ASSUME NEW c \in Calls, NEW t \in Topics, Monitor!UnsubscribeFails(c, t) PROVE MonitorTypes'
  BY <1>2 DEF MonitorTypes, Monitor!UnsubscribeFails, Monitor!state, Monitor!service,
      Monitor!recovery
<1>3. ASSUME NEW c \in Calls, NEW t \in Topics, Monitor!SaveRecord(c, t) PROVE MonitorTypes'
  BY <1>3 DEF MonitorTypes, Monitor!Steps, Monitor!SaveRecord, Monitor!state, Monitor!recovery
<1>4. ASSUME NEW c \in Calls, NEW t \in Topics, Monitor!Note(c, t) PROVE MonitorTypes'
  BY <1>4 DEF MonitorTypes, Monitor!Steps, Monitor!Note, Monitor!state, Monitor!service,
      Monitor!recovery
<1>5. ASSUME NEW c \in Calls, NEW t \in Topics, Monitor!SubscribeFails(c, t) PROVE MonitorTypes'
  <2>1. phase' \in [Calls -> Monitor!Phases]
    BY <1>5 DEF MonitorTypes, Monitor!Phases, Monitor!SubscribeFails
  <2>2. doomed' \in [Calls -> SUBSET Topics]
    BY <1>5 DEF MonitorTypes, Monitor!SubscribeFails
  <2>3. step' \in [Calls -> [Topics -> Monitor!Steps]]
    BY <1>5 DEF MonitorTypes, Monitor!Steps, Monitor!SubscribeFails
  <2> QED BY <1>5, <2>1, <2>2, <2>3 DEF MonitorTypes, Monitor!SubscribeFails, Monitor!state,
      Monitor!service, Monitor!recovery
<1>6. ASSUME NEW c \in Calls, Monitor!Stopped(c) PROVE MonitorTypes'
  BY <1>6 DEF MonitorTypes, Monitor!Phases, Monitor!Stopped, Monitor!service, Monitor!recovery
<1>7. ASSUME NEW c \in Calls, Monitor!Enter(c) PROVE MonitorTypes'
  <2>1. CASE monitored # {}
    BY <1>7, <2>1 DEF MonitorTypes, Monitor!Enter, Monitor!Phases, Monitor!state, Monitor!service,
        Monitor!recovery
  <2>2. CASE monitored = {}
    <3>1. step' = [step EXCEPT ![c] = [t \in Topics |-> "save"]] /\
            phase' = [phase EXCEPT ![c] = "monitoring"]
      BY <1>7, <2>2 DEF Monitor!Enter
    <3>2. step' \in [Calls -> [Topics -> Monitor!Steps]] /\ phase' \in [Calls -> Monitor!Phases]
      BY <3>1 DEF MonitorTypes, Monitor!Steps, Monitor!Phases
    <3> QED BY <1>7, <3>2 DEF MonitorTypes, Monitor!Enter, Monitor!state, Monitor!service,
        Monitor!recovery
  <2> QED BY <2>1, <2>2
<1>8. ASSUME NEW c \in Calls, Monitor!Monitored(c) PROVE MonitorTypes'
  BY <1>8 DEF MonitorTypes, Monitor!Phases, Monitor!Monitored, Monitor!state, Monitor!service,
      Monitor!recovery, Monitor!Goes
<1>9. ASSUME NEW c \in Calls, Monitor!CreateAccount(c) PROVE MonitorTypes'
  BY <1>9 DEF MonitorTypes, Monitor!Phases, Monitor!Purposes, Monitor!CreateAccount,
      Monitor!service, Monitor!recovery, Monitor!Begins
<1>10. ASSUME NEW c \in Calls, Monitor!Announce(c) PROVE MonitorTypes'
  BY <1>10 DEF MonitorTypes, Monitor!Phases, Monitor!Announce, Monitor!state, Monitor!service,
      Monitor!recovery, Monitor!Goes
<1>11. ASSUME NEW c \in Calls, Monitor!CreateFails(c) PROVE MonitorTypes'
  BY <1>11 DEF MonitorTypes, Monitor!Phases, Monitor!CreateFails, Monitor!service,
      Monitor!recovery, Monitor!Goes
<1>12. ASSUME NEW c \in Calls, Monitor!DeleteAccount(c) PROVE MonitorTypes'
  BY <1>12 DEF MonitorTypes, Monitor!Phases, Monitor!Purposes, Monitor!DeleteAccount,
      Monitor!service, Monitor!recovery, Monitor!ReadMap, Monitor!Begins
<1>13. ASSUME NEW c \in Calls, Monitor!HandleOnStart(c) PROVE MonitorTypes'
  BY <1>13 DEF MonitorTypes, Monitor!Phases, Monitor!Purposes, Monitor!HandleOnStart,
      Monitor!state, Monitor!service, Monitor!recovery, Monitor!Begins
<1>14. ASSUME NEW c \in Calls, Monitor!ListAccounts(c) PROVE MonitorTypes'
  <2>1. phase' \in [Calls -> Monitor!Phases]
    BY <1>14 DEF MonitorTypes, Monitor!Phases, Monitor!ListAccounts, Monitor!Goes
  <2>2. doomed' \in [Calls -> SUBSET Topics]
    BY <1>14 DEF MonitorTypes, Monitor!ListAccounts, Monitor!ReadMap
  <2> QED BY <1>14, <2>1, <2>2 DEF MonitorTypes, Monitor!ListAccounts, Monitor!state,
      Monitor!service, Monitor!recovery
<1>15. ASSUME NEW t \in Topics, Monitor!Resubscribe(t) PROVE MonitorTypes'
  BY <1>15 DEF MonitorTypes, Monitor!Resubscribe, Monitor!state, Monitor!recovery, Monitor!calls
<1>16. ASSUME Monitor!Erase PROVE MonitorTypes'
  BY <1>16 DEF MonitorTypes, Monitor!Erase, Monitor!service, Monitor!recovery, Monitor!calls
<1>17. ASSUME NEW c \in Calls, Monitor!SaveOverwritten(c) PROVE MonitorTypes'
  BY <1>17 DEF MonitorTypes, Monitor!SaveOverwritten, Monitor!service, Monitor!recovery,
      Monitor!calls
<1>18. ASSUME Monitor!EraseFails PROVE MonitorTypes'
  BY <1>18 DEF MonitorTypes, Monitor!EraseFails, Monitor!service, Monitor!recovery, Monitor!calls
<1>19. ASSUME Monitor!EraseOverwritten PROVE MonitorTypes'
  BY <1>19 DEF MonitorTypes, Monitor!EraseOverwritten, Monitor!service, Monitor!recovery,
      Monitor!calls
<1>20. ASSUME Monitor!Erased PROVE MonitorTypes'
  BY <1>20 DEF MonitorTypes, Monitor!Erased, Monitor!service, Monitor!recovery, Monitor!calls
<1>21. ASSUME Monitor!Open PROVE MonitorTypes'
  BY <1>21 DEF MonitorTypes, Monitor!Open, Monitor!state, Monitor!service, Monitor!calls
<1>22. ASSUME Monitor!DeleteRecords PROVE MonitorTypes'
  BY <1>22 DEF MonitorTypes, Monitor!DeleteRecords, Monitor!state, Monitor!calls
<1>23. ASSUME Monitor!Recover PROVE MonitorTypes'
  BY <1>23 DEF MonitorTypes, Monitor!Recover, Monitor!state, Monitor!service, Monitor!calls
<1>24. ASSUME Monitor!Restart PROVE MonitorTypes'
  BY <1>24 DEF MonitorTypes, Monitor!Steps, Monitor!Phases, Monitor!Restart
<1>25. CASE UNCHANGED Monitor!vars
  BY <1>25 DEF MonitorTypes, Monitor!Steps, Monitor!Phases, Monitor!Purposes, Monitor!vars,
      Monitor!state, Monitor!service, Monitor!calls, Monitor!recovery
<1> QED BY <1>1, <1>2, <1>3, <1>4, <1>5, <1>6, <1>7, <1>8, <1>9, <1>10, <1>11, <1>12, <1>13,
    <1>14, <1>15, <1>16, <1>17, <1>18, <1>19, <1>20, <1>21, <1>22, <1>23, <1>24, <1>25 DEF
        Monitor!Next

\* A step keeps what awaits say of purposes: a call changes its purpose only when it begins.
LEMMA PurposeInvKept ==
  ASSUME DataAssumption, MonitorTypes, PurposeInv, Monitor!Next \/ UNCHANGED Monitor!vars
  PROVE  PurposeInv'
<1>1. ASSUME NEW c \in Calls, NEW t \in Topics, Monitor!Unsubscribe(c, t) PROVE PurposeInv'
  BY <1>1 DEF PurposeInv, Monitor!Unsubscribe, DataAssumption
<1>2. ASSUME NEW c \in Calls, NEW t \in Topics, Monitor!UnsubscribeFails(c, t) PROVE PurposeInv'
  BY <1>2 DEF PurposeInv, Monitor!UnsubscribeFails, DataAssumption
<1>3. ASSUME NEW c \in Calls, NEW t \in Topics, Monitor!SaveRecord(c, t) PROVE PurposeInv'
  BY <1>3 DEF PurposeInv, Monitor!SaveRecord, DataAssumption
<1>4. ASSUME NEW c \in Calls, NEW t \in Topics, Monitor!Note(c, t) PROVE PurposeInv'
  BY <1>4 DEF PurposeInv, Monitor!Note, DataAssumption
<1>5. ASSUME NEW c \in Calls, NEW t \in Topics, Monitor!SubscribeFails(c, t) PROVE PurposeInv'
  BY <1>5 DEF PurposeInv, MonitorTypes, Monitor!SubscribeFails
<1>6. ASSUME NEW c \in Calls, Monitor!Stopped(c) PROVE PurposeInv'
  BY <1>6 DEF PurposeInv, Monitor!Stopped, DataAssumption
<1>7. ASSUME NEW c \in Calls, Monitor!Enter(c) PROVE PurposeInv'
  BY <1>7 DEF PurposeInv, MonitorTypes, Monitor!Enter
<1>8. ASSUME NEW c \in Calls, Monitor!Monitored(c) PROVE PurposeInv'
  BY <1>8 DEF PurposeInv, Monitor!Monitored, Monitor!Goes
<1>9. ASSUME NEW c \in Calls, Monitor!CreateAccount(c) PROVE PurposeInv'
  BY <1>9 DEF PurposeInv, MonitorTypes, Monitor!CreateAccount, Monitor!Begins
<1>10. ASSUME NEW c \in Calls, Monitor!Announce(c) PROVE PurposeInv'
  BY <1>10 DEF PurposeInv, Monitor!Announce, Monitor!Goes
<1>11. ASSUME NEW c \in Calls, Monitor!CreateFails(c) PROVE PurposeInv'
  BY <1>11 DEF PurposeInv, MonitorTypes, Monitor!CreateFails, Monitor!Goes
<1>12. ASSUME NEW c \in Calls, Monitor!DeleteAccount(c) PROVE PurposeInv'
  BY <1>12 DEF PurposeInv, MonitorTypes, Monitor!DeleteAccount, Monitor!Begins
<1>13. ASSUME NEW c \in Calls, Monitor!HandleOnStart(c) PROVE PurposeInv'
  BY <1>13 DEF PurposeInv, MonitorTypes, Monitor!HandleOnStart, Monitor!Begins
<1>14. ASSUME NEW c \in Calls, Monitor!ListAccounts(c) PROVE PurposeInv'
  BY <1>14 DEF PurposeInv, MonitorTypes, Monitor!ListAccounts, Monitor!Goes
<1>15. ASSUME NEW t \in Topics, Monitor!Resubscribe(t) PROVE PurposeInv'
  BY <1>15 DEF PurposeInv, Monitor!Resubscribe, Monitor!calls
<1>16. ASSUME Monitor!Erase PROVE PurposeInv'
  BY <1>16 DEF PurposeInv, Monitor!Erase, Monitor!calls
<1>17. ASSUME NEW c \in Calls, Monitor!SaveOverwritten(c) PROVE PurposeInv'
  BY <1>17 DEF PurposeInv, Monitor!SaveOverwritten, Monitor!calls
<1>18. ASSUME Monitor!EraseFails PROVE PurposeInv'
  BY <1>18 DEF PurposeInv, Monitor!EraseFails, Monitor!calls
<1>19. ASSUME Monitor!EraseOverwritten PROVE PurposeInv'
  BY <1>19 DEF PurposeInv, Monitor!EraseOverwritten, Monitor!calls
<1>20. ASSUME Monitor!Erased PROVE PurposeInv'
  BY <1>20 DEF PurposeInv, Monitor!Erased, Monitor!calls
<1>21. ASSUME Monitor!Open PROVE PurposeInv'
  BY <1>21 DEF PurposeInv, Monitor!Open, Monitor!calls
<1>22. ASSUME Monitor!DeleteRecords PROVE PurposeInv'
  BY <1>22 DEF PurposeInv, Monitor!DeleteRecords, Monitor!calls
<1>23. ASSUME Monitor!Recover PROVE PurposeInv'
  BY <1>23 DEF PurposeInv, Monitor!Recover, Monitor!calls
<1>24. ASSUME Monitor!Restart PROVE PurposeInv'
  BY <1>24 DEF PurposeInv, Monitor!Restart, DataAssumption
<1>25. CASE UNCHANGED Monitor!vars
  BY <1>25 DEF PurposeInv, MonitorTypes, Monitor!Steps, Monitor!Phases, Monitor!Purposes,
      Monitor!vars, Monitor!state, Monitor!service, Monitor!calls, Monitor!recovery
<1> QED BY <1>1, <1>2, <1>3, <1>4, <1>5, <1>6, <1>7, <1>8, <1>9, <1>10, <1>11, <1>12, <1>13,
    <1>14, <1>15, <1>16, <1>17, <1>18, <1>19, <1>20, <1>21, <1>22, <1>23, <1>24, <1>25 DEF
        Monitor!Next

\* A step keeps that nothing is monitored before the account is created.
LEMMA NoneInvKept ==
  ASSUME DataAssumption, MonitorTypes, NoneInv, Monitor!Next \/ UNCHANGED Monitor!vars
  PROVE  NoneInv'
<1>1. ASSUME NEW c \in Calls, NEW t \in Topics, Monitor!Unsubscribe(c, t) PROVE NoneInv'
  BY <1>1 DEF NoneInv, SomeoneSubscribes, Monitor!Subscribing, Monitor!Unsubscribe, Monitor!state,
      Monitor!recovery
<1>2. ASSUME NEW c \in Calls, NEW t \in Topics, Monitor!UnsubscribeFails(c, t) PROVE NoneInv'
  BY <1>2 DEF NoneInv, SomeoneSubscribes, Monitor!Subscribing, Monitor!UnsubscribeFails,
      Monitor!state, Monitor!recovery
<1>3. ASSUME NEW c \in Calls, NEW t \in Topics, Monitor!SaveRecord(c, t) PROVE NoneInv'
  BY <1>3 DEF NoneInv, SomeoneSubscribes, Monitor!Subscribing, Monitor!SaveRecord, Monitor!state
<1>4. ASSUME NEW c \in Calls, NEW t \in Topics, Monitor!Note(c, t) PROVE NoneInv'
  BY <1>4 DEF NoneInv, SomeoneSubscribes, Monitor!Subscribing, Monitor!Note, Monitor!state
<1>5. ASSUME NEW c \in Calls, NEW t \in Topics, Monitor!SubscribeFails(c, t) PROVE NoneInv'
  BY <1>5 DEF NoneInv, SomeoneSubscribes, Monitor!Subscribing, Monitor!SubscribeFails, Monitor!state
<1>6. ASSUME NEW c \in Calls, Monitor!Stopped(c) PROVE NoneInv'
  BY <1>6 DEF NoneInv, Monitor!Stopped, DataAssumption
<1>7. ASSUME NEW c \in Calls, Monitor!Enter(c) PROVE NoneInv'
  BY <1>7 DEF NoneInv, Monitor!Enter, Monitor!state
<1>8. ASSUME NEW c \in Calls, Monitor!Monitored(c) PROVE NoneInv'
  BY <1>8 DEF NoneInv, Monitor!Monitored, Monitor!state, Monitor!Goes
<1>9. ASSUME NEW c \in Calls, Monitor!CreateAccount(c) PROVE NoneInv'
  BY <1>9 DEF NoneInv, Monitor!CreateAccount, DataAssumption
<1>10. ASSUME NEW c \in Calls, Monitor!Announce(c) PROVE NoneInv'
  BY <1>10 DEF NoneInv, Monitor!Announce, Monitor!state, Monitor!Goes
<1>11. ASSUME NEW c \in Calls, Monitor!CreateFails(c) PROVE NoneInv'
  BY <1>11 DEF NoneInv, Monitor!CreateFails, Monitor!Goes
<1>12. ASSUME NEW c \in Calls, Monitor!DeleteAccount(c) PROVE NoneInv'
  BY <1>12 DEF NoneInv, Monitor!DeleteAccount, DataAssumption
<1>13. ASSUME NEW c \in Calls, Monitor!HandleOnStart(c) PROVE NoneInv'
  BY <1>13 DEF NoneInv, SomeoneSubscribes, Monitor!Subscribing, Monitor!HandleOnStart,
      Monitor!state, Monitor!recovery, Monitor!Begins
<1>14. ASSUME NEW c \in Calls, Monitor!ListAccounts(c) PROVE NoneInv'
  BY <1>14 DEF NoneInv, SomeoneSubscribes, Monitor!Subscribing, MonitorTypes,
      Monitor!ListAccounts, Monitor!state, Monitor!recovery, Monitor!Goes
<1>15. ASSUME NEW t \in Topics, Monitor!Resubscribe(t) PROVE NoneInv'
  BY <1>15 DEF NoneInv, SomeoneSubscribes, Monitor!Subscribing, Monitor!Resubscribe,
      Monitor!state, Monitor!recovery, Monitor!calls
<1>16. ASSUME Monitor!Erase PROVE NoneInv'
  BY <1>16 DEF NoneInv, Monitor!Erase, DataAssumption
<1>17. ASSUME NEW c \in Calls, Monitor!SaveOverwritten(c) PROVE NoneInv'
  BY <1>17 DEF NoneInv, Monitor!SaveOverwritten, Monitor!service
<1>18. ASSUME Monitor!EraseFails PROVE NoneInv'
  BY <1>18 DEF NoneInv, Monitor!EraseFails, Monitor!service
<1>19. ASSUME Monitor!EraseOverwritten PROVE NoneInv'
  BY <1>19 DEF NoneInv, Monitor!EraseOverwritten, Monitor!service
<1>20. ASSUME Monitor!Erased PROVE NoneInv'
  BY <1>20 DEF NoneInv, Monitor!Erased, Monitor!service
<1>21. ASSUME Monitor!Open PROVE NoneInv'
  BY <1>21 DEF NoneInv, SomeoneSubscribes, Monitor!Subscribing, Monitor!Open, Monitor!state,
      Monitor!calls
<1>22. ASSUME Monitor!DeleteRecords PROVE NoneInv'
  BY <1>22 DEF NoneInv, SomeoneSubscribes, Monitor!Subscribing, Monitor!DeleteRecords,
      Monitor!state, Monitor!calls
<1>23. ASSUME Monitor!Recover PROVE NoneInv'
  BY <1>23 DEF NoneInv, SomeoneSubscribes, Monitor!Subscribing, Monitor!Recover, Monitor!state,
      Monitor!calls
<1>24. ASSUME Monitor!Restart PROVE NoneInv'
  BY <1>24 DEF NoneInv, SomeoneSubscribes, Monitor!Subscribing, Monitor!Restart
<1>25. CASE UNCHANGED Monitor!vars
  BY <1>25 DEF NoneInv, SomeoneSubscribes, Monitor!Subscribing, MonitorTypes, Monitor!Steps,
      Monitor!Phases, Monitor!Purposes, Monitor!vars, Monitor!state, Monitor!service,
      Monitor!calls, Monitor!recovery
<1> QED BY <1>1, <1>2, <1>3, <1>4, <1>5, <1>6, <1>7, <1>8, <1>9, <1>10, <1>11, <1>12, <1>13,
    <1>14, <1>15, <1>16, <1>17, <1>18, <1>19, <1>20, <1>21, <1>22, <1>23, <1>24, <1>25 DEF
        Monitor!Next

\* A step keeps the order of stopping and subscribing, or the stop that breaks it is crossed.
LEMMA StopInvKept ==
  ASSUME DataAssumption, MonitorTypes, PurposeInv, NoneInv, StopInv,
         Monitor!Next \/ UNCHANGED Monitor!vars
  PROVE  StopInv'
<1>1. ASSUME NEW c \in Calls, NEW t \in Topics, Monitor!Unsubscribe(c, t) PROVE StopInv'
  BY <1>1 DEF StopInv, SomeoneSubscribes, Monitor!Subscribing, Stops, Unexcused,
      Monitor!Unsubscribe, Monitor!state, Monitor!Excuse
<1>2. ASSUME NEW c \in Calls, NEW t \in Topics, Monitor!UnsubscribeFails(c, t) PROVE StopInv'
  BY <1>2 DEF StopInv, Unexcused, Monitor!UnsubscribeFails, Monitor!Excuse
<1>3. ASSUME NEW c \in Calls, NEW t \in Topics, Monitor!SaveRecord(c, t) PROVE StopInv'
  BY <1>3 DEF StopInv, SomeoneSubscribes, Monitor!Subscribing, Stops, Unexcused,
      Monitor!SaveRecord, Monitor!state
<1>4. ASSUME NEW c \in Calls, NEW t \in Topics, Monitor!Note(c, t) PROVE StopInv'
  BY <1>4 DEF StopInv, SomeoneSubscribes, Monitor!Subscribing, Stops, Unexcused, Monitor!Note,
      Monitor!state
<1>5. ASSUME NEW c \in Calls, NEW t \in Topics, Monitor!SubscribeFails(c, t) PROVE StopInv'
  BY <1>5 DEF StopInv, Unexcused, Monitor!SubscribeFails
<1>6. ASSUME NEW c \in Calls, Monitor!Stopped(c) PROVE StopInv'
  BY <1>6 DEF StopInv, Monitor!Subscribing, Stops, Unexcused, MonitorTypes, Monitor!Stopped
<1>7. ASSUME NEW c \in Calls, Monitor!Enter(c) PROVE StopInv'
  <2>1. /\ UNCHANGED <<account, erasing, monitored, by, doomed>>
        /\ phase[c] \in {"fetch", "enter"} /\ excuse \subseteq excuse'
    BY <1>7 DEF Monitor!Enter, Monitor!state, Monitor!Excuse
  <2>2. CASE monitored # {}
    BY <1>7, <2>1, <2>2 DEF StopInv, SomeoneSubscribes, Monitor!Subscribing, Stops, Unexcused,
        MonitorTypes, Monitor!Enter
  <2>3. CASE monitored = {}
    <3>1. /\ phase' = [phase EXCEPT ![c] = "monitoring"]
          /\ step' = [step EXCEPT ![c] = [t \in Topics |-> "save"]]
      BY <1>7, <2>3 DEF Monitor!Enter
    <3> QED BY <2>1, <2>3, <3>1 DEF StopInv, Monitor!Subscribing, Stops, Unexcused, MonitorTypes
  <2> QED BY <2>2, <2>3
<1>8. ASSUME NEW c \in Calls, Monitor!Monitored(c) PROVE StopInv'
  BY <1>8 DEF StopInv, SomeoneSubscribes, Monitor!Subscribing, Stops, Unexcused,
      Monitor!Monitored, Monitor!state, Monitor!Goes
<1>9. ASSUME NEW c \in Calls, Monitor!CreateAccount(c) PROVE StopInv'
  BY <1>9 DEF StopInv, SomeoneSubscribes, Monitor!Subscribing, Stops, Unexcused,
      Monitor!CreateAccount, Monitor!Begins, Monitor!Free
<1>10. ASSUME NEW c \in Calls, Monitor!Announce(c) PROVE StopInv'
  BY <1>10 DEF StopInv, SomeoneSubscribes, Monitor!Subscribing, Stops, Unexcused,
      Monitor!Announce, Monitor!state, Monitor!Goes
<1>11. ASSUME NEW c \in Calls, Monitor!CreateFails(c) PROVE StopInv'
  BY <1>11 DEF StopInv, SomeoneSubscribes, Monitor!Subscribing, Stops, Unexcused, MonitorTypes,
      Monitor!CreateFails, Monitor!Goes, Monitor!Excuse
<1>12. ASSUME NEW c \in Calls, Monitor!DeleteAccount(c) PROVE StopInv'
  BY <1>12 DEF StopInv, Monitor!Subscribing, Stops, Unexcused, MonitorTypes,
      Monitor!DeleteAccount, Monitor!ReadMap, Monitor!Excuse, Monitor!Begins
<1>13. ASSUME NEW c \in Calls, Monitor!HandleOnStart(c) PROVE StopInv'
  BY <1>13 DEF StopInv, SomeoneSubscribes, Monitor!Subscribing, Stops, Unexcused,
      Monitor!HandleOnStart, Monitor!state, Monitor!Begins, Monitor!Free
<1>14. ASSUME NEW c \in Calls, Monitor!ListAccounts(c) PROVE StopInv'
  BY <1>14 DEF StopInv, SomeoneSubscribes, Monitor!Subscribing, Stops, Unexcused, MonitorTypes,
      PurposeInv, Monitor!ListAccounts, Monitor!state, Monitor!ReadMap, Monitor!Excuse,
      Monitor!Goes
<1>15. ASSUME NEW t \in Topics, Monitor!Resubscribe(t) PROVE StopInv'
  BY <1>15 DEF StopInv, SomeoneSubscribes, Monitor!Subscribing, Stops, Unexcused,
      Monitor!Resubscribe, Monitor!state, Monitor!calls
<1>16. ASSUME Monitor!Erase PROVE StopInv'
  BY <1>16 DEF StopInv, SomeoneSubscribes, Monitor!Subscribing, Stops, Unexcused, Monitor!Erase,
      Monitor!calls
<1>17. ASSUME NEW c \in Calls, Monitor!SaveOverwritten(c) PROVE StopInv'
  BY <1>17 DEF StopInv, Unexcused, Monitor!SaveOverwritten, Monitor!Excuse
<1>18. ASSUME Monitor!EraseFails PROVE StopInv'
  BY <1>18 DEF StopInv, Unexcused, Monitor!EraseFails, Monitor!Excuse
<1>19. ASSUME Monitor!EraseOverwritten PROVE StopInv'
  BY <1>19 DEF StopInv, Unexcused, Monitor!EraseOverwritten, Monitor!Excuse
<1>20. ASSUME Monitor!Erased PROVE StopInv'
  BY <1>20 DEF StopInv, SomeoneSubscribes, Monitor!Subscribing, Stops, Unexcused, Monitor!Erased,
      Monitor!calls
<1>21. ASSUME Monitor!Open PROVE StopInv'
  BY <1>21 DEF StopInv, SomeoneSubscribes, Monitor!Subscribing, Stops, Unexcused, Monitor!Open,
      Monitor!state, Monitor!calls
<1>22. ASSUME Monitor!DeleteRecords PROVE StopInv'
  BY <1>22 DEF StopInv, SomeoneSubscribes, Monitor!Subscribing, Stops, Unexcused,
      Monitor!DeleteRecords, Monitor!state, Monitor!calls
<1>23. ASSUME Monitor!Recover PROVE StopInv'
  BY <1>23 DEF StopInv, SomeoneSubscribes, Monitor!Subscribing, Stops, Unexcused, Monitor!Recover,
      Monitor!state, Monitor!calls
<1>24. ASSUME Monitor!Restart PROVE StopInv'
  BY <1>24 DEF StopInv, Monitor!Subscribing, Stops, Monitor!Restart
<1>25. CASE UNCHANGED Monitor!vars
  BY <1>25 DEF StopInv, SomeoneSubscribes, Monitor!Subscribing, Stops, Unexcused, MonitorTypes,
      Monitor!Steps, Monitor!Phases, Monitor!Purposes, PurposeInv, NoneInv, Monitor!vars,
      Monitor!state, Monitor!service, Monitor!calls, Monitor!recovery
<1> QED BY <1>1, <1>2, <1>3, <1>4, <1>5, <1>6, <1>7, <1>8, <1>9, <1>10, <1>11, <1>12, <1>13,
    <1>14, <1>15, <1>16, <1>17, <1>18, <1>19, <1>20, <1>21, <1>22, <1>23, <1>24, <1>25 DEF
        Monitor!Next

\* A step keeps that #reSubscribe reads the records first.
LEMMA OpenInvKept ==
  ASSUME DataAssumption, MonitorTypes, OpenInv, Monitor!Next \/ UNCHANGED Monitor!vars
  PROVE  OpenInv'
<1>1. ASSUME NEW c \in Calls, NEW t \in Topics, Monitor!Unsubscribe(c, t) PROVE OpenInv'
  BY <1>1 DEF OpenInv, Monitor!Unsubscribe, Monitor!recovery
<1>2. ASSUME NEW c \in Calls, NEW t \in Topics, Monitor!UnsubscribeFails(c, t) PROVE OpenInv'
  BY <1>2 DEF OpenInv, Monitor!UnsubscribeFails, Monitor!service, Monitor!recovery
<1>3. ASSUME NEW c \in Calls, NEW t \in Topics, Monitor!SaveRecord(c, t) PROVE OpenInv'
  BY <1>3 DEF OpenInv, Monitor!SaveRecord, Monitor!recovery
<1>4. ASSUME NEW c \in Calls, NEW t \in Topics, Monitor!Note(c, t) PROVE OpenInv'
  BY <1>4 DEF OpenInv, Monitor!Note, Monitor!service, Monitor!recovery
<1>5. ASSUME NEW c \in Calls, NEW t \in Topics, Monitor!SubscribeFails(c, t) PROVE OpenInv'
  BY <1>5 DEF OpenInv, Monitor!SubscribeFails, Monitor!service, Monitor!recovery
<1>6. ASSUME NEW c \in Calls, Monitor!Stopped(c) PROVE OpenInv'
  BY <1>6 DEF OpenInv, Monitor!Stopped, Monitor!service, Monitor!recovery
<1>7. ASSUME NEW c \in Calls, Monitor!Enter(c) PROVE OpenInv'
  BY <1>7 DEF OpenInv, Monitor!Enter, Monitor!service, Monitor!recovery
<1>8. ASSUME NEW c \in Calls, Monitor!Monitored(c) PROVE OpenInv'
  BY <1>8 DEF OpenInv, Monitor!Monitored, Monitor!service, Monitor!recovery
<1>9. ASSUME NEW c \in Calls, Monitor!CreateAccount(c) PROVE OpenInv'
  BY <1>9 DEF OpenInv, Monitor!CreateAccount, Monitor!service, Monitor!recovery
<1>10. ASSUME NEW c \in Calls, Monitor!Announce(c) PROVE OpenInv'
  BY <1>10 DEF OpenInv, Monitor!Announce, Monitor!service, Monitor!recovery
<1>11. ASSUME NEW c \in Calls, Monitor!CreateFails(c) PROVE OpenInv'
  BY <1>11 DEF OpenInv, Monitor!CreateFails, Monitor!service, Monitor!recovery
<1>12. ASSUME NEW c \in Calls, Monitor!DeleteAccount(c) PROVE OpenInv'
  BY <1>12 DEF OpenInv, Monitor!DeleteAccount, Monitor!service, Monitor!recovery
<1>13. ASSUME NEW c \in Calls, Monitor!HandleOnStart(c) PROVE OpenInv'
  BY <1>13 DEF OpenInv, Monitor!HandleOnStart, Monitor!service, Monitor!recovery
<1>14. ASSUME NEW c \in Calls, Monitor!ListAccounts(c) PROVE OpenInv'
  BY <1>14 DEF OpenInv, Monitor!ListAccounts, Monitor!service, Monitor!recovery
<1>15. ASSUME NEW t \in Topics, Monitor!Resubscribe(t) PROVE OpenInv'
  BY <1>15 DEF OpenInv, Monitor!Resubscribe, Monitor!recovery
<1>16. ASSUME Monitor!Erase PROVE OpenInv'
  BY <1>16 DEF OpenInv, Monitor!Erase, Monitor!service, Monitor!recovery
<1>17. ASSUME NEW c \in Calls, Monitor!SaveOverwritten(c) PROVE OpenInv'
  BY <1>17 DEF OpenInv, Monitor!SaveOverwritten, Monitor!service, Monitor!recovery
<1>18. ASSUME Monitor!EraseFails PROVE OpenInv'
  BY <1>18 DEF OpenInv, Monitor!EraseFails, Monitor!service, Monitor!recovery
<1>19. ASSUME Monitor!EraseOverwritten PROVE OpenInv'
  BY <1>19 DEF OpenInv, Monitor!EraseOverwritten, Monitor!service, Monitor!recovery
<1>20. ASSUME Monitor!Erased PROVE OpenInv'
  BY <1>20 DEF OpenInv, Monitor!Erased, Monitor!service, Monitor!recovery
<1>21. ASSUME Monitor!Open PROVE OpenInv'
  BY <1>21 DEF OpenInv, Monitor!Open, Monitor!service
<1>22. ASSUME Monitor!DeleteRecords PROVE OpenInv'
  BY <1>22 DEF OpenInv, Monitor!DeleteRecords, DataAssumption
<1>23. ASSUME Monitor!Recover PROVE OpenInv'
  BY <1>23 DEF OpenInv, Monitor!Recover, Monitor!service
<1>24. ASSUME Monitor!Restart PROVE OpenInv'
  BY <1>24 DEF OpenInv, Monitor!Restart, DataAssumption
<1>25. CASE UNCHANGED Monitor!vars
  BY <1>25 DEF OpenInv, MonitorTypes, Monitor!Steps, Monitor!Phases, Monitor!Purposes,
      Monitor!vars, Monitor!state, Monitor!service, Monitor!calls, Monitor!recovery
<1> QED BY <1>1, <1>2, <1>3, <1>4, <1>5, <1>6, <1>7, <1>8, <1>9, <1>10, <1>11, <1>12, <1>13,
    <1>14, <1>15, <1>16, <1>17, <1>18, <1>19, <1>20, <1>21, <1>22, <1>23, <1>24, <1>25 DEF
        Monitor!Next

\* A step keeps the topics of what is monitored: a record only goes to #reSubscribe, or to a
\* call that stops.
LEMMA KeptInvKept ==
  ASSUME DataAssumption, MonitorTypes, PurposeInv, NoneInv, StopInv, OpenInv, KeptInv,
         Monitor!Next \/ UNCHANGED Monitor!vars
  PROVE  KeptInv'
<1>1. ASSUME NEW c \in Calls, NEW t \in Topics, Monitor!Unsubscribe(c, t) PROVE KeptInv'
  BY <1>1 DEF KeptInv, Stopping, Unexcused, StopInv, Monitor!Unsubscribe, Monitor!Excuse
<1>2. ASSUME NEW c \in Calls, NEW t \in Topics, Monitor!UnsubscribeFails(c, t) PROVE KeptInv'
  BY <1>2 DEF KeptInv, Unexcused, Monitor!UnsubscribeFails, Monitor!Excuse
<1>3. ASSUME NEW c \in Calls, NEW t \in Topics, Monitor!SaveRecord(c, t) PROVE KeptInv'
  BY <1>3 DEF KeptInv, Kept, SomeoneSubscribes, Monitor!Subscribing, Stopping, Listed, Unexcused,
      Monitor!SaveRecord, Monitor!state
<1>4. ASSUME NEW c \in Calls, NEW t \in Topics, Monitor!Note(c, t) PROVE KeptInv'
  BY <1>4 DEF KeptInv, Kept, SomeoneSubscribes, Monitor!Subscribing, Stopping, Listed, Unexcused,
      Monitor!Note, Monitor!state, Monitor!service
<1>5. ASSUME NEW c \in Calls, NEW t \in Topics, Monitor!SubscribeFails(c, t) PROVE KeptInv'
  BY <1>5 DEF KeptInv, Unexcused, Monitor!SubscribeFails
<1>6. ASSUME NEW c \in Calls, Monitor!Stopped(c) PROVE KeptInv'
  BY <1>6 DEF KeptInv, SomeoneSubscribes, Monitor!Subscribing, Listed, Unexcused, MonitorTypes,
      PurposeInv, StopInv, Stops, Monitor!Stopped
<1>7. ASSUME NEW c \in Calls, Monitor!Enter(c) PROVE KeptInv'
  BY <1>7 DEF KeptInv, Kept, Stopping, Listed, Unexcused, MonitorTypes, Monitor!Enter,
      Monitor!state, Monitor!service
<1>8. ASSUME NEW c \in Calls, Monitor!Monitored(c) PROVE KeptInv'
  BY <1>8 DEF KeptInv, Kept, SomeoneSubscribes, Monitor!Subscribing, Stopping, Listed, Unexcused,
      Monitor!Monitored, Monitor!state, Monitor!service, Monitor!Goes
<1>9. ASSUME NEW c \in Calls, Monitor!CreateAccount(c) PROVE KeptInv'
  BY <1>9 DEF KeptInv, SomeoneSubscribes, Monitor!Subscribing, NoneInv, Monitor!CreateAccount
<1>10. ASSUME NEW c \in Calls, Monitor!Announce(c) PROVE KeptInv'
  BY <1>10 DEF KeptInv, Kept, SomeoneSubscribes, Monitor!Subscribing, Stopping, Listed, Unexcused,
      Monitor!Announce, Monitor!state, Monitor!service, Monitor!Goes
<1>11. ASSUME NEW c \in Calls, Monitor!CreateFails(c) PROVE KeptInv'
  BY <1>11 DEF KeptInv, Listed, Monitor!CreateFails
<1>12. ASSUME NEW c \in Calls, Monitor!DeleteAccount(c) PROVE KeptInv'
  BY <1>12 DEF KeptInv, Listed, Monitor!DeleteAccount
<1>13. ASSUME NEW c \in Calls, Monitor!HandleOnStart(c) PROVE KeptInv'
  BY <1>13 DEF KeptInv, Kept, SomeoneSubscribes, Monitor!Subscribing, Stopping, Listed, Unexcused,
      Monitor!HandleOnStart, Monitor!state, Monitor!service, Monitor!Begins, Monitor!Free
<1>14. ASSUME NEW c \in Calls, Monitor!ListAccounts(c) PROVE KeptInv'
  BY <1>14 DEF KeptInv, Kept, SomeoneSubscribes, Monitor!Subscribing, Stopping, Listed, Unexcused,
      PurposeInv, StopInv, Stops, Monitor!ListAccounts, Monitor!state, Monitor!service,
      Monitor!ReadMap, Monitor!Excuse
<1>15. ASSUME NEW t \in Topics, Monitor!Resubscribe(t) PROVE KeptInv'
  BY <1>15 DEF KeptInv, Kept, SomeoneSubscribes, Monitor!Subscribing, Stopping, Listed, Unexcused,
      Monitor!Resubscribe, Monitor!state, Monitor!calls
<1>16. ASSUME Monitor!Erase PROVE KeptInv'
  BY <1>16 DEF KeptInv, Listed, Monitor!Erase
<1>17. ASSUME NEW c \in Calls, Monitor!SaveOverwritten(c) PROVE KeptInv'
  BY <1>17 DEF KeptInv, Unexcused, Monitor!SaveOverwritten, Monitor!Excuse
<1>18. ASSUME Monitor!EraseFails PROVE KeptInv'
  BY <1>18 DEF KeptInv, Unexcused, Monitor!EraseFails, Monitor!Excuse
<1>19. ASSUME Monitor!EraseOverwritten PROVE KeptInv'
  BY <1>19 DEF KeptInv, Unexcused, Monitor!EraseOverwritten, Monitor!Excuse
<1>20. ASSUME Monitor!Erased PROVE KeptInv'
  BY <1>20 DEF KeptInv, Listed, Monitor!Erased
<1>21. ASSUME Monitor!Open PROVE KeptInv'
  BY <1>21 DEF KeptInv, Kept, SomeoneSubscribes, Monitor!Subscribing, Stopping, Listed, Unexcused,
      Monitor!Open, Monitor!state, Monitor!service, Monitor!calls
<1>22. ASSUME Monitor!DeleteRecords PROVE KeptInv'
  BY <1>22 DEF KeptInv, Kept, SomeoneSubscribes, Monitor!Subscribing, Stopping, Listed, Unexcused,
      OpenInv, Monitor!DeleteRecords, Monitor!state, Monitor!calls
<1>23. ASSUME Monitor!Recover PROVE KeptInv'
  BY <1>23 DEF KeptInv, Kept, SomeoneSubscribes, Monitor!Subscribing, Stopping, Listed, Unexcused,
      Monitor!Recover, Monitor!state, Monitor!service, Monitor!calls
<1>24. ASSUME Monitor!Restart PROVE KeptInv'
  BY <1>24 DEF KeptInv, SomeoneSubscribes, Monitor!Subscribing, Monitor!Restart
<1>25. CASE UNCHANGED Monitor!vars
  BY <1>25 DEF KeptInv, Kept, SomeoneSubscribes, Monitor!Subscribing, Stopping, Listed, Unexcused,
      MonitorTypes, Monitor!Steps, Monitor!Phases, Monitor!Purposes, PurposeInv, NoneInv, StopInv,
      Stops, OpenInv, Monitor!vars, Monitor!state, Monitor!service, Monitor!calls,
      Monitor!recovery
<1> QED BY <1>1, <1>2, <1>3, <1>4, <1>5, <1>6, <1>7, <1>8, <1>9, <1>10, <1>11, <1>12, <1>13,
    <1>14, <1>15, <1>16, <1>17, <1>18, <1>19, <1>20, <1>21, <1>22, <1>23, <1>24, <1>25 DEF
        Monitor!Next

\* A step keeps that a listed account is monitored, or about to be.
LEMMA MonitoredInvKept ==
  ASSUME DataAssumption, MonitorTypes, PurposeInv, NoneInv, StopInv, OpenInv, KeptInv, MonitoredInv,
         Monitor!Next \/ UNCHANGED Monitor!vars
  PROVE  MonitoredInv'
<1>1. ASSUME NEW c \in Calls, NEW t \in Topics, Monitor!Unsubscribe(c, t) PROVE MonitoredInv'
  BY <1>1 DEF MonitoredInv, Stops, Listed, Unexcused, PurposeInv, StopInv, Monitor!Unsubscribe,
      Monitor!state, Monitor!Excuse
<1>2. ASSUME NEW c \in Calls, NEW t \in Topics, Monitor!UnsubscribeFails(c, t) PROVE MonitoredInv'
  BY <1>2 DEF MonitoredInv, Unexcused, Monitor!UnsubscribeFails, Monitor!Excuse
<1>3. ASSUME NEW c \in Calls, NEW t \in Topics, Monitor!SaveRecord(c, t) PROVE MonitoredInv'
  BY <1>3 DEF MonitoredInv, Kept, Stops, Listed, Unexcused, Monitor!SaveRecord, Monitor!state
<1>4. ASSUME NEW c \in Calls, NEW t \in Topics, Monitor!Note(c, t) PROVE MonitoredInv'
  BY <1>4 DEF MonitoredInv, Kept, Stops, Listed, Unexcused, Monitor!Note, Monitor!state,
      Monitor!service
<1>5. ASSUME NEW c \in Calls, NEW t \in Topics, Monitor!SubscribeFails(c, t) PROVE MonitoredInv'
  BY <1>5 DEF MonitoredInv, Unexcused, Monitor!SubscribeFails
<1>6. ASSUME NEW c \in Calls, Monitor!Stopped(c) PROVE MonitoredInv'
  BY <1>6 DEF MonitoredInv, Kept, Stops, Listed, Unexcused, MonitorTypes, Monitor!Stopped,
      Monitor!service
<1>7. ASSUME NEW c \in Calls, Monitor!Enter(c) PROVE MonitoredInv'
  BY <1>7 DEF MonitoredInv, Kept, Stops, Listed, Unexcused, MonitorTypes, PurposeInv, StopInv,
      KeptInv, Stopping, Monitor!Enter, Monitor!state, Monitor!service
<1>8. ASSUME NEW c \in Calls, Monitor!Monitored(c) PROVE MonitoredInv'
  BY <1>8 DEF MonitoredInv, Kept, Stops, Listed, Unexcused, Monitor!Monitored, Monitor!state,
      Monitor!service, Monitor!Goes
<1>9. ASSUME NEW c \in Calls, Monitor!CreateAccount(c) PROVE MonitoredInv'
  BY <1>9 DEF MonitoredInv, MonitorTypes, Monitor!CreateAccount, Monitor!Begins
<1>10. ASSUME NEW c \in Calls, Monitor!Announce(c) PROVE MonitoredInv'
  BY <1>10 DEF MonitoredInv, Kept, Stops, Listed, Unexcused, Monitor!Announce, Monitor!state,
      Monitor!service, Monitor!Goes
<1>11. ASSUME NEW c \in Calls, Monitor!CreateFails(c) PROVE MonitoredInv'
  BY <1>11 DEF MonitoredInv, Listed, Monitor!CreateFails
<1>12. ASSUME NEW c \in Calls, Monitor!DeleteAccount(c) PROVE MonitoredInv'
  BY <1>12 DEF MonitoredInv, Listed, Monitor!DeleteAccount
<1>13. ASSUME NEW c \in Calls, Monitor!HandleOnStart(c) PROVE MonitoredInv'
  BY <1>13 DEF MonitoredInv, Kept, Stops, Listed, Unexcused, Monitor!HandleOnStart, Monitor!state,
      Monitor!service, Monitor!Begins, Monitor!Free
<1>14. ASSUME NEW c \in Calls, Monitor!ListAccounts(c) PROVE MonitoredInv'
  BY <1>14 DEF MonitoredInv, Kept, Stops, Listed, Unexcused, MonitorTypes, Monitor!ListAccounts,
      Monitor!state, Monitor!service, Monitor!ReadMap, Monitor!Excuse, Monitor!Goes
<1>15. ASSUME NEW t \in Topics, Monitor!Resubscribe(t) PROVE MonitoredInv'
  BY <1>15 DEF MonitoredInv, Kept, Stops, Listed, Unexcused, Monitor!Resubscribe, Monitor!state,
      Monitor!calls
<1>16. ASSUME Monitor!Erase PROVE MonitoredInv'
  BY <1>16 DEF MonitoredInv, Listed, Monitor!Erase
<1>17. ASSUME NEW c \in Calls, Monitor!SaveOverwritten(c) PROVE MonitoredInv'
  BY <1>17 DEF MonitoredInv, Unexcused, Monitor!SaveOverwritten, Monitor!Excuse
<1>18. ASSUME Monitor!EraseFails PROVE MonitoredInv'
  BY <1>18 DEF MonitoredInv, Unexcused, Monitor!EraseFails, Monitor!Excuse
<1>19. ASSUME Monitor!EraseOverwritten PROVE MonitoredInv'
  BY <1>19 DEF MonitoredInv, Unexcused, Monitor!EraseOverwritten, Monitor!Excuse
<1>20. ASSUME Monitor!Erased PROVE MonitoredInv'
  BY <1>20 DEF MonitoredInv, Listed, Monitor!Erased
<1>21. ASSUME Monitor!Open PROVE MonitoredInv'
  BY <1>21 DEF MonitoredInv, Kept, Stops, Listed, Unexcused, Monitor!Open, Monitor!state,
      Monitor!service, Monitor!calls
<1>22. ASSUME Monitor!DeleteRecords PROVE MonitoredInv'
  BY <1>22 DEF MonitoredInv, Kept, Stops, Listed, Unexcused, OpenInv, Monitor!DeleteRecords,
      Monitor!state, Monitor!calls
<1>23. ASSUME Monitor!Recover PROVE MonitoredInv'
  BY <1>23 DEF MonitoredInv, Kept, Stops, Listed, Unexcused, Monitor!Recover, Monitor!state,
      Monitor!service, Monitor!calls
<1>24. ASSUME Monitor!Restart PROVE MonitoredInv'
  BY <1>24 DEF MonitoredInv, Unexcused, Monitor!Restart
<1>25. CASE UNCHANGED Monitor!vars
  BY <1>25 DEF MonitoredInv, Kept, Stops, Listed, Unexcused, MonitorTypes, Monitor!Steps,
      Monitor!Phases, Monitor!Purposes, PurposeInv, NoneInv, SomeoneSubscribes,
      Monitor!Subscribing, StopInv, OpenInv, KeptInv, Stopping, Monitor!vars, Monitor!state,
      Monitor!service, Monitor!calls, Monitor!recovery
<1> QED BY <1>1, <1>2, <1>3, <1>4, <1>5, <1>6, <1>7, <1>8, <1>9, <1>10, <1>11, <1>12, <1>13,
    <1>14, <1>15, <1>16, <1>17, <1>18, <1>19, <1>20, <1>21, <1>22, <1>23, <1>24, <1>25 DEF
        Monitor!Next

\* A step keeps that somebody knows of every record.
LEMMA RecordInvKept ==
  ASSUME DataAssumption, MonitorTypes, PurposeInv, NoneInv, StopInv, RecordInv,
         Monitor!Next \/ UNCHANGED Monitor!vars
  PROVE  RecordInv'
<1>1. ASSUME NEW c \in Calls, NEW t \in Topics, Monitor!Unsubscribe(c, t) PROVE RecordInv'
  BY <1>1 DEF RecordInv, Accountable, Stops, SomeoneSubscribes, Monitor!Subscribing, Stopping,
      Unexcused, Monitor!Unsubscribe, Monitor!state, Monitor!Excuse
<1>2. ASSUME NEW c \in Calls, NEW t \in Topics, Monitor!UnsubscribeFails(c, t) PROVE RecordInv'
  BY <1>2 DEF RecordInv, Accountable, Unexcused, Monitor!UnsubscribeFails, Monitor!Excuse
<1>3. ASSUME NEW c \in Calls, NEW t \in Topics, Monitor!SaveRecord(c, t) PROVE RecordInv'
  BY <1>3 DEF RecordInv, Accountable, SomeoneSubscribes, Monitor!Subscribing, Stopping, Unexcused,
      MonitorTypes, Monitor!SaveRecord, Monitor!state
<1>4. ASSUME NEW c \in Calls, NEW t \in Topics, Monitor!Note(c, t) PROVE RecordInv'
  BY <1>4 DEF RecordInv, Accountable, SomeoneSubscribes, Monitor!Subscribing, Stopping, Unexcused,
      Monitor!Note, Monitor!state, Monitor!service
<1>5. ASSUME NEW c \in Calls, NEW t \in Topics, Monitor!SubscribeFails(c, t) PROVE RecordInv'
  BY <1>5 DEF RecordInv, Accountable, Unexcused, Monitor!SubscribeFails
<1>6. ASSUME NEW c \in Calls, Monitor!Stopped(c) PROVE RecordInv'
  BY <1>6 DEF RecordInv, Accountable, SomeoneSubscribes, Monitor!Subscribing, Unexcused, StopInv,
      Monitor!Stopped, Monitor!service
<1>7. ASSUME NEW c \in Calls, Monitor!Enter(c) PROVE RecordInv'
  <2>1. CASE monitored # {}
    <3>1. UNCHANGED <<step, excuse>> /\ phase[c] # "stopping" /\ phase'[c] # "stopping"
          /\ \A d \in Calls \ {c} : phase'[d] = phase[d]
      BY <1>7, <2>1 DEF Monitor!Enter, MonitorTypes
    <3>2. UNCHANGED <<account, erasing, monitored, records, resubscribing, doomed, by>>
      BY <1>7 DEF Monitor!Enter, Monitor!state, Monitor!service
    <3> QED BY <3>1, <3>2 DEF RecordInv, Accountable, Unexcused, SomeoneSubscribes, Stops, Stopping,
        Monitor!Subscribing
  <2>2. CASE monitored = {}
    <3> SUFFICES ASSUME Accountable'
                 PROVE  RecordInv'
      BY DEF RecordInv, Accountable
    <3>1. UNCHANGED <<account, erasing, monitored, records, resubscribing, doomed, by>>
      BY <1>7 DEF Monitor!Enter, Monitor!state, Monitor!service
    <3>2. /\ phase[c] \in {"fetch", "enter"} /\ phase'[c] = "monitoring"
          /\ \A d \in Calls \ {c} : phase'[d] = phase[d] /\ step'[d] = step[d]
      BY <1>7, <2>2 DEF Monitor!Enter, MonitorTypes
    <3>3. Accountable /\ Listed
      BY <1>7, <2>2 DEF Monitor!Enter, Monitor!Excuse, Accountable, Unexcused, Listed
    <3>4. ~Stopping /\ ~Monitor!Subscribing(c)
      BY <2>2, <3>2, <3>3 DEF Accountable, StopInv, PurposeInv, Stopping, Stops, Listed, Unexcused
    <3>5. ~Stopping'
      BY <3>2, <3>4 DEF Stopping
    <3>6. \A t \in records' \cup resubscribing' : t \in monitored' \/
            \E d \in Calls : step'[d][t] = "note"
      BY <3>1, <3>2, <3>3, <3>4 DEF RecordInv, Accountable, MonitorTypes, Monitor!Subscribing
    <3> QED BY <3>1, <3>3, <3>5, <3>6 DEF RecordInv, Accountable, Stopping, Listed, MonitorTypes
  <2> QED BY <2>1, <2>2
<1>8. ASSUME NEW c \in Calls, Monitor!Monitored(c) PROVE RecordInv'
  BY <1>8 DEF RecordInv, Accountable, Stops, SomeoneSubscribes, Monitor!Subscribing, Stopping,
      Unexcused, Monitor!Monitored, Monitor!state, Monitor!service, Monitor!Goes
<1>9. ASSUME NEW c \in Calls, Monitor!CreateAccount(c) PROVE RecordInv'
  BY <1>9 DEF RecordInv, Accountable, Stops, SomeoneSubscribes, Monitor!Subscribing, Stopping,
      Unexcused, Monitor!CreateAccount, Monitor!service, Monitor!Begins, Monitor!Free
<1>10. ASSUME NEW c \in Calls, Monitor!Announce(c) PROVE RecordInv'
  BY <1>10 DEF RecordInv, Accountable, Stops, SomeoneSubscribes, Monitor!Subscribing, Stopping,
      Unexcused, Monitor!Announce, Monitor!state, Monitor!service, Monitor!Goes
<1>11. ASSUME NEW c \in Calls, Monitor!CreateFails(c) PROVE RecordInv'
  <2> SUFFICES ASSUME Accountable'
               PROVE  RecordInv'
    BY DEF RecordInv, Accountable
  <2>1. UNCHANGED <<account, monitored, records, resubscribing, doomed, by, step>> /\
          erasing' = TRUE
    BY <1>11 DEF Monitor!CreateFails, Monitor!service
  <2>2. phase[c] # "stopping" /\ phase'[c] # "stopping" /\
          \A d \in Calls \ {c} : phase'[d] = phase[d]
    BY <1>11 DEF Monitor!CreateFails, Monitor!Goes, MonitorTypes
  <2>3. /\ Accountable
        /\ monitored = {} /\ ~SomeoneSubscribes
    BY <1>11 DEF Monitor!CreateFails, Monitor!Excuse, Accountable, Unexcused, SomeoneSubscribes
  <2>4. Stopping => \E d \in Calls : Stops(d, "delete")
    BY <2>3 DEF Accountable, StopInv, PurposeInv, Stopping, Stops, Unexcused
  <2>5. ~Stopping => records \cup resubscribing = {}
    BY <2>3 DEF RecordInv, Accountable, SomeoneSubscribes, Monitor!Subscribing, MonitorTypes
  <2>6. ~SomeoneSubscribes'
    BY <2>1, <2>3 DEF SomeoneSubscribes, Monitor!Subscribing
  <2>7. (\E d \in Calls : Stops(d, "delete")) => (\E d \in Calls : Stops(d, "delete"))'
    BY <2>1, <2>2 DEF Stops
  <2>8. \A d \in Calls : (phase'[d] = "stopping") <=> (phase[d] = "stopping")
    BY <2>2
  <2>9. \A d \in Calls : phase'[d] = "stopping" =>
          (records \cup resubscribing)' \subseteq doomed'[d]
    BY <2>1, <2>3, <2>8 DEF RecordInv, Accountable
  <2> QED BY <2>1, <2>4, <2>5, <2>6, <2>7, <2>8, <2>9 DEF RecordInv, Accountable, Stopping
<1>12. ASSUME NEW c \in Calls, Monitor!DeleteAccount(c) PROVE RecordInv'
  BY <1>12 DEF RecordInv, Accountable, Stops, SomeoneSubscribes, Monitor!Subscribing, Stopping,
      Unexcused, MonitorTypes, Monitor!DeleteAccount, Monitor!service, Monitor!ReadMap,
      Monitor!Excuse, Monitor!Begins
<1>13. ASSUME NEW c \in Calls, Monitor!HandleOnStart(c) PROVE RecordInv'
  BY <1>13 DEF RecordInv, Accountable, Stops, SomeoneSubscribes, Monitor!Subscribing, Stopping,
      Unexcused, Monitor!HandleOnStart, Monitor!state, Monitor!service, Monitor!Begins,
      Monitor!Free
<1>14. ASSUME NEW c \in Calls, Monitor!ListAccounts(c) PROVE RecordInv'
  BY <1>14 DEF RecordInv, Accountable, Stops, SomeoneSubscribes, Monitor!Subscribing, Stopping,
      Unexcused, MonitorTypes, NoneInv, Monitor!ListAccounts, Monitor!state, Monitor!service,
      Monitor!ReadMap, Monitor!Excuse, Monitor!Goes, Monitor!Assumptions
<1>15. ASSUME NEW t \in Topics, Monitor!Resubscribe(t) PROVE RecordInv'
  BY <1>15 DEF RecordInv, Accountable, Stops, SomeoneSubscribes, Monitor!Subscribing, Stopping,
      Unexcused, Monitor!Resubscribe, Monitor!state, Monitor!calls
<1>16. ASSUME Monitor!Erase PROVE RecordInv'
  BY <1>16 DEF RecordInv, Accountable, Stops, SomeoneSubscribes, Monitor!Subscribing, Stopping,
      Unexcused, Monitor!Erase, Monitor!service, Monitor!calls
<1>17. ASSUME NEW c \in Calls, Monitor!SaveOverwritten(c) PROVE RecordInv'
  BY <1>17 DEF RecordInv, Accountable, Unexcused, Monitor!SaveOverwritten, Monitor!Excuse
<1>18. ASSUME Monitor!EraseFails PROVE RecordInv'
  BY <1>18 DEF RecordInv, Accountable, Unexcused, Monitor!EraseFails, Monitor!Excuse
<1>19. ASSUME Monitor!EraseOverwritten PROVE RecordInv'
  BY <1>19 DEF RecordInv, Accountable, Unexcused, Monitor!EraseOverwritten, Monitor!Excuse
<1>20. ASSUME Monitor!Erased PROVE RecordInv'
  BY <1>20 DEF RecordInv, Accountable, Stops, SomeoneSubscribes, Monitor!Subscribing, Stopping,
      Unexcused, Monitor!Erased, Monitor!service, Monitor!calls
<1>21. ASSUME Monitor!Open PROVE RecordInv'
  BY <1>21 DEF RecordInv, Accountable, Stops, SomeoneSubscribes, Monitor!Subscribing, Stopping,
      Unexcused, Monitor!Open, Monitor!state, Monitor!service, Monitor!calls
<1>22. ASSUME Monitor!DeleteRecords PROVE RecordInv'
  BY <1>22 DEF RecordInv, Accountable, Stops, SomeoneSubscribes, Monitor!Subscribing, Stopping,
      Unexcused, Monitor!DeleteRecords, Monitor!state, Monitor!calls
<1>23. ASSUME Monitor!Recover PROVE RecordInv'
  BY <1>23 DEF RecordInv, Accountable, Stops, SomeoneSubscribes, Monitor!Subscribing, Stopping,
      Unexcused, Monitor!Recover, Monitor!state, Monitor!service, Monitor!calls
<1>24. ASSUME Monitor!Restart PROVE RecordInv'
  BY <1>24 DEF RecordInv, Accountable, Unexcused, Monitor!Restart
<1>25. CASE UNCHANGED Monitor!vars
  BY <1>25 DEF RecordInv, Accountable, Stops, SomeoneSubscribes, Monitor!Subscribing, Stopping,
      Unexcused, MonitorTypes, Monitor!Steps, Monitor!Phases, Monitor!Purposes, PurposeInv,
      NoneInv, StopInv, Monitor!vars, Monitor!state, Monitor!service, Monitor!calls,
      Monitor!recovery
<1> QED BY <1>1, <1>2, <1>3, <1>4, <1>5, <1>6, <1>7, <1>8, <1>9, <1>10, <1>11, <1>12, <1>13,
    <1>14, <1>15, <1>16, <1>17, <1>18, <1>19, <1>20, <1>21, <1>22, <1>23, <1>24, <1>25 DEF
        Monitor!Next

\* A step keeps a native topic for the recovery to find.
LEMMA SyncInvKept ==
  ASSUME DataAssumption, MonitorTypes, PurposeInv, NoneInv, StopInv, OpenInv, KeptInv, SyncInv,
         Monitor!Next \/ UNCHANGED Monitor!vars
  PROVE  SyncInv'
<1>1. ASSUME NEW c \in Calls, NEW t \in Topics, Monitor!Unsubscribe(c, t) PROVE SyncInv'
  BY <1>1 DEF SyncInv, Stops, Listed, Unexcused, PurposeInv, StopInv, Monitor!Unsubscribe,
      Monitor!state, Monitor!recovery, Monitor!Excuse
<1>2. ASSUME NEW c \in Calls, NEW t \in Topics, Monitor!UnsubscribeFails(c, t) PROVE SyncInv'
  BY <1>2 DEF SyncInv, Unexcused, Monitor!UnsubscribeFails, Monitor!recovery, Monitor!Excuse
<1>3. ASSUME NEW c \in Calls, NEW t \in Topics, Monitor!SaveRecord(c, t) PROVE SyncInv'
  BY <1>3 DEF SyncInv, Kept, Stops, Listed, Unexcused, Monitor!SaveRecord, Monitor!state,
      Monitor!recovery
<1>4. ASSUME NEW c \in Calls, NEW t \in Topics, Monitor!Note(c, t) PROVE SyncInv'
  BY <1>4 DEF SyncInv, Kept, Stops, Listed, Unexcused, Monitor!Note, Monitor!state,
      Monitor!service, Monitor!recovery
<1>5. ASSUME NEW c \in Calls, NEW t \in Topics, Monitor!SubscribeFails(c, t) PROVE SyncInv'
  BY <1>5 DEF SyncInv, Unexcused, Monitor!SubscribeFails, Monitor!recovery
<1>6. ASSUME NEW c \in Calls, Monitor!Stopped(c) PROVE SyncInv'
  BY <1>6 DEF SyncInv, Kept, Stops, Listed, Unexcused, MonitorTypes, Monitor!Stopped,
      Monitor!service, Monitor!recovery
<1>7. ASSUME NEW c \in Calls, Monitor!Enter(c) PROVE SyncInv'
  BY <1>7 DEF SyncInv, Kept, Stops, Listed, Unexcused, MonitorTypes, PurposeInv, StopInv, KeptInv,
      Stopping, Monitor!Enter, Monitor!state, Monitor!service, Monitor!recovery,
      Monitor!Assumptions
<1>8. ASSUME NEW c \in Calls, Monitor!Monitored(c) PROVE SyncInv'
  BY <1>8 DEF SyncInv, Kept, Stops, Listed, Unexcused, Monitor!Monitored, Monitor!state,
      Monitor!service, Monitor!recovery, Monitor!Goes
<1>9. ASSUME NEW c \in Calls, Monitor!CreateAccount(c) PROVE SyncInv'
  BY <1>9 DEF SyncInv, NoneInv, Monitor!CreateAccount, Monitor!recovery
<1>10. ASSUME NEW c \in Calls, Monitor!Announce(c) PROVE SyncInv'
  BY <1>10 DEF SyncInv, Kept, Stops, Listed, Unexcused, Monitor!Announce, Monitor!state,
      Monitor!service, Monitor!recovery, Monitor!Goes
<1>11. ASSUME NEW c \in Calls, Monitor!CreateFails(c) PROVE SyncInv'
  BY <1>11 DEF SyncInv, Listed, Monitor!CreateFails, Monitor!recovery
<1>12. ASSUME NEW c \in Calls, Monitor!DeleteAccount(c) PROVE SyncInv'
  BY <1>12 DEF SyncInv, Listed, Monitor!DeleteAccount, Monitor!recovery
<1>13. ASSUME NEW c \in Calls, Monitor!HandleOnStart(c) PROVE SyncInv'
  BY <1>13 DEF SyncInv, Kept, Stops, Listed, Unexcused, Monitor!HandleOnStart, Monitor!state,
      Monitor!service, Monitor!recovery, Monitor!Begins, Monitor!Free
<1>14. ASSUME NEW c \in Calls, Monitor!ListAccounts(c) PROVE SyncInv'
  BY <1>14 DEF SyncInv, Kept, Stops, Listed, Unexcused, MonitorTypes, Monitor!ListAccounts,
      Monitor!state, Monitor!service, Monitor!recovery, Monitor!ReadMap, Monitor!Excuse,
      Monitor!Goes
<1>15. ASSUME NEW t \in Topics, Monitor!Resubscribe(t) PROVE SyncInv'
  BY <1>15 DEF SyncInv, Kept, Stops, Listed, Unexcused, Monitor!Resubscribe, Monitor!state,
      Monitor!recovery, Monitor!calls
<1>16. ASSUME Monitor!Erase PROVE SyncInv'
  BY <1>16 DEF SyncInv, Listed, Monitor!Erase, Monitor!recovery
<1>17. ASSUME NEW c \in Calls, Monitor!SaveOverwritten(c) PROVE SyncInv'
  BY <1>17 DEF SyncInv, Unexcused, Monitor!SaveOverwritten, Monitor!Excuse, Monitor!recovery
<1>18. ASSUME Monitor!EraseFails PROVE SyncInv'
  BY <1>18 DEF SyncInv, Unexcused, Monitor!EraseFails, Monitor!Excuse, Monitor!recovery
<1>19. ASSUME Monitor!EraseOverwritten PROVE SyncInv'
  BY <1>19 DEF SyncInv, Unexcused, Monitor!EraseOverwritten, Monitor!Excuse, Monitor!recovery
<1>20. ASSUME Monitor!Erased PROVE SyncInv'
  BY <1>20 DEF SyncInv, Listed, Monitor!Erased, Monitor!recovery
<1>21. ASSUME Monitor!Open PROVE SyncInv'
  BY <1>21 DEF SyncInv, Kept, Stops, Listed, Unexcused, MonitorTypes, PurposeInv, StopInv,
      KeptInv, Stopping, Monitor!Open, Monitor!service, Monitor!calls
<1>22. ASSUME Monitor!DeleteRecords PROVE SyncInv'
  BY <1>22 DEF SyncInv, Kept, Stops, Listed, Unexcused, OpenInv, Monitor!DeleteRecords,
      Monitor!state, Monitor!calls
<1>23. ASSUME Monitor!Recover PROVE SyncInv'
  BY <1>23 DEF SyncInv, Monitor!Recover, DataAssumption
<1>24. ASSUME Monitor!Restart PROVE SyncInv'
  BY <1>24 DEF SyncInv, Monitor!Restart, DataAssumption
<1>25. CASE UNCHANGED Monitor!vars
  BY <1>25 DEF SyncInv, Kept, Stops, Listed, Unexcused, MonitorTypes, Monitor!Steps,
      Monitor!Phases, Monitor!Purposes, PurposeInv, NoneInv, SomeoneSubscribes,
      Monitor!Subscribing, StopInv, OpenInv, KeptInv, Stopping, Monitor!vars, Monitor!state,
      Monitor!service, Monitor!calls, Monitor!recovery
<1> QED BY <1>1, <1>2, <1>3, <1>4, <1>5, <1>6, <1>7, <1>8, <1>9, <1>10, <1>11, <1>12, <1>13,
    <1>14, <1>15, <1>16, <1>17, <1>18, <1>19, <1>20, <1>21, <1>22, <1>23, <1>24, <1>25 DEF
        Monitor!Next

\* The recovery finds it, or the reason why not.
LEMMA RecoveredInvKept ==
  ASSUME DataAssumption, NoneInv, SyncInv, RecoveredInv, Monitor!Next \/ UNCHANGED Monitor!vars
  PROVE  RecoveredInv'
<1>1. ASSUME NEW c \in Calls, NEW t \in Topics, Monitor!Unsubscribe(c, t) PROVE RecoveredInv'
  BY <1>1 DEF RecoveredInv, Unexcused, Listed, Monitor!Unsubscribe, Monitor!state,
      Monitor!recovery, Monitor!Excuse
<1>2. ASSUME NEW c \in Calls, NEW t \in Topics, Monitor!UnsubscribeFails(c, t) PROVE RecoveredInv'
  BY <1>2 DEF RecoveredInv, Unexcused, Monitor!UnsubscribeFails, Monitor!Excuse
<1>3. ASSUME NEW c \in Calls, NEW t \in Topics, Monitor!SaveRecord(c, t) PROVE RecoveredInv'
  BY <1>3 DEF RecoveredInv, Unexcused, Listed, Monitor!SaveRecord, Monitor!state, Monitor!recovery
<1>4. ASSUME NEW c \in Calls, NEW t \in Topics, Monitor!Note(c, t) PROVE RecoveredInv'
  BY <1>4 DEF RecoveredInv, Unexcused, Listed, Monitor!Note, Monitor!state, Monitor!recovery
<1>5. ASSUME NEW c \in Calls, NEW t \in Topics, Monitor!SubscribeFails(c, t) PROVE RecoveredInv'
  BY <1>5 DEF RecoveredInv, Unexcused, Monitor!SubscribeFails
<1>6. ASSUME NEW c \in Calls, Monitor!Stopped(c) PROVE RecoveredInv'
  BY <1>6 DEF RecoveredInv, Unexcused, Listed, Monitor!Stopped, Monitor!recovery
<1>7. ASSUME NEW c \in Calls, Monitor!Enter(c) PROVE RecoveredInv'
  BY <1>7 DEF RecoveredInv, Unexcused, Listed, Monitor!Enter, Monitor!state, Monitor!recovery,
      Monitor!Excuse
<1>8. ASSUME NEW c \in Calls, Monitor!Monitored(c) PROVE RecoveredInv'
  BY <1>8 DEF RecoveredInv, Unexcused, Listed, Monitor!Monitored, Monitor!state, Monitor!recovery
<1>9. ASSUME NEW c \in Calls, Monitor!CreateAccount(c) PROVE RecoveredInv'
  BY <1>9 DEF RecoveredInv, NoneInv, Monitor!CreateAccount, Monitor!recovery
<1>10. ASSUME NEW c \in Calls, Monitor!Announce(c) PROVE RecoveredInv'
  BY <1>10 DEF RecoveredInv, Unexcused, Listed, Monitor!Announce, Monitor!state, Monitor!recovery
<1>11. ASSUME NEW c \in Calls, Monitor!CreateFails(c) PROVE RecoveredInv'
  BY <1>11 DEF RecoveredInv, Listed, Monitor!CreateFails
<1>12. ASSUME NEW c \in Calls, Monitor!DeleteAccount(c) PROVE RecoveredInv'
  BY <1>12 DEF RecoveredInv, Listed, Monitor!DeleteAccount
<1>13. ASSUME NEW c \in Calls, Monitor!HandleOnStart(c) PROVE RecoveredInv'
  BY <1>13 DEF RecoveredInv, Unexcused, Listed, Monitor!HandleOnStart, Monitor!state,
      Monitor!recovery
<1>14. ASSUME NEW c \in Calls, Monitor!ListAccounts(c) PROVE RecoveredInv'
  BY <1>14 DEF RecoveredInv, Unexcused, Listed, Monitor!ListAccounts, Monitor!state,
      Monitor!recovery, Monitor!ReadMap, Monitor!Excuse
<1>15. ASSUME NEW t \in Topics, Monitor!Resubscribe(t) PROVE RecoveredInv'
  BY <1>15 DEF RecoveredInv, Unexcused, Listed, Monitor!Resubscribe, Monitor!state, Monitor!recovery
<1>16. ASSUME Monitor!Erase PROVE RecoveredInv'
  BY <1>16 DEF RecoveredInv, Listed, Monitor!Erase
<1>17. ASSUME NEW c \in Calls, Monitor!SaveOverwritten(c) PROVE RecoveredInv'
  BY <1>17 DEF RecoveredInv, Unexcused, Monitor!SaveOverwritten, Monitor!Excuse
<1>18. ASSUME Monitor!EraseFails PROVE RecoveredInv'
  BY <1>18 DEF RecoveredInv, Unexcused, Monitor!EraseFails, Monitor!Excuse
<1>19. ASSUME Monitor!EraseOverwritten PROVE RecoveredInv'
  BY <1>19 DEF RecoveredInv, Unexcused, Monitor!EraseOverwritten, Monitor!Excuse
<1>20. ASSUME Monitor!Erased PROVE RecoveredInv'
  BY <1>20 DEF RecoveredInv, Listed, Monitor!Erased
<1>21. ASSUME Monitor!Open PROVE RecoveredInv'
  BY <1>21 DEF RecoveredInv, Listed, Monitor!Open
<1>22. ASSUME Monitor!DeleteRecords PROVE RecoveredInv'
  BY <1>22 DEF RecoveredInv, Unexcused, Listed, Monitor!DeleteRecords, Monitor!state
<1>23. ASSUME Monitor!Recover PROVE RecoveredInv'
  <2> SUFFICES ASSUME Unexcused({"rejected", "overwritten", "crossed", "cleared", "between"})',
                      unsynced', Listed'
               PROVE  FALSE
    BY DEF RecoveredInv
  <2>1. /\ Unexcused({"rejected", "overwritten", "crossed"})
        /\ "recover" \in opened /\ unsynced /\ Listed
        /\ records \cap NativeTopics = {} /\ resubscribing \cap NativeTopics = {}
        /\ \A c \in Calls : ~Monitor!Subscribing(c) /\ phase[c] \notin {"stopping", "enter"}
    BY <1>23 DEF Monitor!Recover, Monitor!state, Unexcused, Listed
  <2> QED BY <2>1 DEF SyncInv, Stops, Kept, Monitor!Subscribing, DataAssumption, Monitor!Assumptions
<1>24. ASSUME Monitor!Restart PROVE RecoveredInv'
  BY <1>24 DEF RecoveredInv, Listed, Monitor!Restart
<1>25. CASE UNCHANGED Monitor!vars
  BY <1>25 DEF RecoveredInv, Unexcused, Listed, Monitor!vars, Monitor!state, Monitor!recovery
<1> QED BY <1>1, <1>2, <1>3, <1>4, <1>5, <1>6, <1>7, <1>8, <1>9, <1>10, <1>11, <1>12, <1>13,
    <1>14, <1>15, <1>16, <1>17, <1>18, <1>19, <1>20, <1>21, <1>22, <1>23, <1>24, <1>25 DEF
        Monitor!Next

-----------------------------------------------------------------------------
(* Assets: where the balance of an asset is, from the cluster to the extension. *)

\* The domains of what is updated by asset or by call, and the type of the notifications.
BalanceTypes ==
  /\ DOMAIN real = Holdings
  /\ inbox \in Seq(Holdings \X Nat)
  /\ DOMAIN phase = Calls /\ DOMAIN batch = Calls /\ DOMAIN old = Calls
  /\ DOMAIN held = Calls /\ DOMAIN overtaken = Calls

\* A call that saves nothing is overtaken by nobody, and one that has fetched nothing holds nothing.
WaitInv == \A c \in Calls :
  /\ ~Balances!Waiting(c) => overtaken[c] = {}
  /\ phase[c] \in {"idle", "fetch"} => batch[c] = Balances!Nothing

\* Of an asset, one call at most is to save the last balance that any call has got.
LatestInv == \A c, d \in Calls : c # d => Balances!Latest(c) \cap Balances!Latest(d) = {}

\* One of these excuses is given for the asset.
Excused(a, why) == \E w \in why : w \in excuse[a]
\* A notification of the asset is on its way.
Notified(a) == \E i \in DOMAIN inbox : inbox[i][1] = a
\* The last one of the asset says this amount.
NotifiedOf(a, amount) ==
  \E i \in DOMAIN inbox :
    inbox[i][1] = a /\ inbox[i][2] = amount /\ \A j \in DOMAIN inbox : inbox[j][1] = a => j <= i
\* A call is to save the last balance of the asset.
ToSave(a) == \E c \in Calls : a \in Balances!Latest(c)
\* Where the balance on the cluster is: nobody was told of it, it is on its way, with the call
\* that will save it, or saved; or an excuse says why it is lost.
SavedOf(a) ==
  \/ a \in unheard
  \/ Excused(a, Balances!Unsaved)
  \/ NotifiedOf(a, real[a])
  \/ ~Notified(a) /\ \E c \in Calls : a \in Balances!Latest(c) /\ batch[c][a] = real[a]
  \/ ~Notified(a) /\ ~ToSave(a) /\ saved[a] = real[a]
SavedInv == \A a \in Holdings : SavedOf(a)

\* The extension lists the asset as it is saved.
ListRight(a) == a \in NativeHoldings \/ (a \in listed <=> saved[a] \notin {Absent, 0})
\* It shows the saved balance.
BalanceRight(a) == a \in listed => shown[a] = IF saved[a] = Absent THEN 0 ELSE saved[a]
\* The assets of which a call is about to announce that they are listed, or are no longer.
Announces(c) == IF phase[c] = "added" THEN Balances!Added(c) \cup Balances!Removed(c) ELSE {}
\* The assets of which a call is about to announce the balance, or that they need none.
Updates(c) ==
  IF phase[c] = "added" THEN Balances!Updated(c) \cup Balances!Removed(c)
  ELSE IF phase[c] = "balances" THEN Balances!Updated(c) ELSE {}
Unshown == Balances!Unannounced \cup {"undone"}
\* What the extension has wrong, a call is about to announce.
ShownOf(a) ==
  \/ Excused(a, Unshown)
  \/ /\ ListRight(a) \/ \E c \in Calls : a \in Announces(c)
     /\ BalanceRight(a) \/ \E c \in Calls : a \in Updates(c)
ShownInv == \A a \in Holdings : ShownOf(a)

\* A step keeps the domains.
LEMMA BalanceTypesKept ==
  ASSUME DataAssumption, BalanceTypes, Balances!Next \/ UNCHANGED Balances!vars
  PROVE  BalanceTypes'
<1>1. ASSUME NEW a \in Holdings, Balances!Change(a) PROVE BalanceTypes'
  <2>1. PICK amount \in Balances!Amounts \cup (IF a \in NativeHoldings THEN {} ELSE {Absent}) :
          /\ real' = [real EXCEPT ![a] = amount]
          /\ \/ amount # Absent /\ inbox' = Append(inbox, <<a, amount>>)
             \/ inbox' = inbox
    BY <1>1 DEF Balances!Change
  <2>2. DOMAIN real' = Holdings
    BY <2>1 DEF BalanceTypes
  <2>3. amount # Absent => <<a, amount>> \in Holdings \X Nat
    BY <2>1 DEF Balances!Amounts, DataAssumption, Balances!Assumptions
  <2>4. inbox' \in Seq(Holdings \X Nat)
    <3>1. CASE amount # Absent /\ inbox' = Append(inbox, <<a, amount>>)
      BY <2>3, <3>1 DEF BalanceTypes
    <3>2. CASE inbox' = inbox
      BY <3>2 DEF BalanceTypes
    <3> QED BY <2>1, <3>1, <3>2
  <2> QED BY <1>1, <2>2, <2>4 DEF BalanceTypes, Balances!Change, Balances!calls
<1>2. ASSUME Balances!Drop PROVE BalanceTypes'
  BY <1>2 DEF BalanceTypes, Balances!Drop, Balances!calls
<1>3. ASSUME Balances!Open PROVE BalanceTypes'
  BY <1>3 DEF BalanceTypes, Balances!Open, Balances!calls
<1>4. ASSUME Balances!Resubscribed PROVE BalanceTypes'
  BY <1>4 DEF BalanceTypes, Balances!Resubscribed, Balances!calls
<1>5. ASSUME Balances!Restart PROVE BalanceTypes'
  BY <1>5 DEF BalanceTypes, Balances!Restart, DataAssumption
<1>6. ASSUME Balances!Query PROVE BalanceTypes'
  BY <1>6 DEF BalanceTypes, Balances!Query, Balances!wire, Balances!calls, Balances!Unannounced
<1>7. ASSUME NEW c \in Calls, Balances!HandleNotification(c) PROVE BalanceTypes'
  BY <1>7 DEF BalanceTypes, Balances!HandleNotification, Balances!Overtake
<1>8. ASSUME NEW c \in Calls, Balances!Synchronize(c) PROVE BalanceTypes'
  BY <1>8 DEF BalanceTypes, Balances!Synchronize, DataAssumption
<1>9. ASSUME NEW c \in Calls, Balances!Fetch(c) PROVE BalanceTypes'
  BY <1>9 DEF BalanceTypes, Balances!Fetch, Balances!wire, Balances!Tokens, Balances!Overtake,
      Balances!Only, Balances!Answers
<1>10. ASSUME NEW c \in Calls, Balances!Compare(c) PROVE BalanceTypes'
  BY <1>10 DEF BalanceTypes, Balances!Compare, Balances!wire, Balances!Only
<1>11. ASSUME NEW c \in Calls, Balances!ListSaved(c) PROVE BalanceTypes'
  BY <1>11 DEF BalanceTypes, Balances!ListSaved, Balances!wire
<1>12. ASSUME NEW c \in Calls, Balances!ReadState(c) PROVE BalanceTypes'
  BY <1>12 DEF BalanceTypes, Balances!ReadState, Balances!wire
<1>13. ASSUME NEW c \in Calls, Balances!WriteState(c) PROVE BalanceTypes'
  BY <1>13 DEF BalanceTypes, Balances!WriteState, Balances!wire, Balances!Over, Balances!Goes
<1>14. ASSUME NEW c \in Calls, Balances!AnnounceList(c) PROVE BalanceTypes'
  BY <1>14 DEF BalanceTypes, Balances!AnnounceList, Balances!wire, Balances!Goes
<1>15. ASSUME NEW c \in Calls, Balances!AnnounceBalances(c) PROVE BalanceTypes'
  BY <1>15 DEF BalanceTypes, Balances!AnnounceBalances, Balances!wire, Balances!Goes
<1>16. ASSUME NEW c \in Calls, Balances!Fail(c) PROVE BalanceTypes'
  BY <1>16 DEF BalanceTypes, Balances!Fail, Balances!wire, Balances!Goes
<1>17. CASE UNCHANGED Balances!vars
  BY <1>17 DEF BalanceTypes, Balances!vars, Balances!extension, Balances!wire, Balances!calls,
      Balances!history
<1> QED BY <1>1, <1>2, <1>3, <1>4, <1>5, <1>6, <1>7, <1>8, <1>9, <1>10, <1>11, <1>12, <1>13,
    <1>14, <1>15, <1>16, <1>17 DEF Balances!Next

\* A step keeps what idle calls hold.
LEMMA WaitInvKept ==
  ASSUME DataAssumption, BalanceTypes, WaitInv, Balances!Next \/ UNCHANGED Balances!vars
  PROVE  WaitInv'
<1>1. ASSUME NEW a \in Holdings, Balances!Change(a) PROVE WaitInv'
  BY <1>1 DEF WaitInv, Balances!Waiting, Balances!Change, Balances!calls, Balances!Amounts
<1>2. ASSUME Balances!Drop PROVE WaitInv'
  BY <1>2 DEF WaitInv, Balances!Waiting, Balances!Drop, Balances!calls
<1>3. ASSUME Balances!Open PROVE WaitInv'
  BY <1>3 DEF WaitInv, Balances!Waiting, Balances!Open, Balances!calls
<1>4. ASSUME Balances!Resubscribed PROVE WaitInv'
  BY <1>4 DEF WaitInv, Balances!Waiting, Balances!Resubscribed, Balances!calls
<1>5. ASSUME Balances!Restart PROVE WaitInv'
  BY <1>5 DEF WaitInv, Balances!Restart, DataAssumption
<1>6. ASSUME Balances!Query PROVE WaitInv'
  BY <1>6 DEF WaitInv, Balances!Waiting, Balances!Query, Balances!calls, Balances!Unannounced
<1>7. ASSUME NEW c \in Calls, Balances!HandleNotification(c) PROVE WaitInv'
  BY <1>7 DEF WaitInv, Balances!Waiting, BalanceTypes, Balances!HandleNotification,
      Balances!Overtake
<1>8. ASSUME NEW c \in Calls, Balances!Synchronize(c) PROVE WaitInv'
  BY <1>8 DEF WaitInv, Balances!Waiting, Balances!Synchronize
<1>9. ASSUME NEW c \in Calls, Balances!Fetch(c) PROVE WaitInv'
  BY <1>9 DEF WaitInv, Balances!Waiting, BalanceTypes, Balances!Fetch, Balances!Tokens,
      Balances!Overtake, Balances!Only, Balances!Answers
<1>10. ASSUME NEW c \in Calls, Balances!Compare(c) PROVE WaitInv'
  BY <1>10 DEF WaitInv, Balances!Waiting, Balances!Compare, Balances!Only
<1>11. ASSUME NEW c \in Calls, Balances!ListSaved(c) PROVE WaitInv'
  BY <1>11 DEF WaitInv, Balances!Waiting, Balances!ListSaved
<1>12. ASSUME NEW c \in Calls, Balances!ReadState(c) PROVE WaitInv'
  BY <1>12 DEF WaitInv, Balances!Waiting, Balances!ReadState
<1>13. ASSUME NEW c \in Calls, Balances!WriteState(c) PROVE WaitInv'
  BY <1>13 DEF WaitInv, Balances!Waiting, BalanceTypes, Balances!WriteState, Balances!Over,
      Balances!Goes, Balances!AfterWrite, Balances!AfterList
<1>14. ASSUME NEW c \in Calls, Balances!AnnounceList(c) PROVE WaitInv'
  BY <1>14 DEF WaitInv, Balances!Waiting, BalanceTypes, Balances!AnnounceList, Balances!Goes,
      Balances!AfterList
<1>15. ASSUME NEW c \in Calls, Balances!AnnounceBalances(c) PROVE WaitInv'
  BY <1>15 DEF WaitInv, Balances!Waiting, BalanceTypes, Balances!AnnounceBalances, Balances!Goes
<1>16. ASSUME NEW c \in Calls, Balances!Fail(c) PROVE WaitInv'
  BY <1>16 DEF WaitInv, Balances!Waiting, BalanceTypes, Balances!Fail, Balances!Goes
<1>17. CASE UNCHANGED Balances!vars
  BY <1>17 DEF WaitInv, Balances!Nothing, Balances!Waiting, BalanceTypes, Balances!vars,
      Balances!extension, Balances!wire, Balances!calls, Balances!history
<1> QED BY <1>1, <1>2, <1>3, <1>4, <1>5, <1>6, <1>7, <1>8, <1>9, <1>10, <1>11, <1>12, <1>13,
    <1>14, <1>15, <1>16, <1>17 DEF Balances!Next

\* A step keeps that one call at most has the latest balance: who gets a later one overtakes the
\* others.
LEMMA LatestInvKept ==
  ASSUME DataAssumption, BalanceTypes, WaitInv, LatestInv, Balances!Next \/ UNCHANGED Balances!vars
  PROVE  LatestInv'
<1>1. ASSUME NEW a \in Holdings, Balances!Change(a) PROVE LatestInv'
  BY <1>1 DEF LatestInv, Balances!Latest, Balances!Waiting, Balances!Change, Balances!calls,
      Balances!Amounts
<1>2. ASSUME Balances!Drop PROVE LatestInv'
  BY <1>2 DEF LatestInv, Balances!Latest, Balances!Waiting, Balances!Drop, Balances!calls
<1>3. ASSUME Balances!Open PROVE LatestInv'
  BY <1>3 DEF LatestInv, Balances!Latest, Balances!Waiting, Balances!Open, Balances!calls
<1>4. ASSUME Balances!Resubscribed PROVE LatestInv'
  BY <1>4 DEF LatestInv, Balances!Latest, Balances!Waiting, Balances!Resubscribed, Balances!calls
<1>5. ASSUME Balances!Restart PROVE LatestInv'
  BY <1>5 DEF LatestInv, Balances!Latest, Balances!Waiting, Balances!Restart
<1>6. ASSUME Balances!Query PROVE LatestInv'
  BY <1>6 DEF LatestInv, Balances!Latest, Balances!Waiting, Balances!Query, Balances!calls,
      Balances!Unannounced
<1>7. ASSUME NEW c \in Calls, Balances!HandleNotification(c) PROVE LatestInv'
  BY <1>7 DEF LatestInv, Balances!Latest, Balances!Waiting, Balances!In, WaitInv,
      Balances!Nothing, Balances!HandleNotification, Balances!Overtake
<1>8. ASSUME NEW c \in Calls, Balances!Synchronize(c) PROVE LatestInv'
  BY <1>8 DEF LatestInv, Balances!Latest, Balances!Waiting, Balances!Synchronize
<1>9. ASSUME NEW c \in Calls, Balances!Fetch(c) PROVE LatestInv'
  BY <1>9 DEF LatestInv, Balances!Latest, Balances!Waiting, Balances!Fetch, Balances!Tokens,
      Balances!Overtake, Balances!Only, Balances!Answers
<1>10. ASSUME NEW c \in Calls, Balances!Compare(c) PROVE LatestInv'
  BY <1>10 DEF LatestInv, Balances!Latest, Balances!Waiting, Balances!In, Balances!Compare,
      Balances!Only
<1>11. ASSUME NEW c \in Calls, Balances!ListSaved(c) PROVE LatestInv'
  BY <1>11 DEF LatestInv, Balances!Latest, Balances!Waiting, Balances!ListSaved
<1>12. ASSUME NEW c \in Calls, Balances!ReadState(c) PROVE LatestInv'
  BY <1>12 DEF LatestInv, Balances!Latest, Balances!Waiting, Balances!ReadState
<1>13. ASSUME NEW c \in Calls, Balances!WriteState(c) PROVE LatestInv'
  BY <1>13 DEF LatestInv, Balances!Latest, Balances!Waiting, BalanceTypes, Balances!WriteState,
      Balances!Over, Balances!Goes, Balances!AfterWrite, Balances!AfterList
<1>14. ASSUME NEW c \in Calls, Balances!AnnounceList(c) PROVE LatestInv'
  BY <1>14 DEF LatestInv, Balances!Latest, Balances!Waiting, BalanceTypes, Balances!AnnounceList,
      Balances!Goes, Balances!AfterList
<1>15. ASSUME NEW c \in Calls, Balances!AnnounceBalances(c) PROVE LatestInv'
  BY <1>15 DEF LatestInv, Balances!Latest, Balances!Waiting, BalanceTypes,
      Balances!AnnounceBalances, Balances!Goes
<1>16. ASSUME NEW c \in Calls, Balances!Fail(c) PROVE LatestInv'
  BY <1>16 DEF LatestInv, Balances!Latest, Balances!Waiting, BalanceTypes, Balances!Fail,
      Balances!Goes
<1>17. CASE UNCHANGED Balances!vars
  BY <1>17 DEF LatestInv, Balances!Latest, Balances!Waiting, Balances!In, BalanceTypes, WaitInv,
      Balances!Nothing, Balances!vars, Balances!extension, Balances!wire, Balances!calls,
      Balances!history
<1> QED BY <1>1, <1>2, <1>3, <1>4, <1>5, <1>6, <1>7, <1>8, <1>9, <1>10, <1>11, <1>12, <1>13,
    <1>14, <1>15, <1>16, <1>17 DEF Balances!Next

\* What a notification that is sent does to the last ones of the assets.
LEMMA NotificationSent ==
  ASSUME inbox \in Seq(Holdings \X Nat), NEW a \in Holdings, NEW amount \in Nat,
         inbox' = Append(inbox, <<a, amount>>)
  PROVE  /\ NotifiedOf(a, amount)'
         /\ \A b \in Holdings \ {a} : Notified(b)' <=> Notified(b)
         /\ \A b \in Holdings \ {a} : \A n : NotifiedOf(b, n) => NotifiedOf(b, n)'
<1> DEFINE k == Len(inbox) + 1
<1>1. DOMAIN inbox = 1..Len(inbox) /\ DOMAIN inbox' = 1..k /\ k \in Nat /\ Len(inbox) \in Nat
  OBVIOUS
<1>2. inbox'[k] = <<a, amount>> /\ \A i \in DOMAIN inbox : inbox'[i] = inbox[i] /\ i < k
  OBVIOUS
<1>3. \A i \in DOMAIN inbox' : i \in DOMAIN inbox \/ i = k
  BY <1>1
<1>4. DOMAIN inbox \subseteq DOMAIN inbox' /\ k \in DOMAIN inbox'
  BY <1>1
<1> HIDE DEF k
<1>5. NotifiedOf(a, amount)'
  BY <1>1, <1>2, <1>4 DEF NotifiedOf
<1>6. ASSUME NEW b \in Holdings \ {a} PROVE Notified(b)' <=> Notified(b)
  BY <1>2, <1>3, <1>4 DEF Notified
<1>7. ASSUME NEW b \in Holdings \ {a}, NEW n, NotifiedOf(b, n) PROVE NotifiedOf(b, n)'
  <2>1. PICK i \in DOMAIN inbox :
           inbox[i][1] = b /\ inbox[i][2] = n /\ \A j \in DOMAIN inbox : inbox[j][1] = b => j <= i
    BY <1>7 DEF NotifiedOf
  <2>2. i \in DOMAIN inbox' /\ inbox'[i] = inbox[i]
    BY <1>2, <1>4
  <2>3. ASSUME NEW j \in DOMAIN inbox', inbox'[j][1] = b PROVE j <= i
    BY <1>2, <1>3, <2>1, <2>3
  <2> QED BY <2>1, <2>2, <2>3 DEF NotifiedOf
<1> QED BY <1>5, <1>6, <1>7

\* What taking the first one does.
LEMMA NotificationTaken ==
  ASSUME inbox \in Seq(Holdings \X Nat), NEW a, NEW amount,
         inbox # <<>>, Head(inbox) = <<a, amount>>, inbox' = Tail(inbox)
  PROVE  /\ \A b \in Holdings : Notified(b)' => Notified(b)
         /\ \A b \in Holdings \ {a} : \A n : NotifiedOf(b, n) => NotifiedOf(b, n)'
         /\ \A n : NotifiedOf(a, n) /\ ~NotifiedOf(a, n)' => ~Notified(a)' /\ n = amount
<1>1. /\ DOMAIN inbox = 1..Len(inbox) /\ DOMAIN inbox' = 1..(Len(inbox) - 1) /\
           Len(inbox) \in Nat \ {0}
      /\ inbox[1] = <<a, amount>>
      /\ \A i \in DOMAIN inbox' : inbox'[i] = inbox[i + 1]
  OBVIOUS
<1>2. \A i \in DOMAIN inbox' : i \in Nat /\ i + 1 \in DOMAIN inbox
  BY <1>1
<1>3. ASSUME NEW i \in DOMAIN inbox, i # 1
      PROVE  i - 1 \in DOMAIN inbox' /\ i \in Int /\ inbox[i] = inbox'[i - 1]
  <2>1. i \in Int /\ i - 1 \in 1..(Len(inbox) - 1) /\ (i - 1) + 1 = i
    BY <1>1, <1>3
  <2> QED BY <1>1, <2>1
<1>4. ASSUME NEW b \in Holdings, Notified(b)' PROVE Notified(b)
  BY <1>1, <1>2, <1>4 DEF Notified
<1>5. ASSUME NEW b, NEW n, NEW i \in DOMAIN inbox \ {1}, inbox[i][1] = b, inbox[i][2] = n,
             \A j \in DOMAIN inbox : inbox[j][1] = b => j <= i
      PROVE  NotifiedOf(b, n)'
  <2>1. i - 1 \in DOMAIN inbox' /\ inbox'[i - 1] = inbox[i] /\ i \in Int
    BY <1>3
  <2>2. ASSUME NEW j \in DOMAIN inbox', inbox'[j][1] = b PROVE j <= i - 1
    BY <1>1, <1>2, <1>5, <2>1, <2>2
  <2> QED BY <1>5, <2>1, <2>2 DEF NotifiedOf
<1>6. ASSUME NEW b \in Holdings \ {a}, NEW n, NotifiedOf(b, n) PROVE NotifiedOf(b, n)'
  <2>1. PICK i \in DOMAIN inbox :
           inbox[i][1] = b /\ inbox[i][2] = n /\ \A j \in DOMAIN inbox : inbox[j][1] = b => j <= i
    BY <1>6 DEF NotifiedOf
  <2>2. i # 1
    BY <1>1, <2>1
  <2> QED BY <1>5, <2>1, <2>2
<1>7. ASSUME NEW n, NotifiedOf(a, n), ~NotifiedOf(a, n)' PROVE ~Notified(a)' /\ n = amount
  <2>1. PICK i \in DOMAIN inbox :
           inbox[i][1] = a /\ inbox[i][2] = n /\ \A j \in DOMAIN inbox : inbox[j][1] = a => j <= i
    BY <1>7 DEF NotifiedOf
  <2>2. i = 1
    BY <1>5, <1>7, <2>1
  <2>3. ASSUME NEW j \in DOMAIN inbox', inbox'[j][1] = a PROVE FALSE
    BY <1>1, <1>2, <2>1, <2>2, <2>3
  <2> QED BY <1>1, <2>1, <2>2, <2>3 DEF Notified
<1> QED BY <1>4, <1>6, <1>7

\* A step that leaves an asset alone leaves its balance where it is.
LEMMA SavedStays ==
  ASSUME NEW a \in Holdings, SavedOf(a), real'[a] = real[a], saved'[a] = saved[a],
         a \in unheard => a \in unheard',
         Excused(a, Balances!Unsaved) => Excused(a, Balances!Unsaved)',
         \A n : NotifiedOf(a, n) => NotifiedOf(a, n)', Notified(a)' => Notified(a),
         \A c \in Calls : a \in Balances!Latest(c)
                            => a \in Balances!Latest(c)' /\ batch'[c][a] = batch[c][a],
         ToSave(a)' => ToSave(a)
  PROVE  SavedOf(a)'
BY DEF SavedOf

\* So it is with its notifications when none is sent or taken.
LEMMA InboxStays ==
  ASSUME NEW a \in Holdings, inbox' = inbox
  PROVE  (\A n : NotifiedOf(a, n) => NotifiedOf(a, n)') /\ (Notified(a)' => Notified(a))
BY DEF NotifiedOf, Notified

\* A step keeps track of the balance of every asset, or gives an excuse.
LEMMA SavedInvKept ==
  ASSUME DataAssumption, BalanceTypes, WaitInv, LatestInv, SavedInv,
         Balances!Next \/ UNCHANGED Balances!vars
  PROVE  SavedInv'
<1> SUFFICES ASSUME NEW a \in Holdings PROVE SavedOf(a)'
  BY DEF SavedInv
<1>1. SavedOf(a)
  BY DEF SavedInv
<1> DEFINE Same(c) == phase'[c] = phase[c] /\ batch'[c] = batch[c] /\ overtaken'[c] = overtaken[c]
<1>2. ASSUME NEW c \in Calls, \A d \in Calls \ {c} : Same(d),
             (a \in Balances!Latest(c))' <=> a \in Balances!Latest(c),
             a \in Balances!Latest(c) => batch'[c][a] = batch[c][a]
      PROVE  /\ \A d \in Calls : a \in Balances!Latest(d) =>
                  a \in Balances!Latest(d)' /\ batch'[d][a] = batch[d][a]
             /\ ToSave(a)' => ToSave(a)
  BY <1>2 DEF ToSave, Balances!Latest, Balances!Waiting
<1>3. ASSUME \A d \in Calls : Same(d)
      PROVE  /\ \A d \in Calls : a \in Balances!Latest(d) =>
                  a \in Balances!Latest(d)' /\ batch'[d][a] = batch[d][a]
             /\ ToSave(a)' => ToSave(a)
  BY <1>3 DEF ToSave, Balances!Latest, Balances!Waiting
<1>4. ASSUME NEW b \in Holdings, Balances!Change(b) PROVE SavedOf(a)'
  <2>1. PICK amount \in Balances!Amounts \cup (IF b \in NativeHoldings THEN {} ELSE {Absent}) :
          /\ real' = [real EXCEPT ![b] = amount]
          /\ IF link = "live" /\ amount # Absent
               THEN inbox' = Append(inbox, <<b, amount>>) /\ unheard' = unheard
               ELSE unheard' = unheard \cup {b} /\ inbox' = inbox
    BY <1>4 DEF Balances!Change
  <2>2. UNCHANGED <<saved, phase, batch, overtaken, excuse>>
    BY <1>4 DEF Balances!Change, Balances!calls
  <2>3. CASE a # b
    <3>1. (\A n : NotifiedOf(a, n) => NotifiedOf(a, n)') /\ (Notified(a)' => Notified(a))
      <4>1. CASE inbox' = inbox
        BY <4>1, InboxStays
      <4>2. CASE amount \in Nat /\ inbox' = Append(inbox, <<b, amount>>)
        BY <2>3, <4>2, NotificationSent DEF BalanceTypes
      <4> QED BY <2>1, <4>1, <4>2 DEF Balances!Amounts, DataAssumption, Balances!Assumptions
    <3> QED BY <1>1, <1>3, <2>1, <2>2, <2>3, <3>1, SavedStays DEF BalanceTypes, Excused
  <2>4. CASE a = b /\ a \in unheard'
    BY <2>4 DEF SavedOf
  <2>5. CASE a = b /\ a \notin unheard'
    <3>1. amount \in Nat /\ inbox' = Append(inbox, <<a, amount>>)
      BY <2>1, <2>5 DEF Balances!Amounts, DataAssumption, Balances!Assumptions
    <3>2. NotifiedOf(a, amount)'
      BY <3>1, NotificationSent DEF BalanceTypes
    <3>3. real'[a] = amount
      BY <2>1, <2>5 DEF BalanceTypes
    <3> QED BY <3>2, <3>3 DEF SavedOf, NotifiedOf
  <2> QED BY <2>3, <2>4, <2>5
<1>5. ASSUME Balances!Drop PROVE SavedOf(a)'
  <2>1. /\ UNCHANGED <<real, saved, phase, batch, overtaken, excuse>> /\ inbox' = <<>>
        /\ unheard' = unheard \cup {inbox[i][1] : i \in DOMAIN inbox}
    BY <1>5 DEF Balances!Drop, Balances!calls
  <2>2. CASE Notified(a)
    BY <2>1, <2>2 DEF Notified, SavedOf
  <2>3. CASE ~Notified(a)
    <3>1. ~NotifiedOf(a, real[a]) /\ ~Notified(a)'
      BY <2>1, <2>3 DEF Notified, NotifiedOf
    <3> QED BY <1>1, <1>3, <2>1, <2>3, <3>1 DEF Excused, SavedOf
  <2> QED BY <2>2, <2>3
<1>6. ASSUME Balances!Open \/ Balances!Resubscribed \/ UNCHANGED Balances!vars PROVE SavedOf(a)'
  <2>1. UNCHANGED <<real, saved, inbox, phase, batch, overtaken, excuse, unheard>>
    BY <1>6 DEF Balances!Open, Balances!Resubscribed, Balances!vars, Balances!calls,
        Balances!history, Balances!wire
  <2> QED BY <1>1, <1>3, <2>1, SavedStays, InboxStays DEF Excused
<1>7. ASSUME Balances!Query PROVE SavedOf(a)'
  <2>1. UNCHANGED <<real, saved, inbox, phase, batch, overtaken, unheard>> /\
          excuse'[a] = excuse[a] \ Balances!Unannounced
    BY <1>7 DEF Balances!Query, Balances!calls, Balances!wire
  <2>2. Excused(a, Balances!Unsaved) => Excused(a, Balances!Unsaved)'
    BY <2>1 DEF Excused, Balances!Unsaved, Balances!Unannounced
  <2> QED BY <1>1, <1>3, <2>1, <2>2, SavedStays, InboxStays
<1>8. ASSUME Balances!Restart PROVE SavedOf(a)'
  <2>1. /\ UNCHANGED <<real, saved>> /\ inbox' = <<>> /\
             unheard' = unheard \cup {inbox[i][1] : i \in DOMAIN inbox}
        /\ \A c \in Calls : phase'[c] = "idle"
    BY <1>8 DEF Balances!Restart
  <2>2. (\A w \in excuse[a] : w \in excuse'[a]) /\ (ToSave(a) => "rejected" \in excuse'[a])
    BY <1>8 DEF Balances!Restart, Balances!Excusing, ToSave, Balances!Latest
  <2>3. ~ToSave(a)' /\ ~Notified(a)'
    BY <2>1 DEF ToSave, Balances!Latest, Balances!Waiting, Notified
  <2>4. Notified(a) => a \in unheard'
    BY <2>1 DEF Notified
  <2>5. NotifiedOf(a, real[a]) => Notified(a)
    BY DEF Notified, NotifiedOf
  <2> QED BY <1>1, <2>1, <2>2, <2>3, <2>4, <2>5 DEF SavedOf, Excused, Balances!Unsaved, ToSave
<1>9. ASSUME NEW c \in Calls, Balances!HandleNotification(c) PROVE SavedOf(a)'
  <2>1. PICK b \in Holdings, amount \in Nat : inbox # <<>> /\ Head(inbox) = <<b, amount>>
    BY <1>9 DEF Balances!HandleNotification, BalanceTypes
  <2>2. /\ UNCHANGED <<real, saved, unheard, excuse>> /\ inbox' = Tail(inbox)
        /\ phase[c] = "idle" /\ phase'[c] = "list"
        /\ batch'[c] = [d \in Holdings |-> IF d = b THEN amount ELSE Absent]
        /\ \A d \in Calls \ {c} : phase'[d] = phase[d] /\ batch'[d] = batch[d]
        /\ \A d \in Calls : overtaken'[d] = overtaken[d] \cup
             (IF Balances!Waiting(d) THEN {b} \cap Balances!In(batch[d]) ELSE {})
    BY <1>9, <2>1 DEF Balances!HandleNotification, Balances!history, Balances!Overtake,
        Balances!Nothing, BalanceTypes
  <2>3. overtaken'[c] = {} /\ a \notin Balances!Latest(c)
    BY <2>2 DEF WaitInv, Balances!Waiting, Balances!Latest
  <2>4. CASE a # b
    <3>1. (\A n : NotifiedOf(a, n) => NotifiedOf(a, n)') /\ (Notified(a)' => Notified(a))
      BY <2>1, <2>2, <2>4, NotificationTaken DEF BalanceTypes
    <3>2. \A d \in Calls \ {c} : (a \in Balances!Latest(d))' <=> a \in Balances!Latest(d)
      BY <2>2, <2>4 DEF Balances!Latest, Balances!Waiting, Balances!In
    <3>3. ~(a \in Balances!Latest(c))'
      BY <2>2, <2>4 DEF Balances!Latest, Balances!In
    <3>4. ToSave(a)' => ToSave(a)
      BY <3>2, <3>3 DEF ToSave
    <3> QED BY <1>1, <2>2, <2>3, <3>1, <3>2, <3>4, SavedStays DEF Excused
  <2>5. CASE a = b
    <3>1. Notified(a)
      BY <2>1, <2>5 DEF Notified, BalanceTypes
    <3>2. \A n : NotifiedOf(a, n) => NotifiedOf(a, n)' \/ (~Notified(a)' /\ amount = n)
      BY <2>1, <2>2, <2>5, NotificationTaken DEF BalanceTypes
    <3>3. (a \in Balances!Latest(c))' /\ batch'[c][a] = amount
      BY <2>2, <2>3, <2>5 DEF Balances!Latest, Balances!Waiting, Balances!In, DataAssumption,
          Balances!Assumptions
    <3> QED BY <1>1, <2>2, <3>1, <3>2, <3>3 DEF SavedOf, Excused
  <2> QED BY <2>4, <2>5
<1>10. ASSUME NEW c \in Calls,
              Balances!Synchronize(c) \/ Balances!ListSaved(c) \/ Balances!ReadState(c)
      PROVE SavedOf(a)'
  <2>1. /\ UNCHANGED <<real, saved, inbox, unheard, excuse, batch, overtaken>>
        /\ (Balances!Waiting(c)' <=> Balances!Waiting(c)) /\ \A d \in Calls \ {c} : Same(d)
    BY <1>10 DEF Balances!Synchronize, Balances!ListSaved, Balances!ReadState, Balances!history,
        Balances!wire, Balances!Waiting, BalanceTypes
  <2>2. (a \in Balances!Latest(c))' <=> a \in Balances!Latest(c)
    BY <2>1 DEF Balances!Latest, Balances!In
  <2> QED BY <1>1, <1>2, <2>1, <2>2, SavedStays, InboxStays DEF Excused
<1>11. ASSUME NEW c \in Calls, Balances!Fetch(c) PROVE SavedOf(a)'
  <2>1. PICK answer \in Balances!Answers, failed \in SUBSET Holdings :
          /\ batch' = [batch EXCEPT ![c] = Balances!Only(answer, Holdings \ failed)]
          /\ unheard' = unheard \ (Balances!In(batch'[c]) \ {inbox[i][1] : i \in DOMAIN inbox})
          /\ Balances!Overtake(Balances!In(batch'[c]))
          /\ excuse' = Balances!Excusing([rejected |-> failed,
                                          cached |-> {b \in Holdings : answer[b] # real[b]}])
    BY <1>11 DEF Balances!Fetch
  <2>2. /\ UNCHANGED <<real, saved, inbox>> /\ phase[c] = "fetch" /\ phase'[c] = "compare"
        /\ \A d \in Calls \ {c} : phase'[d] = phase[d] /\ batch'[d] = batch[d]
    BY <1>11, <2>1 DEF Balances!Fetch, Balances!wire, BalanceTypes
  <2>3. (\A w \in excuse[a] : w \in excuse'[a]) /\
          (a \in failed \/ answer[a] # real[a] => Excused(a, Balances!Unsaved)')
    BY <2>1 DEF Balances!Excusing, Excused, Balances!Unsaved
  <2>4. batch'[c][a] = IF a \in failed THEN Absent ELSE answer[a]
    BY <2>1 DEF Balances!Only, BalanceTypes
  <2>5. overtaken'[c] = {} /\ a \notin Balances!Latest(c)
    BY <2>1, <2>2 DEF WaitInv, Balances!Waiting, Balances!Latest, Balances!Overtake
  <2>6. CASE Excused(a, Balances!Unsaved)'
    BY <2>6 DEF SavedOf
  <2>7. CASE ~Excused(a, Balances!Unsaved)' /\ real[a] = Absent
    <3>1. a \notin Balances!In(batch'[c]) /\ (a \in unheard => a \in unheard')
      BY <2>1, <2>3, <2>4, <2>7 DEF Balances!In
    <3>2. \A d \in Calls \ {c} : (a \in Balances!Latest(d))' <=> a \in Balances!Latest(d)
      BY <2>1, <2>2, <3>1 DEF Balances!Latest, Balances!Waiting, Balances!Overtake
    <3>3. ~(a \in Balances!Latest(c))'
      BY <3>1 DEF Balances!Latest, Balances!In
    <3>4. ToSave(a)' => ToSave(a)
      BY <3>2, <3>3 DEF ToSave
    <3> QED BY <1>1, <2>2, <2>3, <2>5, <3>1, <3>2, <3>4, SavedStays, InboxStays DEF Excused
  <2>8. CASE ~Excused(a, Balances!Unsaved)' /\ real[a] # Absent
    <3>1. batch'[c][a] = real[a] /\ (a \in Balances!Latest(c))'
      BY <2>2, <2>3, <2>4, <2>5, <2>8 DEF Balances!Latest, Balances!Waiting, Balances!In
    <3>2. Notified(a) /\ a \in unheard => a \in unheard'
      BY <2>1 DEF Notified
    <3> QED BY <1>1, <2>2, <2>3, <2>8, <3>1, <3>2, InboxStays DEF SavedOf, Excused
  <2> QED BY <2>6, <2>7, <2>8
<1>12. ASSUME NEW c \in Calls, Balances!Compare(c) PROVE SavedOf(a)'
  <2>1. /\ UNCHANGED <<real, saved, inbox, unheard, excuse, overtaken>> /\ phase[c] = "compare" /\
             phase'[c] = "list"
        /\ \A d \in Calls \ {c} : Same(d)
        /\ batch'[c][a] =
             IF batch[c][a] # Absent /\ batch[c][a] # saved[a] THEN batch[c][a] ELSE Absent
    BY <1>12 DEF Balances!Compare, Balances!HasChanged, Balances!Only, Balances!In,
        Balances!history, Balances!wire, BalanceTypes
  <2>2. CASE batch[c][a] # saved[a] \/ a \notin Balances!Latest(c)
    <3>1. (a \in Balances!Latest(c))' <=> a \in Balances!Latest(c)
      BY <2>1, <2>2 DEF Balances!Latest, Balances!In, Balances!Waiting
    <3>2. a \in Balances!Latest(c) => batch'[c][a] = batch[c][a]
      BY <2>1, <2>2 DEF Balances!Latest, Balances!In
    <3> QED BY <1>1, <1>2, <2>1, <3>1, <3>2, SavedStays, InboxStays DEF Excused
  <2>3. CASE batch[c][a] = saved[a] /\ a \in Balances!Latest(c)
    <3>1. \A d \in Calls \ {c} : a \notin Balances!Latest(d) /\ ~(a \in Balances!Latest(d))'
      BY <2>1, <2>3 DEF LatestInv, Balances!Latest, Balances!Waiting
    <3>2. ~(a \in Balances!Latest(c))'
      BY <2>1, <2>3 DEF Balances!Latest, Balances!In
    <3>3. ~ToSave(a)' /\ ToSave(a)
      BY <2>3, <3>1, <3>2 DEF ToSave
    <3> QED BY <1>1, <2>1, <2>3, <3>1, <3>3, InboxStays DEF SavedOf, Excused
  <2> QED BY <2>2, <2>3
<1>13. ASSUME NEW c \in Calls, Balances!WriteState(c) PROVE SavedOf(a)'
  <2>1. /\ UNCHANGED <<real, inbox, unheard>> /\ phase[c] = "write"
        /\ saved'[a] = IF batch[c][a] # Absent THEN batch[c][a] ELSE held[c][a]
        /\ \A d \in Calls \ {c} : Same(d)
    BY <1>13 DEF Balances!WriteState, Balances!Over, Balances!Goes, Balances!wire, BalanceTypes
  <2>2. phase'[c] \in {"added", "balances", "idle"}
    BY <1>13 DEF Balances!WriteState, Balances!Goes, Balances!AfterWrite, Balances!AfterList,
        BalanceTypes
  <2>3. /\ \A w \in excuse[a] : w \in excuse'[a]
        /\ a \in overtaken[c] /\ batch[c][a] # Absent /\ ~ToSave(a) => "overtaken" \in excuse'[a]
        /\ batch[c][a] = Absent /\ held[c][a] # saved[a] => "undone" \in excuse'[a]
    BY <1>13 DEF Balances!WriteState, Balances!Excusing, ToSave, Balances!In
  <2>4. ~(a \in Balances!Latest(c))' /\ \A d \in Calls \ {c} :
          (a \in Balances!Latest(d))' <=> a \in Balances!Latest(d)
    BY <2>1, <2>2 DEF Balances!Latest, Balances!Waiting, Balances!In
  <2>5. a \in Balances!Latest(c) <=> batch[c][a] # Absent /\ a \notin overtaken[c]
    BY <2>1 DEF Balances!Latest, Balances!Waiting, Balances!In
  <2>6. CASE batch[c][a] = Absent /\ held[c][a] = saved[a]
    BY <1>1, <1>2, <2>1, <2>3, <2>4, <2>5, <2>6, SavedStays, InboxStays DEF Excused
  <2>7. CASE batch[c][a] = Absent /\ held[c][a] # saved[a]
    BY <2>3, <2>7 DEF SavedOf, Excused, Balances!Unsaved
  <2>8. CASE batch[c][a] # Absent /\ a \in overtaken[c]
    <3>1. CASE ToSave(a)
      BY <1>1, <2>1, <2>3, <2>4, <2>5, <2>8, <3>1, InboxStays DEF SavedOf, Excused, ToSave
    <3>2. CASE ~ToSave(a)
      BY <2>3, <2>8, <3>2 DEF SavedOf, Excused, Balances!Unsaved
    <3> QED BY <3>1, <3>2
  <2>9. CASE batch[c][a] # Absent /\ a \notin overtaken[c]
    <3>1. \A d \in Calls \ {c} : a \notin Balances!Latest(d)
      BY <2>5, <2>9 DEF LatestInv
    <3>2. ToSave(a) /\ ~ToSave(a)'
      BY <2>4, <2>5, <2>9, <3>1 DEF ToSave
    <3> QED BY <1>1, <2>1, <2>3, <2>9, <3>1, <3>2, InboxStays DEF SavedOf, Excused
  <2> QED BY <2>6, <2>7, <2>8, <2>9
<1>14. ASSUME NEW c \in Calls, Balances!AnnounceList(c) \/ Balances!AnnounceBalances(c)
       PROVE  SavedOf(a)'
  <2>1. /\ UNCHANGED <<real, saved, inbox, unheard, overtaken>> /\
             phase[c] \in {"added", "balances"}
        /\ phase'[c] \in {"balances", "idle"} /\ \A d \in Calls \ {c} : Same(d)
    BY <1>14 DEF Balances!AnnounceList, Balances!AnnounceBalances, Balances!Goes,
        Balances!AfterList, Balances!wire, BalanceTypes
  <2>2. \A w \in excuse[a] : w \in excuse'[a]
    BY <1>14 DEF Balances!AnnounceList, Balances!AnnounceBalances, Balances!Excusing
  <2>3. ~(a \in Balances!Latest(c)) /\ ~(a \in Balances!Latest(c))'
    BY <2>1 DEF Balances!Latest, Balances!Waiting
  <2> QED BY <1>1, <1>2, <2>1, <2>2, <2>3, SavedStays, InboxStays DEF Excused
<1>15. ASSUME NEW c \in Calls, Balances!Fail(c) PROVE SavedOf(a)'
  <2>1. /\ UNCHANGED <<real, saved, inbox, unheard>> /\ phase'[c] = "idle" /\
             \A d \in Calls \ {c} : Same(d)
    BY <1>15 DEF Balances!Fail, Balances!Goes, Balances!wire, BalanceTypes
  <2>2. (\A w \in excuse[a] : w \in excuse'[a]) /\
          (a \in Balances!Latest(c) => "rejected" \in excuse'[a])
    BY <1>15 DEF Balances!Fail, Balances!Excusing, Balances!Latest, Balances!Waiting
  <2>3. ~(a \in Balances!Latest(c))'
    BY <2>1 DEF Balances!Latest, Balances!Waiting
  <2>4. CASE a \in Balances!Latest(c)
    BY <2>2, <2>4 DEF SavedOf, Excused, Balances!Unsaved
  <2>5. CASE a \notin Balances!Latest(c)
    BY <1>1, <1>2, <2>1, <2>2, <2>3, <2>5, SavedStays, InboxStays DEF Excused
  <2> QED BY <2>4, <2>5
<1> QED BY <1>4, <1>5, <1>6, <1>7, <1>8, <1>9, <1>10, <1>11, <1>12, <1>13, <1>14, <1>15 DEF
    Balances!Next

\* A step that leaves an asset alone, and takes no announcement back, leaves it shown as it is.
LEMMA ShownStays ==
  ASSUME NEW a \in Holdings, ShownOf(a), saved'[a] = saved[a], UNCHANGED <<listed, shown>>,
         Excused(a, Unshown) => Excused(a, Unshown)',
         \A c \in Calls : a \in Announces(c) => (a \in Announces(c))',
         \A c \in Calls : a \in Updates(c) => (a \in Updates(c))'
  PROVE  ShownOf(a)'
BY DEF ShownOf, ListRight, BalanceRight

\* A step keeps what the extension shows and what is about to be announced together.
LEMMA ShownInvKept ==
  ASSUME DataAssumption, BalanceTypes, ShownInv, Balances!Next \/ UNCHANGED Balances!vars
  PROVE  ShownInv'
<1> SUFFICES ASSUME NEW a \in Holdings PROVE ShownOf(a)'
  BY DEF ShownInv
<1>1. ShownOf(a)
  BY DEF ShownInv
<1> DEFINE Same(c) == phase'[c] = phase[c] /\ batch'[c] = batch[c] /\ old'[c] = old[c]
           Silent(c) == phase[c] \notin {"added", "balances"} /\
             phase'[c] \notin {"added", "balances"}
<1>2. ASSUME NEW c \in Calls, Same(c) \/ Silent(c)
      PROVE  (a \in Announces(c) => (a \in Announces(c))') /\
               (a \in Updates(c) => (a \in Updates(c))')
  BY <1>2 DEF Announces, Updates, Balances!Added, Balances!Removed, Balances!Updated
<1>3. ASSUME \/ \E b \in Holdings : Balances!Change(b)
             \/ Balances!Drop \/ Balances!Open \/ Balances!Resubscribed \/ UNCHANGED Balances!vars
      PROVE  ShownOf(a)'
  <2>1. UNCHANGED <<saved, listed, shown, phase, batch, old, excuse>>
    BY <1>3 DEF Balances!Change, Balances!Drop, Balances!Open, Balances!Resubscribed,
        Balances!vars, Balances!extension, Balances!calls, Balances!history
  <2> QED BY <1>1, <1>2, <2>1, ShownStays DEF Excused
<1>4. ASSUME NEW c \in Calls,
             \/ Balances!HandleNotification(c) \/ Balances!Synchronize(c) \/ Balances!Compare(c)
             \/ Balances!ListSaved(c) \/ Balances!ReadState(c)
      PROVE  ShownOf(a)'
  <2>1. UNCHANGED <<saved, listed, shown, excuse>>
    BY <1>4 DEF Balances!HandleNotification, Balances!Synchronize, Balances!Compare,
        Balances!ListSaved, Balances!ReadState, Balances!extension, Balances!history
  <2>2. Silent(c) /\ \A d \in Calls \ {c} : Same(d)
    BY <1>4 DEF Balances!HandleNotification, Balances!Synchronize, Balances!Compare,
        Balances!ListSaved, Balances!ReadState, BalanceTypes
  <2> QED BY <1>1, <1>2, <2>1, <2>2, ShownStays DEF Excused
<1>5. ASSUME NEW c \in Calls, Balances!Fetch(c) PROVE ShownOf(a)'
  <2>1. PICK why : excuse' = Balances!Excusing(why)
    BY <1>5 DEF Balances!Fetch
  <2>2. \A w \in excuse[a] : w \in excuse'[a]
    BY <2>1 DEF Balances!Excusing
  <2>3. UNCHANGED <<saved, listed, shown>> /\ Silent(c) /\ \A d \in Calls \ {c} : Same(d)
    BY <1>5 DEF Balances!Fetch, Balances!extension, BalanceTypes
  <2> QED BY <1>1, <1>2, <2>2, <2>3, ShownStays DEF Excused
<1>6. ASSUME Balances!Query PROVE ShownOf(a)'
  BY <1>6 DEF Balances!Query, ShownOf, ListRight, BalanceRight, Balances!In
<1>7. ASSUME Balances!Restart PROVE ShownOf(a)'
  <2>1. UNCHANGED <<saved, listed, shown>> /\ \A w \in excuse[a] : w \in excuse'[a]
    BY <1>7 DEF Balances!Restart, Balances!extension, Balances!Excusing
  <2>2. \A c \in Calls : phase[c] \in {"added", "balances"} /\ a \in Balances!In(batch[c]) =>
          "dropped" \in excuse'[a]
    BY <1>7 DEF Balances!Restart, Balances!Excusing
  <2>3. \A c \in Calls : a \in Announces(c) \/ a \in Updates(c) =>
          phase[c] \in {"added", "balances"} /\ a \in Balances!In(batch[c])
    BY DEF Announces, Updates, Balances!Added, Balances!Removed, Balances!Updated,
        Balances!HasChanged
  <2>4. CASE \E c \in Calls : a \in Announces(c) \/ a \in Updates(c)
    BY <2>2, <2>3, <2>4 DEF ShownOf, Excused, Unshown, Balances!Unannounced
  <2>5. CASE ~\E c \in Calls : a \in Announces(c) \/ a \in Updates(c)
    BY <1>1, <2>1, <2>5, ShownStays DEF Excused
  <2> QED BY <2>4, <2>5
<1>8. ASSUME NEW c \in Calls, Balances!Fail(c) PROVE ShownOf(a)'
  <2>1. UNCHANGED <<saved, listed, shown>> /\ (\A w \in excuse[a] : w \in excuse'[a])
        /\ (\A d \in Calls \ {c} : Same(d)) /\ phase'[c] = "idle"
    BY <1>8 DEF Balances!Fail, Balances!Goes, Balances!extension, Balances!Excusing, BalanceTypes
  <2>2. phase[c] \in {"added", "balances"} /\ a \in Balances!In(batch[c]) =>
          "dropped" \in excuse'[a]
    BY <1>8 DEF Balances!Fail, Balances!Excusing
  <2>3. a \in Announces(c) \/ a \in Updates(c) =>
          phase[c] \in {"added", "balances"} /\ a \in Balances!In(batch[c])
    BY DEF Announces, Updates, Balances!Added, Balances!Removed, Balances!Updated,
        Balances!HasChanged
  <2>4. CASE a \in Announces(c) \/ a \in Updates(c)
    BY <2>2, <2>3, <2>4 DEF ShownOf, Excused, Unshown, Balances!Unannounced
  <2>5. CASE a \notin Announces(c) /\ a \notin Updates(c)
    BY <1>1, <1>2, <2>1, <2>5, ShownStays DEF Excused
  <2> QED BY <2>4, <2>5
<1>9. ASSUME NEW c \in Calls, Balances!WriteState(c) PROVE ShownOf(a)'
  <2>1. UNCHANGED <<listed, shown>> /\ phase[c] = "write" /\ (\A d \in Calls \ {c} : Same(d))
        /\ saved'[a] = IF batch[c][a] # Absent THEN batch[c][a] ELSE held[c][a]
    BY <1>9 DEF Balances!WriteState, Balances!Over, Balances!Goes, Balances!extension, BalanceTypes
  <2>2. /\ \A w \in excuse[a] : w \in excuse'[a]
        /\ batch[c][a] = Absent /\ held[c][a] # saved[a] => "undone" \in excuse'[a]
        /\ batch[c][a] # Absent /\ old[c][a] # saved[a] => "outdated" \in excuse'[a]
        /\ a \in NativeHoldings /\ batch[c][a] = 0 /\ batch[c][a] # Absent /\ saved[a] # 0 =>
             "emptied" \in excuse'[a]
    BY <1>9 DEF Balances!WriteState, Balances!Excusing, Balances!In
  <2>3. a \in Balances!Added(c) \cup Balances!Removed(c) => (a \in Announces(c))'
    BY <1>9 DEF Balances!WriteState, Balances!Goes, Balances!AfterWrite, BalanceTypes, Announces,
        Balances!Added, Balances!Removed
  <2>4. a \in Balances!Updated(c) \cup Balances!Removed(c) => (a \in Updates(c))'
    <3>1. phase'[c] # "idle" => batch'[c] = batch[c] /\ old'[c] = old[c]
      BY <1>9 DEF Balances!WriteState, Balances!Goes, BalanceTypes
    <3>2. /\ a \in Balances!Removed(c) => phase'[c] = "added"
          /\ a \in Balances!Updated(c) => phase'[c] \in {"added", "balances"}
      BY <1>9 DEF Balances!WriteState, Balances!Goes, Balances!AfterWrite, Balances!AfterList,
          BalanceTypes
    <3> QED BY <3>1, <3>2 DEF Updates, Balances!Updated, Balances!HasChanged, Balances!Removed,
        Balances!In
  <2>5. a \notin Announces(c) /\ a \notin Updates(c)
    BY <2>1 DEF Announces, Updates
  <2>6. CASE Excused(a, Unshown)'
    BY <2>6 DEF ShownOf
  <2>7. CASE ~Excused(a, Unshown)' /\ batch[c][a] = Absent
    <3>1. saved'[a] = saved[a]
      BY <2>1, <2>2, <2>7 DEF Excused, Unshown
    <3> QED BY <1>1, <1>2, <2>1, <2>2, <2>5, <3>1, ShownStays DEF Excused
  <2>8. CASE ~Excused(a, Unshown)' /\ batch[c][a] # Absent
    <3>1. old[c][a] = saved[a] /\ saved'[a] = batch[c][a] /\ ~Excused(a, Unshown)
          /\ (a \in NativeHoldings /\ batch[c][a] = 0 => saved[a] = 0)
      BY <2>1, <2>2, <2>8 DEF Excused, Unshown, Balances!Unannounced
    <3>2. 0 # Absent
      BY DEF DataAssumption, Balances!Assumptions
    <3>3. (ListRight(a) \/ \E d \in Calls : a \in Announces(d))'
      <4>1. CASE a \in Balances!Added(c) \cup Balances!Removed(c)
        BY <2>3, <4>1
      <4>2. CASE a \notin Balances!Added(c) \cup Balances!Removed(c)
        <5>1. ListRight(a) => ListRight(a)'
          BY <2>1, <2>8, <3>1, <3>2, <4>2 DEF ListRight, Balances!Added, Balances!Removed,
              Balances!In
        <5> QED BY <1>1, <1>2, <2>1, <2>5, <3>1, <5>1 DEF ShownOf
      <4> QED BY <4>1, <4>2
    <3>4. (BalanceRight(a) \/ \E d \in Calls : a \in Updates(d))'
      <4>1. CASE a \in Balances!Updated(c) \cup Balances!Removed(c)
        BY <2>4, <4>1
      <4>2. CASE a \notin Balances!Updated(c) \cup Balances!Removed(c)
        <5>1. saved'[a] = saved[a]
          BY <2>8, <3>1, <3>2, <4>2 DEF Balances!Updated, Balances!HasChanged, Balances!Removed,
              Balances!In
        <5> QED BY <1>1, <1>2, <2>1, <2>5, <3>1, <5>1 DEF ShownOf, BalanceRight
      <4> QED BY <4>1, <4>2
    <3> QED BY <3>3, <3>4 DEF ShownOf
  <2> QED BY <2>6, <2>7, <2>8
<1>10. ASSUME NEW c \in Calls, Balances!AnnounceList(c) PROVE ShownOf(a)'
  <2>1. UNCHANGED <<saved, shown>> /\ phase[c] = "added" /\ (\A d \in Calls \ {c} : Same(d))
        /\ listed' = (listed \cup Balances!Added(c)) \ Balances!Removed(c)
        /\ phase'[c] = Balances!AfterList(c) /\
             (phase'[c] # "idle" => batch'[c] = batch[c] /\ old'[c] = old[c])
    BY <1>10 DEF Balances!AnnounceList, Balances!Goes, BalanceTypes
  <2>2. /\ \A w \in excuse[a] : w \in excuse'[a]
        /\ a \in Balances!Added(c) \cup Balances!Removed(c) /\ saved[a] # batch[c][a] =>
             "crossed" \in excuse'[a]
    BY <1>10 DEF Balances!AnnounceList, Balances!Excusing
  <2>3. a \in Balances!Updated(c) => (a \in Updates(c))'
    BY <2>1 DEF Balances!AfterList, Updates, Balances!Updated
  <2>4. 0 # Absent
    BY DEF DataAssumption, Balances!Assumptions
  <2>5. CASE Excused(a, Unshown)'
    BY <2>5 DEF ShownOf
  <2>6. CASE ~Excused(a, Unshown)'
    <3>1. ~Excused(a, Unshown) /\
            (a \in Balances!Added(c) \cup Balances!Removed(c) => saved[a] = batch[c][a])
      BY <2>2, <2>6 DEF Excused, Unshown, Balances!Unannounced
    <3>2. CASE a \in Balances!Added(c) \cup Balances!Removed(c)
      <4>1. ListRight(a)'
        BY <2>1, <2>4, <3>1, <3>2 DEF ListRight, Balances!Added, Balances!Removed, Balances!In
      <4>2. a \in Balances!Removed(c) => BalanceRight(a)'
        BY <2>1 DEF BalanceRight
      <4>3. a \in Balances!Added(c) => a \in Balances!Updated(c)
        BY <2>4 DEF Balances!Added, Balances!Updated, Balances!HasChanged, Balances!In
      <4> QED BY <2>3, <3>2, <4>1, <4>2, <4>3 DEF ShownOf
    <3>3. CASE a \notin Balances!Added(c) \cup Balances!Removed(c)
      <4>1. (a \in listed' <=> a \in listed) /\ a \notin Announces(c) /\
              (a \in Updates(c) => a \in Balances!Updated(c))
        BY <2>1, <3>3 DEF Announces, Updates
      <4>2. (ListRight(a) => ListRight(a)') /\ (BalanceRight(a) => BalanceRight(a)')
        BY <2>1, <4>1 DEF ListRight, BalanceRight
      <4> QED BY <1>1, <1>2, <2>1, <2>3, <3>1, <4>1, <4>2 DEF ShownOf
    <3> QED BY <3>2, <3>3
  <2> QED BY <2>5, <2>6
<1>11. ASSUME NEW c \in Calls, Balances!AnnounceBalances(c) PROVE ShownOf(a)'
  <2>1. UNCHANGED <<saved, listed>> /\ phase[c] = "balances" /\ phase'[c] = "idle" /\
          (\A d \in Calls \ {c} : Same(d))
        /\ shown'[a] = IF a \in Balances!Updated(c) THEN batch[c][a] ELSE shown[a]
    BY <1>11 DEF Balances!AnnounceBalances, Balances!Goes, BalanceTypes
  <2>2. /\ \A w \in excuse[a] : w \in excuse'[a]
        /\ a \in Balances!Updated(c) /\ saved[a] # batch[c][a] => "crossed" \in excuse'[a]
    BY <1>11 DEF Balances!AnnounceBalances, Balances!Excusing
  <2>3. CASE Excused(a, Unshown)'
    BY <2>3 DEF ShownOf
  <2>4. CASE ~Excused(a, Unshown)'
    <3>1. ~Excused(a, Unshown) /\
            (a \in Balances!Updated(c) => saved[a] = batch[c][a] /\ batch[c][a] # Absent)
      BY <2>2, <2>4 DEF Excused, Unshown, Balances!Unannounced, Balances!Updated,
          Balances!HasChanged, Balances!In
    <3>2. a \notin Announces(c) /\ (a \in Updates(c) => a \in Balances!Updated(c))
      BY <2>1 DEF Announces, Updates
    <3>3. (ListRight(a) => ListRight(a)') /\
            (BalanceRight(a) \/ a \in Balances!Updated(c) => BalanceRight(a)')
      BY <2>1, <3>1 DEF ListRight, BalanceRight
    <3> QED BY <1>1, <1>2, <2>1, <3>1, <3>2, <3>3 DEF ShownOf
  <2> QED BY <2>3, <2>4
<1> QED BY <1>3, <1>6, <1>7, <1>8, <1>9, <1>10, <1>11, <1>4, <1>5 DEF Balances!Next

-----------------------------------------------------------------------------
(* Transactions: where a transaction is, from the cluster to the extension. *)

\* The domains, and what batches are made of.
HistoryTypes ==
  /\ ledger \in Seq(Shapes)
  /\ DOMAIN phase = Calls /\ DOMAIN want = Calls /\ DOMAIN batch = Calls /\ DOMAIN held = Calls
  /\ \A c \in Calls : \A p \in batch[c] : p = <<p[1], p[2]>>

\* One of these excuses is given for the transaction of the account.
ExcusedFor(owner, t, why) == \E w \in why : <<owner, t, w>> \in excuse

\* A call is to fetch the transaction for the asset, or to save it for its owner.
Fetches(c, a, t) ==
  \/ phase[c] \in {"latest", "causing", "fetch"} /\ <<a, t>> \in want[c]
  \/ phase[c] \in {"read", "write"} /\ <<Owner[a], t>> \in batch[c]
Fetched(a, t) == \E c \in Calls : Fetches(c, a, t)
\* Where a transaction of an asset is: saved, on its way, unheard of, with a call, or excused.
HistoryOf(a, t) ==
  \/ t \in saved[Owner[a]]
  \/ <<a, t>> \in unheard \cup inbox
  \/ ExcusedFor(Owner[a], t, History!Missing)
  \/ Fetched(a, t)
HistoryInv ==
  \A t \in DOMAIN ledger : ledger[t] \notin Spam => \A a \in ledger[t] : HistoryOf(a, t)

\* What the calls, the state and the wire hold are transactions that there are, each with an
\* asset that it touches.
KnownInv ==
  /\ DOMAIN saved = History!Accounts
  /\ \A x \in History!Accounts : saved[x] \subseteq DOMAIN ledger
  /\ \A c \in Calls : \A x \in History!Accounts : held[c][x] \subseteq DOMAIN ledger
  /\ \A c \in Calls : \A p \in batch[c] : p[2] \in DOMAIN ledger
  /\ \A p \in unheard \cup inbox : p[2] \in History!Signatures(p[1])
  /\ \A c \in Calls : phase[c] \in {"latest", "causing", "fetch"} =>
       \A p \in want[c] : p[2] \in History!Signatures(p[1])

\* What is asked for by "since": everything, or what came after a transaction of the same mint
\* that was once saved.
SoughtInv == \A c \in Calls : phase[c] = "signatures" => \A q \in want[c] :
  \/ q[2] = 0
  \/ /\ q[1] \notin NativeAssets
     /\ q[2] \in History!EverSaved \cap DOMAIN ledger
     /\ History!Mentions(q[2], Mint[q[1]])

\* The extension was told of it, or a call is about to tell it, or that call failed.
Told(x, t) ==
  \/ t \in told[x] \/ ExcusedFor(x, t, {"dropped"})
  \/ \E c \in Calls : phase[c] = "tell" /\ <<x, t>> \in batch[c]
\* It is saved, or an update undid it.
Stored(x, t) == t \in saved[x] \/ ExcusedFor(x, t, {"undone"})
\* What is saved for an account, or is about to be written back, is told; what is told is saved.
ToldOf(x) ==
  /\ \A t \in saved[x] : Told(x, t)
  /\ \A c \in Calls : phase[c] = "write" => \A t \in held[c][x] : Told(x, t)
  /\ \A t \in told[x] : Stored(x, t)
  /\ \A c \in Calls : phase[c] = "tell" => \A t : <<x, t>> \in batch[c] => Stored(x, t)
ToldInv == \A x \in History!Accounts : ToldOf(x)

\* A step keeps the domains.
LEMMA HistoryTypesKept ==
  ASSUME HistoryTypes, History!Next \/ UNCHANGED History!vars
  PROVE  HistoryTypes'
<1>1. ASSUME History!Happen PROVE HistoryTypes'
  BY <1>1 DEF HistoryTypes, History!Happen, History!calls
<1>2. ASSUME History!Drop \/ History!Open \/ History!Resubscribed \/ UNCHANGED History!vars
      PROVE  HistoryTypes'
  BY <1>2 DEF HistoryTypes, History!Drop, History!Open, History!Resubscribed, History!vars,
      History!calls
<1>3. ASSUME History!Restart PROVE HistoryTypes'
  BY <1>3 DEF HistoryTypes, History!Restart
<1>4. ASSUME NEW c \in Calls,
             History!HandleNotification(c) \/ History!LatestSignature(c) \/ History!Synchronize(c)
                              \/ History!ListSaved(c) \/ History!FetchSignatures(c)
      PROVE  HistoryTypes'
  BY <1>4 DEF HistoryTypes, History!HandleNotification, History!LatestSignature,
      History!Synchronize, History!ListSaved, History!FetchSignatures, History!Goes
<1>5. ASSUME NEW c \in Calls, History!FetchBySignature(c) PROVE HistoryTypes'
  BY <1>5 DEF HistoryTypes, History!FetchBySignature, History!Goes, History!Owned
<1>6. ASSUME NEW c \in Calls, History!Fetch(c) PROVE HistoryTypes'
  BY <1>6 DEF HistoryTypes, History!Fetch, History!Goes, History!Owned
<1>7. ASSUME NEW c \in Calls, History!Read(c) \/ History!Write(c) PROVE HistoryTypes'
  BY <1>7 DEF HistoryTypes, History!Read, History!Write, History!Goes
<1>8. ASSUME NEW c \in Calls, History!Tell(c) \/ History!Fail(c) PROVE HistoryTypes'
  BY <1>8 DEF HistoryTypes, History!Tell, History!Fail, History!Ends
<1> QED BY <1>1, <1>2, <1>3, <1>4, <1>5, <1>6, <1>7, <1>8 DEF History!Next

\* What a transaction touches are assets, whose owners are accounts.
LEMMA OwnersOf ==
  ASSUME DataAssumption, HistoryTypes, NEW t \in DOMAIN ledger, NEW a \in ledger[t]
  PROVE  a \in Assets /\ Owner[a] \in History!Accounts /\ t # 0
BY DEF DataAssumption, History!Assumptions, HistoryTypes, History!Accounts

\* What is excused for an asset is excused for its owner.
LEMMA ExcuseOf ==
  ASSUME NEW S, NEW why, NEW a, NEW t, <<a, t>> \in S
  PROVE  <<Owner[a], t, why>> \in History!Excuse(History!Owned(S), why)
<1>1. <<Owner[a], t>> \in History!Owned(S)
  BY DEF History!Owned
<1> QED BY <1>1 DEF History!Excuse

\* A call that ends with what it fetches excuses it.
LEMMA LostWithCall ==
  ASSUME DataAssumption, HistoryTypes, NEW t \in DOMAIN ledger, NEW a \in ledger[t],
         NEW c \in Calls, Fetches(c, a, t)
  PROVE  <<Owner[a], t, "rejected">> \in History!Losses(c)
<1>1. phase[c] # "tell" /\ t # 0
  BY OwnersOf DEF Fetches
<1>2. <<Owner[a], t>> \in batch[c] \cup History!Owned({p \in want[c] : p[2] # 0})
  BY <1>1 DEF Fetches, History!Owned
<1>3. \A pairs : <<Owner[a], t>> \in pairs =>
        <<Owner[a], t, "rejected">> \in History!Excuse(pairs, "rejected")
  BY DEF History!Excuse
<1> QED BY <1>1, <1>2, <1>3 DEF History!Losses

\* The newest of some transactions is one of them, and none is newer: the gaps between it and
\* the end of the ledger have a smallest one.
LEMMA NewestIs ==
  ASSUME NEW n \in Nat, NEW S, S \subseteq 1..n, S # {}
  PROVE  History!Newest(S) \in S /\ \A s \in S : History!Newest(S) >= s
<1> DEFINE Less == {p \in Nat \X Nat : p[1] < p[2]}
           Gaps == {n - s : s \in S}
<1>1. IsWellFoundedOn(Less, Nat)
  <2>1. Less = OpToRel(<, Nat)
    BY DEF OpToRel
  <2> QED BY <2>1, NatLessThanWellFounded
<1>2. Gaps \subseteq Nat
  OBVIOUS
<1>3. Gaps # {}
  OBVIOUS
<1>4. PICK gap \in Gaps : \A g \in Gaps : <<g, gap>> \notin Less
  <2> HIDE DEF Less, Gaps
  <2> QED BY <1>1, <1>2, <1>3, WFMin
<1>5. PICK top \in S : gap = n - top
  OBVIOUS
<1>6. \A s \in S : top >= s
  <2>1. ASSUME NEW s \in S PROVE ~(n - s < gap)
    BY <1>2, <1>4
  <2> QED BY <1>5, <2>1
<1> QED BY <1>6 DEF History!Newest, History!Max

\* What there is stays, with what it touches.
LEMMA LedgerGrows ==
  ASSUME HistoryTypes, History!Next \/ UNCHANGED History!vars, NEW t \in DOMAIN ledger
  PROVE  t \in DOMAIN ledger' /\ ledger'[t] = ledger[t]
<1>1. CASE History!Happen
  BY <1>1 DEF History!Happen, HistoryTypes
<1>2. History!Happen \/ UNCHANGED ledger
  BY DEF History!Next, History!vars, History!Drop, History!Open, History!Resubscribed,
      History!Restart, History!HandleNotification, History!LatestSignature,
      History!FetchBySignature, History!Synchronize, History!ListSaved, History!FetchSignatures,
      History!Fetch, History!Read, History!Write, History!Tell, History!Fail
<1> QED BY <1>1, <1>2

\* A step holds transactions that there are.
LEMMA KnownInvKept ==
  ASSUME DataAssumption, HistoryTypes, KnownInv, History!Next \/ UNCHANGED History!vars
  PROVE  KnownInv'
<1> DEFINE There(t) == t \in DOMAIN ledger
           Touches(p) == p[2] \in History!Signatures(p[1])
<1>1. \A t : There(t) => There(t)'
  BY LedgerGrows
<1>2. \A p : Touches(p) => Touches(p)'
  BY LedgerGrows DEF History!Signatures
<1>3. ASSUME UNCHANGED <<saved, held, batch>>, \A p \in unheard' \cup inbox' : Touches(p)',
             \A c \in Calls : phase'[c] \in {"latest", "causing", "fetch"} =>
               \A p \in want'[c] : Touches(p)'
      PROVE  KnownInv'
  BY <1>1, <1>3 DEF KnownInv, History!Accounts
<1>4. ASSUME History!Happen PROVE KnownInv'
  <2>1. PICK shape \in Shapes :
          /\ ledger' = Append(ledger, shape)
          /\ unheard' \cup inbox' \subseteq unheard \cup inbox \cup (shape \X {Len(ledger) + 1})
    BY <1>4 DEF History!Happen
  <2>2. \A p \in shape \X {Len(ledger) + 1} : Touches(p)'
    BY <2>1 DEF HistoryTypes, History!Signatures
  <2>3. UNCHANGED <<saved, held, batch, want, phase>>
    BY <1>4 DEF History!Happen, History!calls
  <2> QED BY <1>2, <1>3, <2>1, <2>2, <2>3 DEF KnownInv
<1>5. ASSUME History!Drop \/ History!Open \/ History!Resubscribed \/ UNCHANGED History!vars
      PROVE  KnownInv'
  <2>1. UNCHANGED <<saved, held, batch, want, phase>> /\ unheard' \cup inbox' = unheard \cup inbox
    BY <1>5 DEF History!Drop, History!Lost, History!Open, History!Resubscribed, History!vars,
        History!calls, History!history, History!wire
  <2> QED BY <1>2, <1>3, <2>1 DEF KnownInv
<1>6. ASSUME History!Restart PROVE KnownInv'
  <2>1. UNCHANGED <<saved, ledger>> /\ unheard' \cup inbox' = unheard \cup inbox
    BY <1>6 DEF History!Restart, History!Lost
  <2> QED BY <1>6, <2>1 DEF KnownInv, History!Restart, History!None, History!Accounts,
          History!Signatures
<1>7. ASSUME NEW c \in Calls,
             \/ History!HandleNotification(c) \/ History!LatestSignature(c)
             \/ History!Synchronize(c) \/ History!ListSaved(c) \/ History!FetchSignatures(c)
      PROVE  KnownInv'
  <2>1. /\ UNCHANGED <<saved, held, batch, ledger>>
        /\ unheard' \cup inbox' \subseteq unheard \cup inbox
        /\ \A d \in Calls \ {c} : phase'[d] = phase[d] /\ want'[d] = want[d]
    BY <1>7 DEF History!HandleNotification, History!LatestSignature, History!Synchronize,
        History!ListSaved, History!FetchSignatures, History!Goes, History!wire, History!history,
        HistoryTypes
  <2>2. ASSUME phase'[c] \in {"latest", "causing", "fetch"}, NEW p \in want'[c] PROVE Touches(p)
    <3>1. CASE History!HandleNotification(c)
      <4>1. want'[c] \subseteq inbox
        BY <3>1 DEF History!HandleNotification, HistoryTypes
      <4> QED BY <2>2, <4>1 DEF KnownInv
    <3>2. CASE History!LatestSignature(c)
      <4>1. PICK q \in want[c] : p = <<q[1], History!Newest(History!Signatures(q[1]))>>
        BY <2>2, <3>2 DEF History!LatestSignature, HistoryTypes
      <4>2. q[2] \in History!Signatures(q[1])
        BY <3>2 DEF History!LatestSignature, History!Goes, KnownInv
      <4>3. History!Signatures(q[1]) \subseteq 1..Len(ledger) /\ Len(ledger) \in Nat
        BY DEF History!Signatures, HistoryTypes
      <4>4. History!Newest(History!Signatures(q[1])) \in History!Signatures(q[1])
        BY <4>2, <4>3, NewestIs
      <4> QED BY <4>1, <4>4
    <3>3. CASE History!Synchronize(c) \/ History!ListSaved(c)
      BY <2>2, <3>3 DEF History!Synchronize, History!ListSaved, History!Goes, HistoryTypes
    <3>4. CASE History!FetchSignatures(c)
      BY <2>2, <3>4 DEF History!FetchSignatures, History!Latest, HistoryTypes
    <3> QED BY <1>7, <3>1, <3>2, <3>3, <3>4
  <2> QED BY <1>2, <1>3, <2>1, <2>2 DEF KnownInv
<1>8. ASSUME NEW c \in Calls, History!FetchBySignature(c) \/ History!Fetch(c) PROVE KnownInv'
  <2>1. /\ UNCHANGED <<saved, held, want, ledger, inbox, unheard>> /\ phase'[c] = "read"
        /\ phase[c] \in {"causing", "fetch"}
        /\ \A d \in Calls \ {c} : phase'[d] = phase[d] /\ batch'[d] = batch[d]
    BY <1>8 DEF History!FetchBySignature, History!Fetch, History!Goes, History!wire,
        History!history, HistoryTypes
  <2>2. batch'[c] \subseteq History!Owned(want[c])
    BY <1>8 DEF History!FetchBySignature, History!Fetch, History!Owned, HistoryTypes
  <2>3. \A p \in History!Owned(want[c]) : There(p[2])
    BY <2>1 DEF KnownInv, History!Owned, History!Signatures
  <2> QED BY <2>1, <2>2, <2>3 DEF KnownInv, History!Signatures, History!Accounts
<1>9. ASSUME NEW c \in Calls, History!Read(c) PROVE KnownInv'
  <2>1. /\ UNCHANGED <<saved, want, batch, ledger, inbox, unheard>> /\ held'[c] = saved
        /\ \A d \in Calls \ {c} : phase'[d] = phase[d] /\ held'[d] = held[d]
        /\ phase'[c] = "write"
    BY <1>9 DEF History!Read, History!Goes, History!wire, History!history, HistoryTypes
  <2> QED BY <2>1 DEF KnownInv, History!Signatures, History!Accounts
<1>10. ASSUME NEW c \in Calls, History!Write(c) PROVE KnownInv'
  <2>1. /\ UNCHANGED <<batch, ledger, inbox, unheard>> /\ held'[c] = History!None
        /\ \A d \in Calls \ {c} : phase'[d] = phase[d] /\ held'[d] = held[d] /\ want'[d] = want[d]
        /\ phase'[c] = "tell"
    BY <1>10 DEF History!Write, History!Goes, History!wire, History!history, HistoryTypes
  <2>2. DOMAIN saved' = History!Accounts /\ \A x \in History!Accounts :
          saved'[x] = held[c][x] \cup {p[2] : p \in {q \in batch[c] : q[1] = x}}
    BY <1>10 DEF History!Write, History!Merged
  <2>3. \A x \in History!Accounts : saved'[x] \subseteq DOMAIN ledger
    BY <2>2 DEF KnownInv
  <2> QED BY <2>1, <2>2, <2>3 DEF KnownInv, History!Signatures, History!Accounts, History!None
<1>11. ASSUME NEW c \in Calls, History!Tell(c) \/ History!Fail(c) PROVE KnownInv'
  <2>1. /\ UNCHANGED <<saved, ledger, inbox, unheard>> /\ held'[c] = History!None
        /\ \A d \in Calls \ {c} : /\ phase'[d] = phase[d] /\ held'[d] = held[d]
                                  /\ want'[d] = want[d] /\ batch'[d] = batch[d]
        /\ phase'[c] = "idle" /\ batch'[c] = {}
    BY <1>11 DEF History!Tell, History!Fail, History!Ends, History!wire, History!history,
        HistoryTypes
  <2> QED BY <2>1 DEF KnownInv, History!Signatures, History!Accounts, History!None
<1> QED BY <1>4, <1>5, <1>6, <1>7, <1>8, <1>9, <1>10, <1>11 DEF History!Next

\* What was saved once counts as such from then on.
LEMMA EverSavedGrows ==
  ASSUME KnownInv, History!Next \/ UNCHANGED History!vars, NEW t \in History!EverSaved
  PROVE  t \in History!EverSaved'
<1>1. \A e \in excuse : e \in excuse'
  BY DEF History!Next, History!vars, History!Happen, History!Drop, History!Open,
      History!Resubscribed, History!Restart, History!HandleNotification, History!LatestSignature,
      History!FetchBySignature, History!Synchronize, History!ListSaved, History!FetchSignatures,
      History!Fetch, History!Read, History!Write, History!Tell, History!Fail, History!history
<1>2. CASE t \notin UNION History!Range(saved)
  BY <1>1, <1>2 DEF History!EverSaved
<1>3. CASE UNCHANGED saved
  BY <1>1, <1>3 DEF History!EverSaved
<1>4. ASSUME NEW c \in Calls, History!Write(c), t \in UNION History!Range(saved)
      PROVE  t \in History!EverSaved'
  <2>1. PICK x \in History!Accounts : t \in saved[x]
    BY <1>4 DEF History!Range, KnownInv
  <2>2. DOMAIN saved' = History!Accounts
        /\ saved'[x] = held[c][x] \cup {p[2] : p \in {q \in batch[c] : q[1] = x}}
    BY <1>4 DEF History!Write, History!Merged
  <2>3. CASE t \in saved'[x]
    BY <2>2, <2>3 DEF History!EverSaved, History!Range
  <2>4. CASE t \notin saved'[x]
    <3>1. <<x, t>> \in History!Pairs(saved) \ (History!Pairs(held[c]) \cup batch[c])
      BY <2>1, <2>2, <2>4 DEF History!Pairs
    <3>2. <<x, t, "undone">> \in excuse'
      BY <1>4, <3>1 DEF History!Write, History!Excuse
    <3>3. <<x, t, "undone">> \in {e \in excuse' : e[3] = "undone"}
      BY <3>2
    <3>4. t \in {e[2] : e \in {y \in excuse' : y[3] = "undone"}}
      BY <3>3
    <3> QED BY <3>4 DEF History!EverSaved
  <2> QED BY <2>3, <2>4
<1>5. UNCHANGED saved \/ \E c \in Calls : History!Write(c)
  BY DEF History!Next, History!vars, History!Happen, History!Drop, History!Open,
      History!Resubscribed, History!Restart, History!HandleNotification, History!LatestSignature,
      History!FetchBySignature, History!Synchronize, History!ListSaved, History!FetchSignatures,
      History!Fetch, History!Read, History!Tell, History!Fail
<1> QED BY <1>2, <1>3, <1>4, <1>5

\* A step looks for what came after a transaction of the same mint.
LEMMA SoughtInvKept ==
  ASSUME DataAssumption, HistoryTypes, KnownInv, SoughtInv, History!Next \/ UNCHANGED History!vars
  PROVE  SoughtInv'
<1> DEFINE Right(q) == \/ q[2] = 0
                       \/ /\ q[1] \notin NativeAssets
                          /\ q[2] \in History!EverSaved /\ q[2] \in DOMAIN ledger
                          /\ History!Mentions(q[2], Mint[q[1]])
<1> SUFFICES ASSUME NEW c \in Calls, phase'[c] = "signatures", NEW q \in want'[c]
             PROVE  Right(q)'
  BY DEF SoughtInv
<1>1. Right(q) => Right(q)'
  <2>1. q[2] \in DOMAIN ledger => q[2] \in DOMAIN ledger' /\ ledger'[q[2]] = ledger[q[2]]
    BY LedgerGrows
  <2>2. q[2] \in History!EverSaved => q[2] \in History!EverSaved'
    BY EverSavedGrows
  <2> QED BY <2>1, <2>2 DEF History!Mentions
<1>2. CASE History!ListSaved(c)
  <2>1. PICK p \in want[c] : q = <<p[1], History!LatestTransaction(p[1])>>
    BY <1>2 DEF History!ListSaved, HistoryTypes
  <2> DEFINE alike == {t \in UNION History!Range(saved) : History!Mentions(t, Mint[p[1]])}
  <2>2. alike \subseteq 1..Len(ledger) /\ Len(ledger) \in Nat /\ DOMAIN ledger = 1..Len(ledger)
    BY DEF KnownInv, HistoryTypes, History!Range
  <2>3. CASE p[1] \in NativeAssets \/ alike = {}
    BY <1>1, <2>1, <2>3 DEF History!LatestTransaction, History!Newest
  <2>4. CASE p[1] \notin NativeAssets /\ alike # {}
    <3>1. History!Newest(alike) \in alike
      BY <2>2, <2>4, NewestIs
    <3>2. q[1] = p[1] /\ q[2] = History!Newest(alike)
      BY <2>1, <2>4 DEF History!LatestTransaction
    <3> QED BY <1>1, <2>2, <2>4, <3>1, <3>2 DEF History!EverSaved
  <2> QED BY <2>3, <2>4
<1>3. CASE phase[c] = "signatures" /\ want'[c] = want[c]
  BY <1>1, <1>3 DEF SoughtInv
<1>4. ASSUME NEW d \in Calls,
             \/ History!HandleNotification(d) \/ History!LatestSignature(d)
             \/ History!FetchBySignature(d) \/ History!Synchronize(d)
             \/ History!FetchSignatures(d) \/ History!Fetch(d) \/ History!Read(d)
             \/ History!Write(d) \/ History!Tell(d) \/ History!Fail(d)
      PROVE  phase[c] = "signatures" /\ want'[c] = want[c]
  <2>1. phase'[d] # "signatures"
    BY <1>4 DEF History!HandleNotification, History!LatestSignature, History!FetchBySignature,
        History!Synchronize, History!FetchSignatures, History!Fetch, History!Read, History!Write,
        History!Tell, History!Fail, History!Goes, History!Ends, HistoryTypes
  <2>2. \A b \in Calls \ {d} : phase'[b] = phase[b] /\ want'[b] = want[b]
    BY <1>4 DEF History!HandleNotification, History!LatestSignature, History!FetchBySignature,
        History!Synchronize, History!FetchSignatures, History!Fetch, History!Read, History!Write,
        History!Tell, History!Fail, History!Goes, History!Ends, HistoryTypes
  <2> QED BY <2>1, <2>2
<1>5. ASSUME NEW d \in Calls, History!ListSaved(d), d # c
      PROVE  phase[c] = "signatures" /\ want'[c] = want[c]
  BY <1>5 DEF History!ListSaved, History!Goes, HistoryTypes
<1>6. ASSUME \/ History!Happen \/ History!Drop \/ History!Open \/ History!Resubscribed
             \/ UNCHANGED History!vars
      PROVE  phase[c] = "signatures" /\ want'[c] = want[c]
  BY <1>6 DEF History!Happen, History!Drop, History!Open, History!Resubscribed, History!vars,
      History!calls
<1>7. ~History!Restart
  BY DEF History!Restart
<1> QED BY <1>2, <1>3, <1>4, <1>5, <1>6, <1>7 DEF History!Next

\* A step keeps track of every transaction of every asset, or gives an excuse.
LEMMA HistoryInvKept ==
  ASSUME DataAssumption, HistoryTypes, KnownInv, SoughtInv, HistoryInv,
         History!Next \/ UNCHANGED History!vars
  PROVE  HistoryInv'
<1> SUFFICES ASSUME NEW t \in DOMAIN ledger', NEW a \in ledger'[t], ledger'[t] \notin Spam
             PROVE  HistoryOf(a, t)'
  BY DEF HistoryInv
<1> DEFINE Same(c) == phase'[c] = phase[c] /\ want'[c] = want[c] /\ batch'[c] = batch[c]
<1>1. ASSUME History!Happen PROVE HistoryOf(a, t)'
  <2>1. PICK shape \in Shapes :
          /\ ledger' = Append(ledger, shape)
          /\ shape \X {Len(ledger) + 1} \subseteq unheard' \cup inbox'
          /\ unheard \cup inbox \subseteq unheard' \cup inbox'
    BY <1>1 DEF History!Happen
  <2>2. UNCHANGED <<saved, phase, want, batch, excuse>>
    BY <1>1 DEF History!Happen, History!calls
  <2>3. CASE t = Len(ledger) + 1
    BY <2>1, <2>3 DEF HistoryOf, HistoryTypes
  <2>4. CASE t # Len(ledger) + 1
    <3>1. t \in DOMAIN ledger /\ ledger'[t] = ledger[t]
      BY <2>1, <2>4 DEF HistoryTypes
    <3> QED BY <2>1, <2>2, <3>1 DEF HistoryInv, HistoryOf, Fetched, Fetches, ExcusedFor
  <2> QED BY <2>3, <2>4
<1>2. CASE UNCHANGED ledger
  <2>1. t \in DOMAIN ledger /\ a \in ledger[t] /\ ledger[t] \notin Spam /\ HistoryOf(a, t)
    BY <1>2 DEF HistoryInv
  <2>2. ASSUME History!Drop \/ History!Open \/ History!Resubscribed \/ UNCHANGED History!vars
        PROVE  HistoryOf(a, t)'
    <3>1. UNCHANGED <<saved, phase, want, batch, excuse>> /\
            unheard' \cup inbox' = unheard \cup inbox
      BY <2>2 DEF History!Drop, History!Lost, History!Open, History!Resubscribed, History!vars,
          History!calls, History!history, History!wire
    <3> QED BY <2>1, <3>1 DEF HistoryOf, Fetched, Fetches, ExcusedFor
  <2>3. ASSUME History!Restart PROVE HistoryOf(a, t)'
    <3>1. UNCHANGED saved /\ unheard' \cup inbox' = unheard \cup inbox /\
            excuse' = excuse \cup UNION {History!Losses(c) : c \in Calls}
      BY <2>3 DEF History!Restart, History!Lost
    <3>2. \A c \in Calls : Fetches(c, a, t) => <<Owner[a], t, "rejected">> \in History!Losses(c)
      BY <2>1, LostWithCall
    <3>3. Fetched(a, t) => ExcusedFor(Owner[a], t, History!Missing)'
      BY <3>1, <3>2 DEF Fetched, Fetches, ExcusedFor, History!Missing
    <3> QED BY <2>1, <3>1, <3>3 DEF HistoryOf, ExcusedFor
  <2>4. ASSUME NEW c \in Calls, History!HandleNotification(c) PROVE HistoryOf(a, t)'
    <3>1. PICK news \in inbox : inbox' = inbox \ {news} /\ want' = [want EXCEPT ![c] = {news}]
      BY <2>4 DEF History!HandleNotification
    <3>2. /\ UNCHANGED <<saved, batch, unheard, excuse>> /\ phase[c] = "idle" /\
               phase'[c] = "latest" /\ want'[c] = {news}
          /\ \A d \in Calls \ {c} : Same(d)
      BY <2>4, <3>1 DEF History!HandleNotification, History!Goes, History!history, HistoryTypes
    <3>3. news = <<a, t>> => Fetched(a, t)'
      BY <3>2 DEF Fetched, Fetches
    <3>4. Fetched(a, t) => Fetched(a, t)'
      BY <3>2 DEF Fetched, Fetches
    <3> QED BY <2>1, <3>1, <3>2, <3>3, <3>4 DEF HistoryOf, ExcusedFor
  <2>5. ASSUME NEW c \in Calls, History!LatestSignature(c) PROVE HistoryOf(a, t)'
    <3>1. /\ UNCHANGED <<saved, batch, unheard, inbox>> /\ phase[c] = "latest" /\
               phase'[c] = "causing"
          /\ \A d \in Calls \ {c} : Same(d)
      BY <2>5 DEF History!LatestSignature, History!Goes, History!wire, HistoryTypes
    <3>2. excuse' = excuse \cup History!Excuse(History!Owned(want[c] \ want'[c]), "superseded")
      BY <2>5 DEF History!LatestSignature
    <3>3. <<a, t>> \in want[c] \ want'[c] => <<Owner[a], t, "superseded">> \in excuse'
      BY <3>2, ExcuseOf
    <3>4. Fetched(a, t) => Fetched(a, t)' \/ ExcusedFor(Owner[a], t, History!Missing)'
      BY <3>1, <3>3 DEF Fetched, Fetches, ExcusedFor, History!Missing
    <3> QED BY <2>1, <3>1, <3>2, <3>4 DEF HistoryOf, ExcusedFor
  <2>6. ASSUME NEW c \in Calls, History!FetchBySignature(c) PROVE HistoryOf(a, t)'
    <3>1. /\ UNCHANGED <<saved, unheard, inbox, excuse>> /\ phase[c] = "causing" /\
               phase'[c] = "read"
          /\ \A d \in Calls \ {c} : Same(d)
          /\ <<a, t>> \in want[c] => <<Owner[a], t>> \in batch'[c]
      BY <2>6 DEF History!FetchBySignature, History!Goes, History!Owned, History!wire,
          History!history, HistoryTypes
    <3>2. Fetched(a, t) => Fetched(a, t)'
      BY <3>1 DEF Fetched, Fetches
    <3> QED BY <2>1, <3>1, <3>2 DEF HistoryOf, ExcusedFor
  <2>7. ASSUME NEW c \in Calls, History!Synchronize(c) \/ History!ListSaved(c)
        PROVE  HistoryOf(a, t)'
    <3>1. /\ UNCHANGED <<saved, unheard, inbox, batch, excuse>> /\ phase[c] \in {"idle", "list"} /\
               phase'[c] \in {"list", "signatures"}
          /\ \A d \in Calls \ {c} : Same(d)
      BY <2>7 DEF History!Synchronize, History!ListSaved, History!Goes, History!wire,
          History!history, HistoryTypes
    <3>2. Fetched(a, t) => Fetched(a, t)'
      BY <3>1 DEF Fetched, Fetches
    <3> QED BY <2>1, <3>1, <3>2 DEF HistoryOf, ExcusedFor
  <2>8. ASSUME NEW c \in Calls, History!FetchSignatures(c) PROVE HistoryOf(a, t)'
    <3>1. /\ UNCHANGED <<saved, inbox, batch>> /\ phase[c] = "signatures" /\ phase'[c] = "fetch"
          /\ \A d \in Calls \ {c} : Same(d)
      BY <2>8 DEF History!FetchSignatures, History!Goes, History!wire, HistoryTypes
    <3> DEFINE later == {p \in Assets \X History!Times :
                           p[2] \in History!Signatures(p[1]) /\
                             \E q \in want[c] : p[1] = q[1] /\ p[2] > q[2]}
               list == {p \in later : History!Cardinality({q \in later : q[1] = p[1] /\ q[2] > p[2]})
                                       < PageLimit}
               asked == {p \in unheard : \E q \in want[c] : p[1] = q[1]}
               jumped == {p \in asked \ later : History!Jumped(p)}
    <3>2. PICK top : /\ want' = [want EXCEPT ![c] = top]
                     /\ excuse' = excuse \cup History!Excuse(History!Owned(jumped), "jumped")
                                         \cup History!Excuse(History!Owned(later \ list), "paged")
                                         \cup History!Excuse(History!Owned(list \ top), "limited")
      BY <2>8 DEF History!FetchSignatures
    <3>3. unheard' = unheard \ asked /\ want'[c] = top
      BY <2>8, <3>2 DEF History!FetchSignatures, HistoryTypes
    <3>4. <<a, t>> \in asked \ later => <<a, t>> \in jumped
      <4> SUFFICES ASSUME <<a, t>> \in asked \ later PROVE History!Jumped(<<a, t>>)
        OBVIOUS
      <4>1. PICK q \in want[c] : a = q[1]
        OBVIOUS
      <4>2. t \in History!Signatures(a) /\ a \in Assets /\ t \in History!Times
        BY <2>1, OwnersOf DEF KnownInv, History!Signatures, History!Times
      <4>3. ~(t > q[2])
        BY <4>1, <4>2
      <4>4. /\ t \in Nat /\ t > 0
            /\ q[2] = 0 \/ (q[2] \in DOMAIN ledger /\ q[2] \in Nat)
        BY <2>1, <3>1 DEF SoughtInv, HistoryTypes
      <4>5. q[2] # 0 /\ q[2] >= t
        BY <4>3, <4>4
      <4> QED BY <3>1, <4>1, <4>5 DEF SoughtInv, History!Jumped
    <3> HIDE DEF later, list, asked, jumped
    <3>6. <<a, t>> \in asked => <<a, t>> \in want'[c] \/ ExcusedFor(Owner[a], t, History!Missing)'
      <4>1. CASE <<a, t>> \in asked \ later
        BY <3>2, <3>4, <4>1, ExcuseOf DEF ExcusedFor, History!Missing
      <4>2. CASE <<a, t>> \in later \ list
        BY <3>2, <4>2, ExcuseOf DEF ExcusedFor, History!Missing
      <4>3. CASE <<a, t>> \in list \ top
        BY <3>2, <4>3, ExcuseOf DEF ExcusedFor, History!Missing
      <4> QED BY <3>3, <4>1, <4>2, <4>3
    <3>5. (Fetched(a, t) => Fetched(a, t)') /\ (<<a, t>> \in want'[c] => Fetched(a, t)')
      BY <3>1 DEF Fetched, Fetches
    <3> QED BY <2>1, <3>1, <3>2, <3>3, <3>5, <3>6 DEF HistoryOf, ExcusedFor
  <2>9. ASSUME NEW c \in Calls, History!Fetch(c) PROVE HistoryOf(a, t)'
    <3>1. /\ UNCHANGED <<saved, unheard, inbox>> /\ phase[c] = "fetch" /\ phase'[c] = "read"
          /\ \A d \in Calls \ {c} : Same(d)
      BY <2>9 DEF History!Fetch, History!Goes, History!wire, HistoryTypes
    <3>2. PICK failed :
            /\ batch'[c] = History!Owned({p \in want[c] \ failed : ledger[p[2]] \notin Spam})
            /\ excuse' = excuse \cup History!Excuse(History!Owned(failed), "rejected")
      BY <2>9 DEF History!Fetch, HistoryTypes
    <3>3. <<a, t>> \in want[c] =>
            <<Owner[a], t>> \in batch'[c] \/ ExcusedFor(Owner[a], t, History!Missing)'
      <4>1. CASE <<a, t>> \in failed
        BY <3>2, <4>1, ExcuseOf DEF ExcusedFor, History!Missing
      <4>2. CASE <<a, t>> \notin failed
        BY <2>1, <3>2, <4>2 DEF History!Owned
      <4> QED BY <4>1, <4>2
    <3>4. Fetched(a, t) => Fetched(a, t)' \/ ExcusedFor(Owner[a], t, History!Missing)'
      BY <3>1, <3>3 DEF Fetched, Fetches
    <3> QED BY <2>1, <3>1, <3>2, <3>4 DEF HistoryOf, ExcusedFor
  <2>10. ASSUME NEW c \in Calls, History!Read(c) PROVE HistoryOf(a, t)'
    <3>1. /\ UNCHANGED <<saved, unheard, inbox, excuse, want, batch>> /\ phase[c] = "read" /\
               phase'[c] = "write"
          /\ \A d \in Calls \ {c} : Same(d)
      BY <2>10 DEF History!Read, History!Goes, History!wire, History!history, HistoryTypes
    <3>2. Fetched(a, t) => Fetched(a, t)'
      BY <3>1 DEF Fetched, Fetches
    <3> QED BY <2>1, <3>1, <3>2 DEF HistoryOf, ExcusedFor
  <2>11. ASSUME NEW c \in Calls, History!Write(c) PROVE HistoryOf(a, t)'
    <3>1. /\ UNCHANGED <<unheard, inbox>> /\ phase[c] = "write" /\ \A d \in Calls \ {c} : Same(d)
      BY <2>11 DEF History!Write, History!Goes, History!wire
    <3>2. Owner[a] \in History!Accounts
      BY <2>1, OwnersOf
    <3>3. saved'[Owner[a]] = held[c][Owner[a]] \cup {p[2] : p \in {q \in batch[c] : q[1] = Owner[a]}}
      BY <2>11, <3>2 DEF History!Write, History!Merged
    <3>4. <<Owner[a], t>> \in batch[c] => t \in saved'[Owner[a]]
      BY <3>3
    <3>5. t \in saved[Owner[a]] => t \in saved'[Owner[a]] \/ <<Owner[a], t, "undone">> \in excuse'
      BY <2>11, <3>2, <3>3, <3>4 DEF History!Write, History!Pairs, History!Excuse
    <3>6. \A e \in excuse : e \in excuse'
      BY <2>11 DEF History!Write
    <3>7. Fetched(a, t) => Fetched(a, t)' \/ t \in saved'[Owner[a]]
      BY <3>1, <3>4 DEF Fetched, Fetches
    <3> QED BY <2>1, <3>1, <3>5, <3>6, <3>7 DEF HistoryOf, ExcusedFor, History!Missing
  <2>12. ASSUME NEW c \in Calls, History!Tell(c) PROVE HistoryOf(a, t)'
    <3>1. /\ UNCHANGED <<saved, unheard, inbox, excuse>> /\ phase[c] = "tell" /\
               \A d \in Calls \ {c} : Same(d)
      BY <2>12 DEF History!Tell, History!Ends, History!wire, History!history
    <3>2. Fetched(a, t) => Fetched(a, t)'
      BY <3>1 DEF Fetched, Fetches
    <3> QED BY <2>1, <3>1, <3>2 DEF HistoryOf, ExcusedFor
  <2>13. ASSUME NEW c \in Calls, History!Fail(c) PROVE HistoryOf(a, t)'
    <3>1. /\ UNCHANGED <<saved, unheard, inbox>> /\ excuse' = excuse \cup History!Losses(c) /\
               \A d \in Calls \ {c} : Same(d)
      BY <2>13 DEF History!Fail, History!Ends, History!wire
    <3>2. Fetches(c, a, t) => <<Owner[a], t, "rejected">> \in History!Losses(c)
      BY <2>1, LostWithCall
    <3>3. Fetched(a, t) => Fetched(a, t)' \/ ExcusedFor(Owner[a], t, History!Missing)'
      BY <3>1, <3>2 DEF Fetched, Fetches, ExcusedFor, History!Missing
    <3> QED BY <2>1, <3>1, <3>3 DEF HistoryOf, ExcusedFor
  <2> QED BY <1>1, <2>2, <2>3, <2>4, <2>5, <2>6, <2>7, <2>8, <2>9, <2>10, <2>11, <2>12, <2>13 DEF
      History!Next
<1>3. History!Happen \/ UNCHANGED ledger
  BY DEF History!Next, History!vars, History!Drop, History!Open, History!Resubscribed,
      History!Restart, History!HandleNotification, History!LatestSignature,
      History!FetchBySignature, History!Synchronize, History!ListSaved, History!FetchSignatures,
      History!Fetch, History!Read, History!Write, History!Tell, History!Fail
<1> QED BY <1>1, <1>2, <1>3

\* A step keeps what is saved and what is told together.
LEMMA ToldInvKept ==
  ASSUME HistoryTypes, ToldInv, History!Next \/ UNCHANGED History!vars
  PROVE  ToldInv'
<1> SUFFICES ASSUME NEW x \in History!Accounts PROVE ToldOf(x)'
  BY DEF ToldInv, History!Accounts
<1>1. ToldOf(x)
  BY DEF ToldInv
<1> DEFINE Same(c) == phase'[c] = phase[c] /\ held'[c] = held[c] /\ batch'[c] = batch[c]
           Silent(c) == phase[c] \notin {"write", "tell"} /\ phase'[c] \notin {"write", "tell"}
<1>2. ASSUME NEW c \in Calls, NEW t, phase[c] = "tell", <<x, t>> \in batch[c]
      PROVE  <<x, t, "dropped">> \in History!Losses(c)
  BY <1>2 DEF History!Losses, History!Excuse
<1>3. ASSUME \A c \in Calls : Same(c) \/ Silent(c), UNCHANGED <<saved, told>>,
             \A e \in excuse : e \in excuse'
      PROVE  ToldOf(x)'
  BY <1>1, <1>3 DEF ToldOf, Told, Stored, ExcusedFor
<1>4. ASSUME \/ History!Happen \/ History!Drop \/ History!Open \/ History!Resubscribed
             \/ UNCHANGED History!vars
      PROVE  ToldOf(x)'
  <2>1. UNCHANGED <<phase, held, batch, saved, told, excuse>>
    BY <1>4 DEF History!Happen, History!Drop, History!Open, History!Resubscribed, History!vars,
        History!calls, History!history
  <2> QED BY <1>3, <2>1
<1>5. ASSUME NEW c \in Calls,
             \/ History!HandleNotification(c) \/ History!LatestSignature(c)
             \/ History!FetchBySignature(c)
             \/ History!Synchronize(c) \/ History!ListSaved(c) \/ History!FetchSignatures(c)
             \/ History!Fetch(c)
      PROVE  ToldOf(x)'
  <2>1. Silent(c) /\ (\A d \in Calls \ {c} : Same(d)) /\ UNCHANGED <<saved, told>>
    BY <1>5 DEF History!HandleNotification, History!LatestSignature, History!FetchBySignature,
        History!Synchronize, History!ListSaved, History!FetchSignatures, History!Fetch,
        History!Goes, HistoryTypes
  <2>2. \A e \in excuse : e \in excuse'
    BY <1>5 DEF History!HandleNotification, History!LatestSignature, History!FetchBySignature,
        History!Synchronize, History!ListSaved, History!FetchSignatures, History!Fetch,
        History!history
  <2> QED BY <1>3, <2>1, <2>2
<1>6. ASSUME NEW c \in Calls, History!Read(c) PROVE ToldOf(x)'
  <2>1. /\ phase[c] = "read" /\ phase'[c] = "write" /\ held'[c] = saved /\
             (\A d \in Calls \ {c} : Same(d))
        /\ UNCHANGED <<saved, told, excuse, batch>>
    BY <1>6 DEF History!Read, History!Goes, History!history, HistoryTypes
  <2> QED BY <1>1, <2>1 DEF ToldOf, Told, Stored, ExcusedFor
<1>7. ASSUME NEW c \in Calls, History!Write(c) PROVE ToldOf(x)'
  <2>1. /\ phase[c] = "write" /\ phase'[c] = "tell" /\ (\A d \in Calls \ {c} : Same(d)) /\
             UNCHANGED <<told, batch>>
        /\ \A e \in excuse : e \in excuse'
    BY <1>7 DEF History!Write, History!Goes, HistoryTypes
  <2>2. saved'[x] = held[c][x] \cup {p[2] : p \in {q \in batch[c] : q[1] = x}}
    BY <1>7 DEF History!Write, History!Merged
  <2>3. \A t : t \in {p[2] : p \in {q \in batch[c] : q[1] = x}} <=> <<x, t>> \in batch[c]
    <3>1. ASSUME NEW p \in batch[c], p[1] = x PROVE <<x, p[2]>> \in batch[c]
      BY <3>1 DEF HistoryTypes
    <3> QED BY <3>1
  <2>4. \A t : Told(x, t) => Told(x, t)'
    BY <2>1 DEF Told, ExcusedFor
  <2>5. \A t : <<x, t>> \in batch[c] => Told(x, t)'
    BY <2>1 DEF Told
  <2>6. \A t \in saved[x] : Stored(x, t)'
    <3>1. ASSUME NEW t \in saved[x], t \notin saved'[x] PROVE <<x, t, "undone">> \in excuse'
      <4>1. <<x, t>> \in History!Pairs(saved) \ (History!Pairs(held[c]) \cup batch[c])
        BY <2>2, <2>3, <3>1 DEF History!Pairs
      <4> QED BY <1>7, <4>1 DEF History!Write, History!Excuse
    <3> QED BY <3>1 DEF Stored, ExcusedFor
  <2>7. \A t : Stored(x, t) => Stored(x, t)'
    BY <2>1, <2>6 DEF Stored, ExcusedFor
  <2>8. \A t : <<x, t>> \in batch[c] => Stored(x, t)'
    BY <2>2, <2>3 DEF Stored
  <2>9. \A t \in saved'[x] : Told(x, t)'
    BY <1>1, <2>1, <2>2, <2>3, <2>4, <2>5 DEF ToldOf
  <2>10. \A d \in Calls : phase'[d] = "write" => \A t \in held'[d][x] : Told(x, t)'
    BY <1>1, <2>1, <2>4 DEF ToldOf
  <2>11. \A d \in Calls : phase'[d] = "tell" => \A t : <<x, t>> \in batch'[d] => Stored(x, t)'
    BY <1>1, <2>1, <2>7, <2>8 DEF ToldOf
  <2> QED BY <1>1, <2>1, <2>7, <2>9, <2>10, <2>11 DEF ToldOf
<1>8. ASSUME NEW c \in Calls, History!Tell(c) PROVE ToldOf(x)'
  <2>1. /\ phase[c] = "tell" /\ phase'[c] = "idle" /\ (\A d \in Calls \ {c} : Same(d)) /\
             UNCHANGED <<saved, excuse>>
    BY <1>8 DEF History!Tell, History!Ends, History!history, HistoryTypes
  <2>2. told'[x] = told[x] \cup {p[2] : p \in {q \in batch[c] : q[1] = x}}
    BY <1>8 DEF History!Tell, History!Merged
  <2>3. \A t : t \in {p[2] : p \in {q \in batch[c] : q[1] = x}} <=> <<x, t>> \in batch[c]
    <3>1. ASSUME NEW p \in batch[c], p[1] = x PROVE <<x, p[2]>> \in batch[c]
      BY <3>1 DEF HistoryTypes
    <3> QED BY <3>1
  <2>4. \A t : Told(x, t) => Told(x, t)'
    BY <2>1, <2>2, <2>3 DEF Told, ExcusedFor
  <2>5. \A t : Stored(x, t) => Stored(x, t)'
    BY <2>1 DEF Stored, ExcusedFor
  <2> QED BY <1>1, <2>1, <2>2, <2>3, <2>4, <2>5 DEF ToldOf
<1>9. ASSUME NEW c \in Calls, History!Fail(c) PROVE ToldOf(x)'
  <2>1. /\ phase'[c] = "idle" /\ (\A d \in Calls \ {c} : Same(d)) /\ UNCHANGED <<saved, told>>
        /\ excuse' = excuse \cup History!Losses(c)
    BY <1>9 DEF History!Fail, History!Ends, HistoryTypes
  <2>2. \A t : Told(x, t) => Told(x, t)'
    BY <1>2, <2>1 DEF Told, ExcusedFor
  <2>3. \A t : Stored(x, t) => Stored(x, t)'
    BY <2>1 DEF Stored, ExcusedFor
  <2> QED BY <1>1, <2>1, <2>2, <2>3 DEF ToldOf
<1>10. ASSUME History!Restart PROVE ToldOf(x)'
  <2>1. /\ \A c \in Calls : phase'[c] = "idle" /\ UNCHANGED <<saved, told>>
        /\ \A e \in excuse : e \in excuse'
        /\ \A c \in Calls : \A e \in History!Losses(c) : e \in excuse'
    BY <1>10 DEF History!Restart
  <2>2. \A t : Told(x, t) => Told(x, t)'
    BY <1>10, <1>2, <2>1 DEF Told, ExcusedFor, History!Restart
  <2>3. \A t : Stored(x, t) => Stored(x, t)'
    BY <1>10, <2>1 DEF Stored, ExcusedFor, History!Restart
  <2> QED BY <1>1, <1>10, <2>1, <2>2, <2>3 DEF ToldOf, History!Restart
<1> QED BY <1>4, <1>5, <1>6, <1>7, <1>8, <1>9, <1>10 DEF History!Next

-----------------------------------------------------------------------------
(* The three topics, and the theorems. *)

\* The invariant of each topic, and of all.
MonitorInv ==
  /\ MonitorTypes /\ PurposeInv /\ NoneInv /\ StopInv /\ OpenInv
  /\ KeptInv /\ MonitoredInv /\ RecordInv /\ SyncInv /\ RecoveredInv

BalanceInv == BalanceTypes /\ WaitInv /\ LatestInv /\ SavedInv /\ ShownInv

TransactionInv == HistoryTypes /\ KnownInv /\ SoughtInv /\ HistoryInv /\ ToldInv

DataInv ==
  /\ topic \in {"monitor", "assets", "transactions"}
  /\ topic = "monitor" => MonitorInv
  /\ topic = "assets" => BalanceInv
  /\ topic = "transactions" => TransactionInv

\* The invariant of the monitor holds initially.
LEMMA InitMonitor == Monitor!Init => MonitorInv
<1> SUFFICES ASSUME Monitor!Init PROVE MonitorInv
  OBVIOUS
<1>1. MonitorTypes
  BY DEF Monitor!Init, MonitorTypes, Monitor!Purposes, Monitor!Phases, Monitor!Steps
<1>2. PurposeInv /\ NoneInv /\ StopInv /\ OpenInv /\ KeptInv /\ MonitoredInv /\ RecordInv /\
        SyncInv /\ RecoveredInv
  BY DEF Monitor!Init, PurposeInv, NoneInv, StopInv, OpenInv, KeptInv, MonitoredInv, RecordInv,
      SyncInv, RecoveredInv, SomeoneSubscribes, Monitor!Subscribing, Stops, Stopping, Listed
<1> QED BY <1>1, <1>2 DEF MonitorInv

\* So does that of the balances: all of them are unheard of.
LEMMA InitBalances == DataAssumption /\ Balances!Init => BalanceInv
<1> SUFFICES ASSUME DataAssumption, Balances!Init PROVE BalanceInv
  OBVIOUS
<1>1. BalanceTypes /\ WaitInv /\ LatestInv
  BY DEF Balances!Init, BalanceTypes, WaitInv, LatestInv, Balances!Waiting, Balances!Latest
<1>2. SavedInv
  BY DEF Balances!Init, SavedInv, SavedOf
<1>3. ShownInv
  BY DEF Balances!Init, ShownInv, ShownOf, ListRight, BalanceRight, Balances!Nothing
<1> QED BY <1>1, <1>2, <1>3 DEF BalanceInv

\* So does that of the transactions, of which there is none.
LEMMA InitHistory == History!Init => TransactionInv
<1> SUFFICES ASSUME History!Init PROVE TransactionInv
  OBVIOUS
<1>1. HistoryTypes /\ HistoryInv
  BY DEF History!Init, HistoryTypes, HistoryInv
<1>2. KnownInv /\ SoughtInv
  BY DEF History!Init, KnownInv, SoughtInv, History!None, History!Accounts
<1>3. ToldInv
  BY DEF History!Init, ToldInv, ToldOf, History!None
<1> QED BY <1>1, <1>2, <1>3 DEF TransactionInv

\* The invariant holds initially.
LEMMA InitData == Init => DataInv
BY DataAssumption, InitMonitor, InitBalances, InitHistory DEF Init, DataInv

\* A step, which is one of its topic, keeps it.
LEMMA StepData == DataInv /\ [Next]_vars => DataInv'
<1> SUFFICES ASSUME DataInv, [Next]_vars PROVE DataInv'
  OBVIOUS
<1>1. topic' = topic
  BY DEF Next, MonitorStep, AssetsStep, TransactionsStep, vars
<1>2. CASE topic = "monitor"
  <2>1. Monitor!Next \/ UNCHANGED Monitor!vars
    BY <1>2 DEF Next, MonitorStep, AssetsStep, TransactionsStep, vars, monitorOnly, Monitor!vars,
        Monitor!state, Monitor!service, Monitor!calls, Monitor!recovery
  <2>2. MonitorInv'
    BY DataAssumption, <1>2, <2>1, MonitorTypesKept, PurposeInvKept, NoneInvKept, StopInvKept,
        OpenInvKept, KeptInvKept, MonitoredInvKept, RecordInvKept, SyncInvKept, RecoveredInvKept DEF
        DataInv, MonitorInv
  <2> QED BY <1>1, <1>2, <2>2 DEF DataInv
<1>3. CASE topic = "assets"
  <2>1. Balances!Next \/ UNCHANGED Balances!vars
    BY <1>3 DEF Next, MonitorStep, AssetsStep, TransactionsStep, vars, assetsOnly, notMonitor,
        Balances!vars, Balances!extension, Balances!wire, Balances!calls, Balances!history
  <2>2. BalanceInv'
    BY DataAssumption, <1>3, <2>1, BalanceTypesKept, WaitInvKept, LatestInvKept, SavedInvKept,
        ShownInvKept DEF DataInv, BalanceInv
  <2> QED BY <1>1, <1>3, <2>2 DEF DataInv
<1>4. CASE topic = "transactions"
  <2>1. History!Next \/ UNCHANGED History!vars
    BY <1>4 DEF Next, MonitorStep, AssetsStep, TransactionsStep, vars, transactionsOnly,
        notMonitor, History!vars, History!wire, History!calls, History!history
  <2>2. TransactionInv'
    BY DataAssumption, <1>4, <2>1, HistoryTypesKept, KnownInvKept, SoughtInvKept, HistoryInvKept,
        ToldInvKept DEF DataInv, TransactionInv
  <2> QED BY <1>1, <1>4, <2>2 DEF DataInv
<1> QED BY <1>2, <1>3, <1>4 DEF DataInv

\* The invariant holds at every moment.
LEMMA AlwaysDataInv == Spec => []DataInv
BY InitData, StepData, PTL DEF Spec

\* An account the snap lists is subscribed to all its topics once all is quiet, unless a request
\* was rejected, an update undid a creation or an erasure, the snap restarted or a stop crossed
\* another call (monitorKeyringAccount, #handleOnStart, deleteAccount).
THEOREM AccountsMonitored == Spec => []MonitoredUnlessExcused
<1>1. DataInv => MonitoredUnlessExcused
  <2> SUFFICES ASSUME DataInv, topic = "monitor", Monitor!Quiet, account = "listed",
                      {"rejected", "overwritten", "restarted", "crossed"} \cap excuse = {}
               PROVE  records = Topics
    BY DEF MonitoredUnlessExcused, Monitor!MonitoredUnlessExcused
  <2>1. MonitorTypes /\ MonitoredInv
    BY DEF DataInv, MonitorInv
  <2>2. \A t \in Topics : Kept(t)
    BY <2>1 DEF MonitoredInv, Unexcused, Listed, Monitor!Quiet, Monitor!Free, Stops
  <2> QED BY <2>1, <2>2 DEF MonitorTypes, Kept, Monitor!Quiet, Monitor!Free, Monitor!Subscribing
<1> QED BY <1>1, AlwaysDataInv, PTL

\* Once all is quiet, nothing of the monitoring of an account that is gone is left in the
\* records, but for the listed reasons (stopMonitorKeyringAccount, deleteAccount).
THEOREM NothingLeft == Spec => []GoneUnlessExcused
<1>1. DataInv => GoneUnlessExcused
  <2> SUFFICES ASSUME DataInv, topic = "monitor", Monitor!Quiet, account = "gone",
                      {"rejected", "overwritten", "abandoned", "restarted", "crossed", "stale",
                       "resurrected"} \cap excuse = {}
               PROVE  records = {}
    BY DEF GoneUnlessExcused, Monitor!GoneUnlessExcused
  <2>1. RecordInv
    BY DEF DataInv, MonitorInv
  <2> QED BY <2>1 DEF RecordInv, Accountable, Unexcused, Stops, Monitor!Quiet, Monitor!Free
<1> QED BY <1>1, AlwaysDataInv, PTL

\* A recovery finds the account that was monitored when the connection opened, but for the
\* listed reasons (#handleConnectionRecovery).
THEOREM AccountsSynchronized == Spec => []SynchronizedUnlessExcused
<1>1. DataInv => SynchronizedUnlessExcused
  BY DEF DataInv, MonitorInv, RecoveredInv, SynchronizedUnlessExcused,
      Monitor!SynchronizedUnlessExcused, Unexcused, Listed
<1> QED BY <1>1, AlwaysDataInv, PTL

\* Once all is quiet, the saved balance of each asset is the one on the cluster, or nobody was
\* told of its last change, or a listed reason says why not (saveMany, synchronize,
\* #handleAccountNotification, #handleProgramNotification).
THEOREM BalancesSaved == Spec => []SavedUnlessExcused
<1>1. DataInv => SavedUnlessExcused
  <2> SUFFICES ASSUME DataInv, topic = "assets", Balances!Quiet, NEW a \in Holdings
               PROVE  saved[a] = real[a] \/ a \in unheard \/ excuse[a] \cap Balances!Unsaved # {}
    BY DEF SavedUnlessExcused, Balances!SavedUnlessExcused
  <2>1. SavedOf(a)
    BY DEF DataInv, BalanceInv, SavedInv
  <2>2. ~ToSave(a) /\ ~NotifiedOf(a, real[a])
    BY DEF Balances!Quiet, ToSave, Balances!Latest, Balances!Waiting, NotifiedOf
  <2> QED BY <2>1, <2>2 DEF SavedOf, ToSave, Excused
<1> QED BY <1>1, AlwaysDataInv, PTL

\* Once all is quiet, the extension lists and shows each asset as it is saved, but for the
\* listed reasons (the events of saveMany).
THEOREM BalancesShown == Spec => []ShownUnlessExcused
<1>1. DataInv => ShownUnlessExcused
  <2> SUFFICES ASSUME DataInv, topic = "assets", Balances!Quiet, NEW a \in Holdings
               PROVE  \/ excuse[a] \cap (Balances!Unannounced \cup {"undone"}) # {}
                      \/ /\ a \in NativeHoldings \/ (a \in listed) = (saved[a] \notin {Absent, 0})
                         /\ a \in listed => shown[a] = (IF saved[a] = Absent THEN 0 ELSE saved[a])
    BY DEF ShownUnlessExcused, Balances!ShownUnlessExcused
  <2>1. ShownOf(a)
    BY DEF DataInv, BalanceInv, ShownInv
  <2>2. \A c \in Calls : a \notin Announces(c) /\ a \notin Updates(c)
    BY DEF Balances!Quiet, Announces, Updates
  <2>3. Excused(a, Unshown) => excuse[a] \cap (Balances!Unannounced \cup {"undone"}) # {}
    BY DEF Excused, Unshown
  <2> QED BY <2>1, <2>2, <2>3 DEF ShownOf, ListRight, BalanceRight
<1> QED BY <1>1, AlwaysDataInv, PTL

\* Once all is quiet, each transaction that is no spam is saved for the accounts it touches, or
\* nobody was told of it, or a listed reason says why not (#saveCausingTransaction,
\* fetchAssetsTransactions, saveMany).
THEOREM TransactionsSaved == Spec => []HistoryUnlessExcused
<1>1. DataInv => HistoryUnlessExcused
  <2> SUFFICES ASSUME DataInv, topic = "transactions", History!Quiet, NEW p \in History!Real
               PROVE  \/ p \in History!Pairs(saved) \/ p \in History!Owned(unheard)
                      \/ \E why \in History!Missing : <<p[1], p[2], why>> \in excuse
    BY DEF HistoryUnlessExcused, History!SavedUnlessExcused
  <2>1. PICK t \in DOMAIN ledger : \E a \in ledger[t] :
          Owner[a] \in History!Accounts /\ p = <<Owner[a], t>> /\ ledger[t] \notin Spam
    BY DEF History!Real, History!Times
  <2>2. PICK a \in ledger[t] :
          Owner[a] \in History!Accounts /\ p = <<Owner[a], t>> /\ ledger[t] \notin Spam
    BY <2>1
  <2>3. HistoryOf(a, t)
    BY <2>2 DEF DataInv, TransactionInv, HistoryInv
  <2>4. <<a, t>> \notin inbox /\ ~Fetched(a, t)
    BY DEF History!Quiet, Fetched, Fetches
  <2>5. t \in saved[Owner[a]] => p \in History!Pairs(saved)
    BY <2>2 DEF History!Pairs
  <2>6. <<a, t>> \in unheard => p \in History!Owned(unheard)
    BY <2>2 DEF History!Owned
  <2> QED BY <2>2, <2>3, <2>4, <2>5, <2>6 DEF HistoryOf, ExcusedFor
<1> QED BY <1>1, AlwaysDataInv, PTL

\* Once all is quiet, the extension was told of what is saved, or the call that saved it failed;
\* and what it was told of is saved, or an update undid it (saveMany).
THEOREM TransactionsTold == Spec => []ToldUnlessExcused
<1>1. DataInv => ToldUnlessExcused
  <2> SUFFICES ASSUME DataInv, topic = "transactions", History!Quiet
               PROVE  /\ \A p \in History!Pairs(saved) \ History!Pairs(told) : <<p[1], p[2], "dropped">> \in excuse
                      /\ \A p \in History!Pairs(told) \ History!Pairs(saved) : <<p[1], p[2], "undone">> \in excuse
    BY DEF ToldUnlessExcused, History!ToldUnlessExcused
  <2>1. \A x \in History!Accounts : ToldOf(x)
    BY DEF DataInv, TransactionInv, ToldInv
  <2>2. \A state : \A p : p \in History!Pairs(state)
          <=> \E x \in History!Accounts : \E t \in state[x] : p = <<x, t>>
    BY DEF History!Pairs
  <2>3. \A x \in History!Accounts : \A t \in saved[x] : t \in told[x] \/
          <<x, t, "dropped">> \in excuse
    BY <2>1 DEF History!Quiet, ToldOf, Told, ExcusedFor
  <2>4. \A x \in History!Accounts : \A t \in told[x] : t \in saved[x] \/
          <<x, t, "undone">> \in excuse
    BY <2>1 DEF ToldOf, Stored, ExcusedFor
  <2> QED BY <2>2, <2>3, <2>4
<1> QED BY <1>1, AlwaysDataInv, PTL
=============================================================================
