----------------------- MODULE KeyringAccountMonitor -----------------------
(***************************************************************************)
(* KeyringAccountMonitor: for each account of the snap, a subscription to  *)
(* its native balance and one to each token program, as long as it exists. *)
(* Accounts do not interact, so this is the life of one of them: calls     *)
(* that create it, delete it, and start or stop monitoring it overlap at   *)
(* every await, and steps of a failed call go on after it.                 *)
(*                                                                         *)
(* The subscription service is reduced to its records (it is the subject   *)
(* of Subscriptions), which survive a restart and are subscribed to again  *)
(* when a connection opens; the map #monitoredKeyringAccounts does not     *)
(* survive.                                                                *)
(***************************************************************************)
EXTENDS Naturals, FiniteSets

CONSTANTS
  Calls,           \* calls in flight, of createAccount, deleteAccount and onStart
  Topics,          \* what an account is subscribed to, on all networks
  Native,          \* the topics of method accountSubscribe
  MaxStarts,       \* bound: onStart, onUpdate and onInstall events
  MaxDisturbances  \* bound: `open` events, restarts of the snap, rejected requests

\* What is assumed of the constants, by the instance that gives them.
Assumptions ==
  /\ Native \subseteq Topics
  /\ MaxStarts \in Nat /\ MaxDisturbances \in Nat

VARIABLES
  account,        \* "none", "listed" in the state, or "gone" from it
  erasing,        \* #deleteAccountFromState is under way, or what may overwrite it
  monitored,      \* #monitoredKeyringAccounts: topics whose id it holds
  records,        \* topics with a record of the subscription service
  resubscribing,  \* topics whose record #reSubscribe has deleted
  by,             \* what a call is made for
  phase,          \* the await it stands at
  doomed,         \* topics that its stopMonitorKeyringAccount unsubscribes
  step,           \* the await at which its subscribe stands, for each topic
  opened,         \* the handlers of an `open` event that have yet to read the records
  unsynced,       \* the account was monitored before that event
  excuse,         \* history: what went wrong
  budget          \* what is left of the bounds

state == <<account, erasing>>
service == <<records, resubscribing>>
calls == <<by, phase, doomed, step>>
recovery == <<opened, unsynced>>
vars == <<state, monitored, service, calls, recovery, excuse, budget>>

Purposes == {"create", "start", "delete"}
Phases == {"idle", "fetch", "list", "enter", "monitoring", "stopping", "throwing", "announce"}
Steps == {"none", "save", "note"}

Excuses ==
  {"rejected",     \* a subscribe, an unsubscribe or an erasure was rejected
   "overwritten",  \* an update with the state before it undid a creation or an erasure
   "abandoned",    \* createAccount failed otherwise, and erased a monitored account
   "restarted",    \* a restart took the map, or the calls in flight
   "crossed",      \* a stop began while another call was subscribing or stopping
   "stale",        \* an account was monitored that had been deleted since it was listed
   "resurrected",  \* #reSubscribe held a topic when it was unsubscribed
   "cleared",      \* a recovery read the records after #reSubscribe had deleted them
   "between"}      \* a recovery read them while a call was monitoring or stopping

TypeOK ==
  /\ account \in {"none", "listed", "gone"}
  /\ erasing \in BOOLEAN
  /\ monitored \subseteq Topics
  /\ records \subseteq Topics
  /\ resubscribing \subseteq Topics
  /\ by \in [Calls -> Purposes]
  /\ phase \in [Calls -> Phases]
  /\ doomed \in [Calls -> SUBSET Topics]
  /\ step \in [Calls -> [Topics -> Steps]]
  /\ opened \subseteq {"reSubscribe", "recover"}
  /\ unsynced \in BOOLEAN
  /\ excuse \subseteq Excuses
  /\ budget \in [starts : 0..MaxStarts, disturbances : 0..MaxDisturbances]

Init ==
  /\ account = "none"
  /\ erasing = FALSE
  /\ monitored = {}
  /\ records = {}
  /\ resubscribing = {}
  /\ by = [c \in Calls |-> "start"]
  /\ phase = [c \in Calls |-> "idle"]
  /\ doomed = [c \in Calls |-> {}]
  /\ step = [c \in Calls |-> [t \in Topics |-> "none"]]
  /\ opened = {}
  /\ unsynced = FALSE
  /\ excuse = {}
  /\ budget = [starts |-> MaxStarts, disturbances |-> MaxDisturbances]

Spend(what) ==
  /\ budget[what] > 0
  /\ budget' = [budget EXCEPT ![what] = @ - 1]
Excuse(why, condition) == excuse' = excuse \cup IF condition THEN {why} ELSE {}

Subscribing(c) == \E t \in Topics : step[c][t] # "none"
Free(c) == phase[c] = "idle" /\ ~Subscribing(c)

Begins(c, purpose, first) ==
  /\ Free(c)
  /\ by' = [by EXCEPT ![c] = purpose]
  /\ phase' = [phase EXCEPT ![c] = first]
Goes(c, from, to) ==
  /\ phase[c] = from
  /\ phase' = [phase EXCEPT ![c] = to]

------------------------------------------------------------------------------
(* stopMonitorKeyringAccount.                                              *)

\* Up to its first await: the ids are read from the map.
ReadMap(c) ==
  /\ doomed' = [doomed EXCEPT ![c] = monitored]
  /\ Excuse("crossed", \E d \in Calls : Subscribing(d) \/ phase[d] \in {"stopping", "throwing"})

\* unsubscribe of one id: its record is deleted, if there is one.
Unsubscribe(c, t) ==
  /\ t \in doomed[c]
  /\ doomed' = [doomed EXCEPT ![c] = @ \ {t}]
  /\ records' = records \ {t}
  /\ Excuse("resurrected", t \in resubscribing)
  /\ UNCHANGED <<state, monitored, resubscribing, by, phase, step, recovery, budget>>

\* The same, rejected: allSettled ignores it.
UnsubscribeFails(c, t) ==
  /\ t \in doomed[c]
  /\ Spend("disturbances")
  /\ doomed' = [doomed EXCEPT ![c] = @ \ {t}]
  /\ Excuse("rejected", TRUE)
  /\ UNCHANGED <<state, monitored, service, by, phase, step, recovery>>

\* Mutant of Stopped: the entry of the map stays.
StoppedWithoutForgetting(c) ==
  /\ phase[c] \in {"stopping", "throwing"}
  /\ doomed[c] = {}
  /\ phase' = [phase EXCEPT ![c] =
       IF @ = "stopping" /\ by[c] = "start" THEN "enter" ELSE "idle"]
  /\ erasing' = (erasing \/ (phase[c] = "throwing" /\ by[c] = "create"))
  /\ UNCHANGED <<account, monitored, service, by, doomed, step, recovery, excuse, budget>>

\* All are settled: the entry is deleted, whatever it holds by now.  onStart
\* goes on to monitor.  A call that failed throws, and createAccount catches it.
Stopped(c) ==
  /\ phase[c] \in {"stopping", "throwing"}
  /\ doomed[c] = {}
  /\ monitored' = {}
  /\ phase' = [phase EXCEPT ![c] =
       IF @ = "stopping" /\ by[c] = "start" THEN "enter" ELSE "idle"]
  /\ erasing' = (erasing \/ (phase[c] = "throwing" /\ by[c] = "create"))
  /\ UNCHANGED <<account, service, by, doomed, step, recovery, excuse, budget>>

------------------------------------------------------------------------------
(* monitorKeyringAccount.                                                  *)

\* Its test of the map, and the first await of each subscribe.  createAccount
\* gets here when the assets are fetched and saved.
Enter(c) ==
  /\ phase[c] \in {"fetch", "enter"}
  /\ LET After == IF by[c] = "create" THEN "announce" ELSE "idle" IN
     IF monitored # {}
       THEN /\ phase' = [phase EXCEPT ![c] = After]
            /\ UNCHANGED <<step, excuse>>
       ELSE /\ phase' = [phase EXCEPT ![c] = "monitoring"]
            /\ step' = [step EXCEPT ![c] = [t \in Topics |-> "save"]]
            /\ Excuse("stale", account # "listed" \/ erasing)
  /\ UNCHANGED <<state, monitored, service, by, doomed, recovery, budget>>

\* subscribe: the record is saved, unless there is a confirmed one.
SaveRecord(c, t) ==
  /\ step[c][t] = "save"
  /\ step' = [step EXCEPT ![c][t] = "note"]
  /\ records' = records \cup {t}
  /\ UNCHANGED <<state, monitored, resubscribing, by, phase, doomed, recovery, excuse, budget>>

\* Mutant of Note: a second id replaces the first.
NoteLast(c, t) ==
  /\ step[c][t] = "note"
  /\ step' = [step EXCEPT ![c][t] = "none"]
  /\ monitored' = {t}
  /\ UNCHANGED <<state, service, by, phase, doomed, recovery, excuse, budget>>

\* #recordSubscriptionForAccount: subscribe has sent its message and returned.
Note(c, t) ==
  /\ step[c][t] = "note"
  /\ step' = [step EXCEPT ![c][t] = "none"]
  /\ monitored' = monitored \cup {t}
  /\ UNCHANGED <<state, service, by, phase, doomed, recovery, excuse, budget>>

\* subscribe throws, before or after it saved the record.  The first time,
\* monitorKeyringAccount stops what is monitored; other steps go on.
SubscribeFails(c, t) ==
  /\ step[c][t] # "none"
  /\ Spend("disturbances")
  /\ step' = [step EXCEPT ![c][t] = "none"]
  /\ excuse' = excuse \cup {"rejected"}
  /\ IF phase[c] = "monitoring"
       THEN /\ phase' = [phase EXCEPT ![c] = "throwing"]
            /\ doomed' = [doomed EXCEPT ![c] = monitored]
       ELSE UNCHANGED <<phase, doomed>>
  /\ UNCHANGED <<state, monitored, service, by, recovery>>

\* monitorKeyringAccount returns.
Monitored(c) ==
  /\ ~Subscribing(c)
  /\ Goes(c, "monitoring", IF by[c] = "create" THEN "announce" ELSE "idle")
  /\ UNCHANGED <<state, monitored, service, by, doomed, step, recovery, excuse, budget>>

------------------------------------------------------------------------------
(* Its callers.                                                            *)

\* createAccount saves the account, then fetches and saves its assets.
CreateAccount(c) ==
  /\ account = "none"
  /\ Begins(c, "create", "fetch")
  /\ account' = "listed"
  /\ UNCHANGED <<erasing, monitored, service, doomed, step, recovery, excuse, budget>>

\* createAccount announces the account and schedules its synchronization.
Announce(c) ==
  /\ Goes(c, "announce", "idle")
  /\ UNCHANGED <<state, monitored, service, by, doomed, step, recovery, excuse, budget>>

\* createAccount fails before or after monitoring: it erases the account.
CreateFails(c) ==
  /\ by[c] = "create"
  /\ \/ Goes(c, "announce", "idle")
     \/ Goes(c, "fetch", "idle")
  /\ Spend("disturbances")
  /\ erasing' = TRUE
  /\ Excuse("abandoned", monitored # {} \/ \E d \in Calls : Subscribing(d))
  /\ UNCHANGED <<account, monitored, service, by, doomed, step, recovery>>

\* deleteAccount, once the extension has agreed: it erases the account and stops
\* monitoring it, in parallel.
DeleteAccount(c) ==
  /\ account = "listed"
  /\ ~erasing
  /\ ~\E d \in Calls : by[d] = "create" /\ phase[d] # "idle"
  /\ Begins(c, "delete", "stopping")
  /\ erasing' = TRUE
  /\ ReadMap(c)
  /\ UNCHANGED <<account, monitored, service, step, recovery, budget>>

\* The account that createAccount saved is lost: an update that had read the state before
\* writes it back.
SaveOverwritten(c) ==
  /\ phase[c] = "fetch"
  /\ account = "listed"
  /\ account' = "gone"
  /\ Excuse("overwritten", TRUE)
  /\ UNCHANGED <<erasing, monitored, service, calls, recovery, budget>>

\* #deleteAccountFromState deletes three keys in parallel; here, that of the account.
Erase ==
  /\ erasing
  /\ account = "listed"
  /\ account' = "gone"
  /\ UNCHANGED <<erasing, monitored, service, calls, recovery, excuse, budget>>

\* It is rejected, which allSettled hides from deleteAccount.
EraseFails ==
  /\ erasing
  /\ account = "listed"
  /\ Spend("disturbances")
  /\ erasing' = FALSE
  /\ Excuse("rejected", TRUE)
  /\ UNCHANGED <<account, monitored, service, calls, recovery>>

\* Another deletion, or any update that read the state before, writes the account back.
EraseOverwritten ==
  /\ erasing
  /\ account = "gone"
  /\ account' = "listed"
  /\ erasing' = FALSE
  /\ Excuse("overwritten", TRUE)
  /\ UNCHANGED <<monitored, service, calls, recovery, budget>>

\* All is settled, and no such update is left.
Erased ==
  /\ erasing
  /\ account = "gone"
  /\ erasing' = FALSE
  /\ UNCHANGED <<account, monitored, service, calls, recovery, excuse, budget>>

\* #handleOnStart, up to getAll.
HandleOnStart(c) ==
  /\ Spend("starts")
  /\ Begins(c, "start", "list")
  /\ UNCHANGED <<state, monitored, service, doomed, step, recovery, excuse>>

\* #handleOnStart: a listed account is stopped if it is monitored, and then
\* monitored.  One that is not listed is left as it is.
ListAccounts(c) ==
  /\ phase[c] = "list"
  /\ IF account = "listed" /\ monitored # {}
       THEN /\ Goes(c, "list", "stopping")
            /\ ReadMap(c)
       ELSE /\ Goes(c, "list", IF account = "listed" THEN "enter" ELSE "idle")
            /\ UNCHANGED <<doomed, excuse>>
  /\ UNCHANGED <<state, monitored, service, by, step, recovery, budget>>

------------------------------------------------------------------------------
(* Connections, and restarts.                                              *)

\* An `open` event calls #reSubscribe and #handleConnectionRecovery.
Open ==
  /\ opened = {}
  /\ resubscribing = {}
  /\ Spend("disturbances")
  /\ opened' = {"reSubscribe", "recover"}
  /\ unsynced' = (account = "listed" /\ ~erasing /\ monitored \cap Native # {})
  /\ UNCHANGED <<state, monitored, service, calls, excuse>>

\* #reSubscribe deletes all records.
DeleteRecords ==
  /\ "reSubscribe" \in opened
  /\ opened' = opened \ {"reSubscribe"}
  /\ resubscribing' = records
  /\ records' = {}
  /\ UNCHANGED <<state, monitored, calls, unsynced, excuse, budget>>

\* #reSubscribe subscribes to what it had found.
Resubscribe(t) ==
  /\ t \in resubscribing
  /\ resubscribing' = resubscribing \ {t}
  /\ records' = records \cup {t}
  /\ UNCHANGED <<state, monitored, calls, recovery, excuse, budget>>

\* Mutant of Recover: it looks for the records of the token programs.
RecoverPrograms ==
  /\ "recover" \in opened
  /\ opened' = opened \ {"recover"}
  /\ unsynced' = (unsynced /\ ~(account = "listed" /\ records \ Native # {}))
  /\ Excuse("cleared", resubscribing \ Native # {})
  /\ UNCHANGED <<state, monitored, service, calls, budget>>

\* #handleConnectionRecovery: the accounts with a record of accountSubscribe are
\* synchronized.
Recover ==
  /\ "recover" \in opened
  /\ opened' = opened \ {"recover"}
  /\ unsynced' = (unsynced /\ ~(account = "listed" /\ records \cap Native # {}))
  /\ excuse' = excuse
       \cup (IF resubscribing \cap Native # {} THEN {"cleared"} ELSE {})
       \cup (IF \E c \in Calls : Subscribing(c) \/ phase[c] \in {"stopping", "throwing", "enter"}
               THEN {"between"} ELSE {})
  /\ UNCHANGED <<state, monitored, service, calls, budget>>

\* The host stops the snap and starts it again.
Restart ==
  /\ Spend("disturbances")
  /\ monitored' = {}
  /\ resubscribing' = {}
  /\ phase' = [c \in Calls |-> "idle"]
  /\ doomed' = [c \in Calls |-> {}]
  /\ step' = [c \in Calls |-> [t \in Topics |-> "none"]]
  /\ opened' = {}
  /\ unsynced' = FALSE
  /\ erasing' = FALSE
  /\ excuse' = excuse \cup {"restarted"}
  /\ UNCHANGED <<account, records, by>>

Next ==
  \/ \E c \in Calls :
       \/ \E t \in Topics :
            \/ Unsubscribe(c, t)
            \/ UnsubscribeFails(c, t)
            \/ SaveRecord(c, t)
            \/ Note(c, t)
            \/ SubscribeFails(c, t)
       \/ Stopped(c)
       \/ Enter(c)
       \/ Monitored(c)
       \/ CreateAccount(c)
       \/ Announce(c)
       \/ CreateFails(c)
       \/ SaveOverwritten(c)
       \/ DeleteAccount(c)
       \/ HandleOnStart(c)
       \/ ListAccounts(c)
  \/ \E t \in Topics : Resubscribe(t)
  \/ Erase
  \/ EraseFails
  \/ EraseOverwritten
  \/ Erased
  \/ Open
  \/ DeleteRecords
  \/ Recover
  \/ Restart

Spec == Init /\ [][Next]_vars

------------------------------------------------------------------------------
(* Properties.                                                             *)

Quiet ==
  /\ \A c \in Calls : Free(c)
  /\ ~erasing
  /\ opened = {}
  /\ resubscribing = {}

\* Once all is quiet, an account of the snap is subscribed to all of its topics,
\* on this connection or with the next one, or a known reason says why not: one is that a
\* deletion stopped its subscriptions and left it in the state, rejected or overwritten.
\* Overlapping calls are no reason as such, nor is a connection that opens
\* (monitorKeyringAccount, #handleOnStart, deleteAccount).
MonitoredUnlessExcused ==
  Quiet /\ account = "listed" =>
    records = Topics \/ excuse \cap {"rejected", "overwritten", "restarted", "crossed"} # {}

\* Once all is quiet, an account that was deleted, or whose creation failed, has
\* no subscription left, which each connection would make anew, or a known reason
\* says why (stopMonitorKeyringAccount).
GoneUnlessExcused ==
  Quiet /\ account = "gone" =>
    records = {} \/ excuse \cap {"rejected", "overwritten", "abandoned", "restarted",
                                 "crossed", "stale", "resurrected"} # {}

\* An account that was monitored when a connection was lost is synchronized once
\* the recovery of the next one has looked for it, or a known reason says why not
\* (#handleConnectionRecovery).
SynchronizedUnlessExcused ==
  "recover" \notin opened /\ unsynced /\ account = "listed" /\ ~erasing =>
    excuse \cap {"rejected", "overwritten", "crossed", "cleared", "between"} # {}
==============================================================================
