--------------------------- MODULE SignatureMonitor ---------------------------
(***************************************************************************)
(* SignatureMonitor: it waits until a transaction reaches a commitment     *)
(* level, by a subscription to its signature, then fetches and saves the   *)
(* transaction, tracks it, and unsubscribes.  When a connection opens it   *)
(* fetches the status of the signatures it holds in memory, to make up for *)
(* notifications it missed.                                                *)
(*                                                                         *)
(* The subscription service is reduced to what it does here (it is the     *)
(* subject of Subscriptions): it keeps a record per request, sends each to *)
(* the server, and on an `open` event deletes the records and subscribes   *)
(* to them again.  What a request says is fixed by its id, so a request    *)
(* stands for a signature as well.  Calls that handle the same request     *)
(* differ only in how far they got, so they are counted.                   *)
(***************************************************************************)
EXTENDS Naturals, FiniteSets

CONSTANTS
  Requests,        \* ids of the subscription requests, hashes of their content
  MaxConnections,  \* bound: connections
  MaxRestarts,     \* bound: restarts of the snap
  MaxFailures      \* bound: requests of the handlers that are rejected

ASSUME BoundsAssumption ==
  MaxConnections \in Nat /\ MaxRestarts \in Nat /\ MaxFailures \in Nat

VARIABLES
  status,         \* what getSignatureStatuses says of the signature
  commitment,     \* the level its request asks for
  monitoring,     \* the call of monitor, by the await it stands at
  pending,        \* #pendingSubscriptions
  handling,       \* calls that recover or handle a request, by their await
  records,        \* requests with a record of the subscription service
  confirmed,      \* those whose record holds the server's number
  resubscribing,  \* requests that #reSubscribe has yet to subscribe to
  link,           \* the connection is "down" or "open"
  opened,         \* its `open` event is not handled yet
  live,           \* the server's subscriptions on this connection
  notified,       \* signature notifications on their way
  handled,        \* how often the transaction was saved and tracked
  excuse,         \* history: why a request was missed, or handled twice
  budget          \* what is left of the bounds

chain == <<status, commitment>>
monitor == <<monitoring, pending, handling, handled>>
service == <<records, confirmed, resubscribing>>
wire == <<link, opened, live, notified>>
vars == <<chain, monitor, service, wire, excuse, budget>>

Levels == {"processed", "confirmed", "finalized"}
Rank(level) ==
  CASE level = "unknown" -> 0
    [] level = "processed" -> 1
    [] level = "confirmed" -> 2
    [] level = "finalized" -> 3

\* Mutant of HasAtLeastCommitmentLevel: its arguments are swapped.
HasAtMostCommitmentLevel(level, minimumLevel) ==
  \/ minimumLevel = level
  \/ level = "processed" /\ minimumLevel \in {"confirmed", "finalized"}
  \/ level = "confirmed" /\ minimumLevel = "finalized"

\* #hasAtLeastCommitmentLevel
HasAtLeastCommitmentLevel(level, minimumLevel) ==
  \/ minimumLevel = level
  \/ minimumLevel = "processed" /\ level \in {"confirmed", "finalized"}
  \/ minimumLevel = "confirmed" /\ level = "finalized"

\* The signature has reached the level, as the RPC defines it.
Reached(r) == Rank(status[r]) >= Rank(commitment[r])

MonitorSteps == {"none", "save", "send", "set", "done", "failed"}
HandlerSteps == {"status", "fetch", "save", "unsubscribe"}

\* Why a signature that has reached its level may not be handled.
Deaf ==
  {"failed",     \* fetching, saving or sending was rejected, or found nothing
   "forgotten",  \* a connection opened, or a restart came, while it was in the
                 \* records or about to be, but not in #pendingSubscriptions
   "unrouted",   \* its notification came before its number was recorded
   "late",       \* it was first sent after it had reached its level
   "early"}      \* its status was fetched before it was subscribed to again
\* Why it may be handled twice, or remain in memory or in the records.
Repeated ==
  {"overlapped",   \* a notification and a recovery, or two recoveries
   "leftover",     \* it was not removed from #pendingSubscriptions
   "resurrected"}  \* #reSubscribe subscribed to it again

TypeOK ==
  /\ status \in [Requests -> Levels \cup {"unknown"}]
  /\ commitment \in [Requests -> Levels]
  /\ monitoring \in [Requests -> MonitorSteps]
  /\ pending \subseteq Requests
  /\ handling \in [Requests -> [HandlerSteps -> Nat]]
  /\ records \subseteq Requests
  /\ confirmed \subseteq records
  /\ resubscribing \subseteq Requests
  /\ link \in {"down", "open"}
  /\ opened \in BOOLEAN
  /\ live \subseteq Requests
  /\ notified \subseteq Requests
  /\ handled \in [Requests -> Nat]
  /\ excuse \in [Requests -> SUBSET (Deaf \cup Repeated)]
  /\ budget \in [connections : 0..MaxConnections, restarts : 0..MaxRestarts,
                 failures : 0..MaxFailures]

Init ==
  /\ status = [r \in Requests |-> "unknown"]
  /\ commitment \in [Requests -> Levels]
  /\ monitoring = [r \in Requests |-> "none"]
  /\ pending = {}
  /\ handling = [r \in Requests |-> [s \in HandlerSteps |-> 0]]
  /\ records = {}
  /\ confirmed = {}
  /\ resubscribing = {}
  /\ link = "down"
  /\ opened = FALSE
  /\ live = {}
  /\ notified = {}
  /\ handled = [r \in Requests |-> 0]
  /\ excuse = [r \in Requests |-> {}]
  /\ budget = [connections |-> MaxConnections, restarts |-> MaxRestarts,
               failures |-> MaxFailures]

Spend(what) ==
  /\ budget[what] > 0
  /\ budget' = [budget EXCEPT ![what] = @ - 1]
Excuse(rs, why) ==
  excuse' = [r \in Requests |-> excuse[r] \cup IF r \in rs THEN {why} ELSE {}]

Monitors(r, from, to) ==
  /\ monitoring[r] = from
  /\ monitoring' = [monitoring EXCEPT ![r] = to]

\* One of the calls at an await gets its answer, and goes on to another one.
Goes(r, from, to) ==
  /\ handling[r][from] > 0
  /\ handling' = [handling EXCEPT ![r][from] = @ - 1, ![r][to] = @ + 1]
Ends(r, from) ==
  /\ handling[r][from] > 0
  /\ handling' = [handling EXCEPT ![r][from] = @ - 1]

Busy(r) == \E s \in HandlerSteps : handling[r][s] > 0

------------------------------------------------------------------------------
(* The server.                                                             *)

\* The server has got the message of subscribe.  It notifies when the level is
\* reached, and may or may not do so when it has been reached before.
Accept(r) ==
  IF Reached(r)
    THEN /\ UNCHANGED live
         /\ notified' \in {notified, notified \cup {r}}
    ELSE /\ live' = live \cup {r}
         /\ UNCHANGED notified

\* The signature gets one level further.  A signature subscription ends with
\* its notification.
Advance(r) ==
  \E level \in Levels :
    /\ Rank(level) = Rank(status[r]) + 1
    /\ status' = [status EXCEPT ![r] = level]
    /\ IF level = commitment[r] /\ r \in live
         THEN live' = live \ {r} /\ notified' = notified \cup {r}
         ELSE UNCHANGED <<live, notified>>
    /\ UNCHANGED <<commitment, monitor, service, link, opened, excuse, budget>>

Connect ==
  /\ link = "down"
  /\ Spend("connections")
  /\ link' = "open"
  /\ opened' = TRUE
  /\ UNCHANGED <<chain, monitor, service, live, notified, excuse>>

Lost ==
  /\ link' = "down"
  /\ opened' = FALSE
  /\ live' = {}
  /\ notified' = {}

Drop ==
  /\ link = "open"
  /\ budget["connections"] > 0
  /\ Lost
  /\ UNCHANGED <<chain, monitor, service, excuse, budget>>

------------------------------------------------------------------------------
(* monitor.                                                                *)

\* monitor, up to the await of subscribe's first look-up.
Monitor(r) ==
  /\ Monitors(r, "none", "save")
  /\ UNCHANGED <<chain, pending, handling, handled, service, wire, excuse, budget>>

\* subscribe: the pending record is saved.
Save(r) ==
  /\ Monitors(r, "save", "send")
  /\ records' = records \cup {r}
  /\ confirmed' = confirmed \ {r}
  /\ UNCHANGED <<chain, pending, handling, handled, resubscribing, wire, excuse, budget>>

\* subscribe: the message is sent, if there is a connection.
Send(r) ==
  /\ Monitors(r, "send", "set")
  /\ IF link = "open" THEN Accept(r) ELSE UNCHANGED <<live, notified>>
  /\ Excuse(IF link = "open" /\ Reached(r) THEN {r} ELSE {}, "late")
  /\ UNCHANGED <<chain, pending, handling, handled, service, link, opened, budget>>

\* subscribe: the host rejects the message, and monitor throws.
SendFails(r) ==
  /\ link = "open"
  /\ Monitors(r, "send", "failed")
  /\ Spend("failures")
  /\ UNCHANGED <<chain, pending, handling, handled, service, wire, excuse>>

\* monitor: subscribe has returned.
Set(r) ==
  /\ Monitors(r, "set", "done")
  /\ pending' = pending \cup {r}
  /\ Excuse(IF handled[r] > 0 \/ Busy(r) THEN {r} ELSE {}, "leftover")
  /\ UNCHANGED <<chain, handling, handled, service, wire, budget>>

------------------------------------------------------------------------------
(* Notifications, and what the subscription service does with them.        *)

\* #handleSubscriptionConfirmation: the server's number is saved, if there is a
\* record that waits for it.
Confirm(r) ==
  /\ link = "open"
  /\ r \in (live \cup notified) \cap (records \ confirmed)
  /\ confirmed' = confirmed \cup {r}
  /\ UNCHANGED <<chain, monitor, records, resubscribing, wire, excuse, budget>>

\* #routeNotification finds the record, and #handleSignatureNotification starts.
Receive(r) ==
  /\ r \in notified
  /\ notified' = notified \ {r}
  /\ IF r \in confirmed
       THEN /\ handling' = [handling EXCEPT ![r]["fetch"] = @ + 1]
            /\ Excuse(IF Busy(r) THEN {r} ELSE {}, "overlapped")
       ELSE /\ Excuse({r}, "unrouted")
            /\ UNCHANGED handling
  /\ UNCHANGED <<chain, monitoring, pending, handled, service, link, opened, live, budget>>

\* #handleSignatureNotification: the account and the transaction are fetched.
Fetch(r) ==
  /\ Goes(r, "fetch", "save")
  /\ UNCHANGED <<chain, monitoring, pending, handled, service, wire, excuse, budget>>

\* #handleSignatureNotification: it is saved and tracked.
SaveTransaction(r) ==
  /\ Goes(r, "save", "unsubscribe")
  /\ handled' = [handled EXCEPT ![r] = @ + 1]
  /\ UNCHANGED <<chain, monitoring, pending, service, wire, excuse, budget>>

\* #handleSignatureNotification: an answer is an error, or nothing is found.
HandlingFails(r) ==
  /\ \E step \in {"fetch", "save"} : Goes(r, step, "unsubscribe")
  /\ Spend("failures")
  /\ Excuse({r}, "failed")
  /\ UNCHANGED <<chain, monitoring, pending, handled, service, wire>>

\* The server is told to end the subscription, if its number is known.
Leaves(r) == live' = IF r \in confirmed THEN live \ {r} ELSE live

\* Mutant of Unsubscribe: only the subscription is ended.
UnsubscribeOnly(r) ==
  /\ Ends(r, "unsubscribe")
  /\ records' = records \ {r}
  /\ confirmed' = confirmed \ {r}
  /\ Leaves(r)
  /\ UNCHANGED <<chain, monitoring, pending, handled, resubscribing, link, opened,
                 notified, excuse, budget>>

\* Mutant of Unsubscribe: only the map is cleaned up.
ForgetOnly(r) ==
  /\ Ends(r, "unsubscribe")
  /\ pending' = pending \ {r}
  /\ UNCHANGED <<chain, monitoring, handled, service, wire, excuse, budget>>

\* #handleSignatureNotification, finally: unsubscribe, which may find no
\* record, and the entry of the map is deleted.
Unsubscribe(r) ==
  /\ Ends(r, "unsubscribe")
  /\ pending' = pending \ {r}
  /\ records' = records \ {r}
  /\ confirmed' = confirmed \ {r}
  /\ Leaves(r)
  /\ UNCHANGED <<chain, monitoring, handled, resubscribing, link, opened, notified,
                 excuse, budget>>

\* The same, when the host rejects the message: the entry and the record stay.
UnsubscribeFails(r) ==
  /\ link = "open"
  /\ r \in confirmed
  /\ Ends(r, "unsubscribe")
  /\ Spend("failures")
  /\ Excuse({r}, "leftover")
  /\ UNCHANGED <<chain, monitoring, pending, handled, service, wire>>

------------------------------------------------------------------------------
(* Recovery.                                                               *)

\* Mutant of HandleOpened: no status is fetched.
HandleOpenedWithoutRecovery ==
  /\ opened
  /\ opened' = FALSE
  /\ resubscribing' = resubscribing \cup records
  /\ records' = {}
  /\ confirmed' = {}
  /\ UNCHANGED <<chain, monitoring, pending, handling, handled, link, live, notified,
                 excuse, budget>>

\* The recovery handlers are called: #reSubscribe deletes the records, and
\* #handleConnectionRecovery starts to recover all entries of the map.
HandleOpened ==
  /\ opened
  /\ opened' = FALSE
  /\ resubscribing' = resubscribing \cup records
  /\ records' = {}
  /\ confirmed' = {}
  /\ handling' = [r \in Requests |->
                    IF r \in pending THEN [handling[r] EXCEPT !["status"] = @ + 1]
                    ELSE handling[r]]
  /\ excuse' = [r \in Requests |-> excuse[r]
       \cup (IF r \in pending /\ Busy(r) THEN {"overlapped"} ELSE {})
       \cup (IF r \in records \ pending THEN {"forgotten"} ELSE {})]
  /\ UNCHANGED <<chain, monitoring, pending, handled, link, live, notified, budget>>

\* #reSubscribe: a request is subscribed to again, if it can be sent.
Resubscribe(r) ==
  /\ r \in resubscribing
  /\ resubscribing' = resubscribing \ {r}
  /\ records' = records \cup {r}
  /\ confirmed' = confirmed \ {r}
  /\ IF link = "open" THEN Accept(r) ELSE UNCHANGED <<live, notified>>
  /\ Excuse(IF handled[r] > 0 \/ Busy(r) THEN {r} ELSE {}, "resurrected")
  /\ UNCHANGED <<chain, monitor, link, opened, budget>>

\* The same, when the host rejects the message: #reSubscribe ignores it.
ResubscribeFails(r) ==
  /\ link = "open"
  /\ r \in resubscribing
  /\ Spend("failures")
  /\ resubscribing' = resubscribing \ {r}
  /\ records' = records \cup {r}
  /\ confirmed' = confirmed \ {r}
  /\ excuse' = [excuse EXCEPT ![r] = @ \cup {"failed"}
         \cup (IF handled[r] > 0 \/ Busy(r) THEN {"resurrected"} ELSE {})]
  /\ UNCHANGED <<chain, monitor, wire>>

\* #recoverSignatureSubscription: the status is fetched; the request is handled
\* when the level is reached.
FetchStatus(r) ==
  /\ IF status[r] # "unknown" /\ HasAtLeastCommitmentLevel(status[r], commitment[r])
       THEN Goes(r, "status", "fetch") /\ UNCHANGED excuse
       ELSE /\ Ends(r, "status")
            /\ Excuse({r} \cap resubscribing, "early")
  /\ UNCHANGED <<chain, monitoring, pending, handled, service, wire, budget>>

\* #recoverSignatureSubscription: the request is rejected, and that is all.
FetchStatusFails(r) ==
  /\ Ends(r, "status")
  /\ Spend("failures")
  /\ Excuse({r}, "failed")
  /\ UNCHANGED <<chain, monitoring, pending, handled, service, wire>>

\* The host stops the snap and starts it again.
Restart ==
  /\ Spend("restarts")
  /\ Lost
  /\ monitoring' = [r \in Requests |->
       IF monitoring[r] \in {"save", "send", "set"} THEN "failed" ELSE monitoring[r]]
  /\ pending' = {}
  /\ handling' = [r \in Requests |-> [s \in HandlerSteps |-> 0]]
  /\ resubscribing' = {}
  /\ Excuse({r \in Requests : Busy(r) \/ r \in resubscribing}, "forgotten")
  /\ UNCHANGED <<chain, handled, records, confirmed>>

Next ==
  \/ \E r \in Requests :
       \/ Advance(r)
       \/ Monitor(r)
       \/ Save(r)
       \/ Send(r)
       \/ SendFails(r)
       \/ Set(r)
       \/ Confirm(r)
       \/ Receive(r)
       \/ Fetch(r)
       \/ SaveTransaction(r)
       \/ HandlingFails(r)
       \/ Unsubscribe(r)
       \/ UnsubscribeFails(r)
       \/ Resubscribe(r)
       \/ ResubscribeFails(r)
       \/ FetchStatus(r)
       \/ FetchStatusFails(r)
  \/ HandleOpened
  \/ Connect
  \/ Drop
  \/ Restart

Spec == Init /\ [][Next]_vars

------------------------------------------------------------------------------
(* Properties.                                                             *)

\* No call is in flight, and no event.
Quiet ==
  /\ \A r \in Requests : ~Busy(r) /\ monitoring[r] \notin {"save", "send", "set"}
  /\ resubscribing = {}
  /\ notified = {}
  /\ ~opened

\* A transaction is saved and tracked only when its signature has reached the
\* level it was monitored for (#hasAtLeastCommitmentLevel,
\* #handleSignatureNotification).
NeverEarly == \A r \in Requests : handled[r] > 0 => Reached(r)

\* Once all is quiet on an open connection, every monitored signature that has
\* reached its level was handled, or a known reason says why not.  Notifications
\* lost with a connection, and levels reached while there was none, are no
\* reason (#handleConnectionRecovery).
HandledUnlessExcused ==
  Quiet /\ link = "open" =>
    \A r \in Requests :
      monitoring[r] = "done" /\ Reached(r) =>
        handled[r] > 0 \/ excuse[r] \cap Deaf # {}

\* A transaction is tracked twice only for a known reason
\* (#handleSignatureNotification, #recoverSignatureSubscription).
HandledOnceUnlessExcused ==
  \A r \in Requests : handled[r] > 1 => excuse[r] \cap Repeated # {}

\* A request that was handled is neither in the map nor in the records, which
\* the next connection would recover and subscribe to again (the finally of
\* #handleSignatureNotification).
CleanedUpUnlessExcused ==
  Quiet =>
    \A r \in Requests :
      handled[r] > 0 /\ r \in pending \cup records =>
        excuse[r] \cap (Repeated \cup {"forgotten"}) # {}
==============================================================================
