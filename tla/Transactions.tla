---------------------------- MODULE Transactions ----------------------------
(***************************************************************************)
(* TransactionsService and TransactionsRepository: how transactions get    *)
(* from the cluster to the state of the snap and to the extension.         *)
(*                                                                         *)
(* There are two ways.  For a notification KeyringAccountMonitor fetches   *)
(* the last signature of the address and saves its transaction.  For a     *)
(* recovery synchronize fetches, for each asset, the signatures since the  *)
(* last saved transaction that mentions its mint, a page of them.  Each    *)
(* way decides what the other one finds: a transaction that is older than  *)
(* one that is saved is not looked for again.                              *)
(***************************************************************************)
EXTENDS Naturals, Sequences, FiniteSets, FiniteSetsExt, Functions

CONSTANTS
  Assets,          \* of all accounts; each has an address of its own
  Owner,           \* the account of an asset
  Mint,            \* its mint; accounts may share one
  Native,          \* native assets: no saved transaction mentions their address
  Shapes,          \* bound: the sets of assets that a transaction can touch
  Spam,            \* the shapes that isSpam recognises
  Calls,           \* calls in flight
  PageLimit,       \* signatures fetched per asset (5 in the code)
  FetchLimit,      \* transactions fetched per call (20 in the code)
  MaxTransactions, \* bound
  MaxDisturbances  \* bound: lost connections, restarts, rejections

\* What is assumed of the constants, by the instance that gives them.
Assumptions ==
  /\ Owner \in [Assets -> Range(Owner)]
  /\ Mint \in [Assets -> Range(Mint)]
  /\ Native \subseteq Assets
  /\ Shapes \subseteq SUBSET Assets
  /\ Spam \subseteq Shapes
  /\ PageLimit \in Nat \ {0} /\ FetchLimit \in Nat \ {0}
  /\ MaxTransactions \in Nat /\ MaxDisturbances \in Nat

VARIABLES
  ledger,    \* what each transaction touches, in the order of their times
  saved,     \* transactions by account
  told,      \* those that AccountTransactionsUpdated told the extension
  link,      \* "down", "open", or "live" when it is subscribed
  due,       \* synchronize is to be called
  inbox,     \* notifications on their way: an asset, and the transaction that changed it
  phase,     \* the await at which a call stands
  want,      \* what it is to fetch: assets with transactions
  batch,     \* what it saves: accounts with transactions
  held,      \* the transactions of the state that it is going to write back
  unheard,   \* history: assets with transactions that were neither notified nor listed
  excuse,    \* history: why a transaction may be missing, or untold
  budget     \* what is left of the bound

wire == <<link, due, inbox>>
calls == <<phase, want, batch, held>>
history == <<unheard, excuse>>
vars == <<ledger, saved, told, wire, calls, history, budget>>

Accounts == Range(Owner)
Ids == 1..MaxTransactions
Times == DOMAIN ledger
Phases == {"idle", "latest", "causing", "list", "signatures", "fetch", "read", "write", "tell"}

Missing ==
  {"superseded",  \* when the notification was handled, there was a later transaction
   "jumped",      \* one of the same mint, as late or later, was saved before synchronize asked
   "paged",       \* there were more than PageLimit later ones
   "limited",     \* there were FetchLimit later ones of all assets
   "rejected",    \* it could not be fetched, or the call failed
   "undone"}      \* an update wrote back what it had read before it was saved
Untold == {"dropped"}  \* the call failed after it had saved

TypeOK ==
  /\ ledger \in Seq(Shapes)
  /\ saved \in [Accounts -> SUBSET DOMAIN ledger]
  /\ told \in [Accounts -> SUBSET DOMAIN ledger]
  /\ link \in {"down", "open", "live"}
  /\ due \in BOOLEAN
  /\ inbox \subseteq Assets \X Times
  /\ phase \in [Calls -> Phases]
  /\ want \in [Calls -> SUBSET (Assets \X ({0} \cup DOMAIN ledger))]
  /\ batch \in [Calls -> SUBSET (Accounts \X Times)]
  /\ held \in [Calls -> [Accounts -> SUBSET DOMAIN ledger]]
  /\ unheard \subseteq Assets \X Times
  /\ excuse \subseteq Accounts \X Times \X (Missing \cup Untold)
  /\ budget \in 0..MaxDisturbances

None == [account \in Accounts |-> {}]

Init ==
  /\ ledger = <<>>
  /\ saved = None
  /\ told = None
  /\ link = "live"
  /\ due = FALSE
  /\ inbox = {}
  /\ phase = [c \in Calls |-> "idle"]
  /\ want = [c \in Calls |-> {}]
  /\ batch = [c \in Calls |-> {}]
  /\ held = [c \in Calls |-> None]
  /\ unheard = {}
  /\ excuse = {}
  /\ budget = MaxDisturbances

Disturb == budget > 0 /\ budget' = budget - 1

\* What getSignaturesForAddress knows of the address of an asset.
Signatures(a) == {t \in DOMAIN ledger : a \in ledger[t]}
Mentions(t, mint) == \E a \in ledger[t] \ Native : Mint[a] = mint

\* The latest of transactions, 0 if there is none.
Newest(ts) == IF ts = {} THEN 0 ELSE Max(ts)

\* The transactions of accounts, as pairs.
Pairs(state) == UNION {{account} \X state[account] : account \in Accounts}
\* The same of assets.
Owned(as) == {<<Owner[p[1]], p[2]>> : p \in as}
Excuse(pairs, why) == {<<p[1], p[2], why>> : p \in pairs}

------------------------------------------------------------------------------
(* The cluster and the connection.                                         *)

Happen ==
  /\ Len(ledger) < MaxTransactions
  /\ \E shape \in Shapes :
       LET news == shape \X {Len(ledger) + 1} IN
       /\ ledger' = Append(ledger, shape)
       /\ IF link = "live"
            THEN inbox' = inbox \cup news /\ UNCHANGED unheard
            ELSE unheard' = unheard \cup news /\ UNCHANGED inbox
  /\ UNCHANGED <<saved, told, link, due, calls, excuse, budget>>

Lost ==
  /\ link' = "down"
  /\ unheard' = unheard \cup inbox
  /\ inbox' = {}

Drop ==
  /\ link # "down"
  /\ Disturb
  /\ Lost
  /\ UNCHANGED <<ledger, saved, told, due, calls, excuse>>

\* An `open` event: the recovery handlers are called.
Open ==
  /\ link = "down"
  /\ link' = "open"
  /\ due' = TRUE
  /\ UNCHANGED <<ledger, saved, told, inbox, calls, history, budget>>

\* The server has got the subscriptions.
Resubscribed ==
  /\ link = "open"
  /\ link' = "live"
  /\ UNCHANGED <<ledger, saved, told, due, inbox, calls, history, budget>>

------------------------------------------------------------------------------
(* #saveCausingTransaction.                                                *)

Goes(c, from, to) ==
  /\ phase[c] = from
  /\ phase' = [phase EXCEPT ![c] = to]

HandleNotification(c) ==
  \E news \in inbox :
    /\ Goes(c, "idle", "latest")
    /\ inbox' = inbox \ {news}
    /\ want' = [want EXCEPT ![c] = {news}]
    /\ UNCHANGED <<ledger, saved, told, link, due, batch, held, history, budget>>

\* fetchLatestSignatures, of which one is asked for.
LatestSignature(c) ==
  /\ Goes(c, "latest", "causing")
  /\ want' = [want EXCEPT ![c] = {<<p[1], Newest(Signatures(p[1]))>> : p \in @}]
  /\ excuse' = excuse \cup Excuse(Owned(want[c] \ want'[c]), "superseded")
  /\ UNCHANGED <<ledger, saved, told, wire, batch, held, unheard, budget>>

\* fetchBySignature, whatever the transaction is.
FetchBySignature(c) ==
  /\ Goes(c, "causing", "read")
  /\ batch' = [batch EXCEPT ![c] = Owned(want[c])]
  /\ UNCHANGED <<ledger, saved, told, wire, want, held, history, budget>>

------------------------------------------------------------------------------
(* synchronize, and fetchAssetsTransactions.                               *)

\* synchronize is called, and finds assets that have changed.
Synchronize(c) ==
  /\ due
  /\ due' = FALSE
  /\ Goes(c, "idle", "list")
  /\ \E changed \in SUBSET Assets : want' = [want EXCEPT ![c] = changed \X {0}]
  /\ UNCHANGED <<ledger, saved, told, link, inbox, batch, held, history, budget>>

\* Mutant of LatestTransaction: whatever the asset.
LatestOfAll(a) == Newest(UNION Range(saved))

\* findLatestTransactionForAsset: among those of all accounts, 0 if there is none.
LatestTransaction(a) ==
  IF a \in Native THEN 0 ELSE Newest({t \in UNION Range(saved) : Mentions(t, Mint[a])})

\* The saved transactions are read.
ListSaved(c) ==
  /\ Goes(c, "list", "signatures")
  /\ want' = [want EXCEPT ![c] = {<<p[1], LatestTransaction(p[1])>> : p \in @}]
  /\ UNCHANGED <<ledger, saved, told, wire, batch, held, history, budget>>

\* What was ever saved: it still is, or an update undid it.
EverSaved == (UNION Range(saved)) \cup {e[2] : e \in {x \in excuse : x[3] = "undone"}}
\* A transaction of the same mint, as late or later, was saved.
Jumped(p) ==
  /\ p[1] \notin Native
  /\ \E t \in EverSaved : t >= p[2] /\ Mentions(t, Mint[p[1]])

\* The latest n of pairs of assets and transactions.
Latest(pairs, n) ==
  {top \in SUBSET pairs :
     /\ Cardinality(top) = IF Cardinality(pairs) < n THEN Cardinality(pairs) ELSE n
     /\ \A p \in top, q \in pairs \ top : p[2] >= q[2]}

\* fetchSignaturesForAsset for each asset, and the latest of all.
FetchSignatures(c) ==
  LET later == {p \in Assets \X Times :
                  p[2] \in Signatures(p[1]) /\ \E q \in want[c] : p[1] = q[1] /\ p[2] > q[2]}
      listed == {p \in later : Cardinality({q \in later : q[1] = p[1] /\ q[2] > p[2]}) < PageLimit}
      asked == {p \in unheard : \E q \in want[c] : p[1] = q[1]}
  IN
  /\ Goes(c, "signatures", "fetch")
  /\ \E top \in Latest(listed, FetchLimit) :
       /\ want' = [want EXCEPT ![c] = top]
       /\ excuse' = excuse \cup Excuse(Owned({p \in asked \ later : Jumped(p)}), "jumped")
                           \cup Excuse(Owned(later \ listed), "paged")
                           \cup Excuse(Owned(listed \ top), "limited")
  /\ unheard' = unheard \ asked
  /\ UNCHANGED <<ledger, saved, told, wire, batch, held, budget>>

\* The transactions are fetched, the ones whose request is rejected left out, and
\* so is spam.
Fetch(c) ==
  /\ Goes(c, "fetch", "read")
  /\ \E failed \in SUBSET want[c] :
       /\ IF failed = {} THEN UNCHANGED budget ELSE Disturb
       /\ batch' = [batch EXCEPT ![c] =
                      Owned({p \in want[c] \ failed : ledger[p[2]] \notin Spam})]
       /\ excuse' = excuse \cup Excuse(Owned(failed), "rejected")
  /\ UNCHANGED <<ledger, saved, told, wire, want, held, unheard>>

------------------------------------------------------------------------------
(* saveMany.                                                               *)

\* The update of TransactionsRepository.saveMany reads the state.
Read(c) ==
  /\ Goes(c, "read", "write")
  /\ held' = [held EXCEPT ![c] = saved]
  /\ UNCHANGED <<ledger, saved, told, wire, want, batch, history, budget>>

\* Transactions are added to those of their accounts, one of each signature.
Merged(state, pairs) ==
  [account \in Accounts |->
     state[account] \cup {p[2] : p \in {q \in pairs : q[1] = account}}]

\* It writes it back.
Write(c) ==
  /\ Goes(c, "write", "tell")
  /\ saved' = Merged(held[c], batch[c])
  /\ excuse' = excuse \cup Excuse(Pairs(saved) \ (Pairs(held[c]) \cup batch[c]), "undone")
  /\ want' = [want EXCEPT ![c] = {}]
  /\ held' = [held EXCEPT ![c] = None]
  /\ UNCHANGED <<ledger, told, wire, batch, unheard, budget>>

Ends(c) ==
  /\ phase' = [phase EXCEPT ![c] = "idle"]
  /\ want' = [want EXCEPT ![c] = {}]
  /\ batch' = [batch EXCEPT ![c] = {}]
  /\ held' = [held EXCEPT ![c] = None]

\* Mutant of Tell: not what was saved.
TellWanted(c) ==
  /\ phase[c] = "tell"
  /\ told' = Merged(told, Owned(want[c]))
  /\ Ends(c)
  /\ UNCHANGED <<ledger, saved, wire, history, budget>>

\* AccountTransactionsUpdated.
Tell(c) ==
  /\ phase[c] = "tell"
  /\ told' = Merged(told, batch[c])
  /\ Ends(c)
  /\ UNCHANGED <<ledger, saved, wire, history, budget>>

\* What is lost with a call.
Losses(c) ==
  IF phase[c] = "tell" THEN Excuse(batch[c], "dropped")
  ELSE Excuse(batch[c] \cup Owned({p \in want[c] : p[2] # 0}), "rejected")

\* A request of a call is rejected, and the call throws.
Fail(c) ==
  /\ phase[c] # "idle"
  /\ Disturb
  /\ Ends(c)
  /\ excuse' = excuse \cup Losses(c)
  /\ UNCHANGED <<ledger, saved, told, wire, unheard>>

\* The host stops the snap and starts it again.
Restart ==
  /\ Disturb
  /\ Lost
  /\ due' = FALSE
  /\ phase' = [c \in Calls |-> "idle"]
  /\ want' = [c \in Calls |-> {}]
  /\ batch' = [c \in Calls |-> {}]
  /\ held' = [c \in Calls |-> None]
  /\ excuse' = excuse \cup UNION {Losses(c) : c \in Calls}
  /\ UNCHANGED <<ledger, saved, told>>

Next ==
  \/ Happen
  \/ Drop
  \/ Open
  \/ Resubscribed
  \/ Restart
  \/ \E c \in Calls :
       \/ HandleNotification(c)
       \/ LatestSignature(c)
       \/ FetchBySignature(c)
       \/ Synchronize(c)
       \/ ListSaved(c)
       \/ FetchSignatures(c)
       \/ Fetch(c)
       \/ Read(c)
       \/ Write(c)
       \/ Tell(c)
       \/ Fail(c)

Spec == Init /\ [][Next]_vars

------------------------------------------------------------------------------
(* Properties.                                                             *)

Quiet == ~due /\ inbox = {} /\ \A c \in Calls : phase[c] = "idle"

\* The transactions of an account, spam aside.
Real == {p \in Accounts \X Times :
           ledger[p[2]] \notin Spam /\ \E a \in ledger[p[2]] : Owner[a] = p[1]}

\* Once all is quiet, every transaction of an account is saved for it, or a known
\* reason says why not (#saveCausingTransaction, fetchAssetsTransactions, saveMany).
SavedUnlessExcused ==
  Quiet => \A p \in Real :
    \/ p \in Pairs(saved)
    \/ p \in Owned(unheard)
    \/ \E why \in Missing : <<p[1], p[2], why>> \in excuse

\* Once all is quiet, the extension has been told what is saved, or the call that
\* saved it failed; and what it has been told is saved, or an update undid it.
ToldUnlessExcused ==
  Quiet =>
    /\ \A p \in Pairs(saved) \ Pairs(told) : <<p[1], p[2], "dropped">> \in excuse
    /\ \A p \in Pairs(told) \ Pairs(saved) : <<p[1], p[2], "undone">> \in excuse
==============================================================================
