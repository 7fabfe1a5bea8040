---------------------------- MODULE AccountData -----------------------------
(***************************************************************************)
(* What the snap keeps of an account on its own, one topic at a time:      *)
(* that it is monitored (KeyringAccountMonitor), its balances (Assets) and *)
(* its transactions (Transactions). Their updates of the state overlap as  *)
(* SnapState says, on paths of their own, so a behaviour stays with its    *)
(* topic, and the states of the topics add up instead of multiplying. What *)
(* two of them call by the same name, like the calls in flight or the      *)
(* link, is one variable here; a variable of another topic stays empty.    *)
(***************************************************************************)
EXTENDS Naturals

CONSTANTS
  Calls, MaxDisturbances,
  \* KeyringAccountMonitor
  Topics, NativeTopics, MaxStarts,
  \* Assets
  Holdings, NativeHoldings, Absent, First, MaxAmount, MaxChanges,
  \* Transactions
  Assets, Owner, Mint, NativeAssets, Shapes, Spam, PageLimit, FetchLimit, MaxTransactions

VARIABLES
  topic,  \* what this behaviour is about
  account, erasing, monitored, records, resubscribing, by, doomed, step, opened, unsynced,
  real, saved, listed, shown, cache, old, overtaken,
  ledger, told, want,
  link, due, inbox, phase, batch, held, unheard, excuse, budget

monitorOnly ==
  <<account, erasing, monitored, records, resubscribing, by, doomed, step, opened, unsynced>>
assetsOnly == <<real, listed, shown, cache, old, overtaken>>
transactionsOnly == <<ledger, told, want>>
notMonitor == <<saved, link, due, inbox, batch, held, unheard>>
vars ==
  <<topic, monitorOnly, assetsOnly, transactionsOnly, notMonitor, phase, excuse, budget>>

Monitor == INSTANCE KeyringAccountMonitor WITH Native <- NativeTopics
Balances == INSTANCE Assets WITH Assets <- Holdings, Native <- NativeHoldings
History == INSTANCE Transactions WITH Native <- NativeAssets

ASSUME DataAssumption == Monitor!Assumptions /\ Balances!Assumptions /\ History!Assumptions

-----------------------------------------------------------------------------
NoMonitor ==
  /\ account = <<>> /\ erasing = <<>> /\ monitored = <<>> /\ records = <<>>
  /\ resubscribing = <<>> /\ by = <<>> /\ doomed = <<>> /\ step = <<>>
  /\ opened = <<>> /\ unsynced = <<>>
NoAssets ==
  real = <<>> /\ listed = <<>> /\ shown = <<>> /\ cache = <<>> /\ old = <<>> /\ overtaken = <<>>
NoTransactions == ledger = <<>> /\ told = <<>> /\ want = <<>>
OnlyMonitor ==
  /\ saved = <<>> /\ link = <<>> /\ due = <<>> /\ inbox = <<>> /\ batch = <<>>
  /\ held = <<>> /\ unheard = <<>>

Init ==
  \/ topic = "monitor" /\ Monitor!Init /\ NoAssets /\ NoTransactions /\ OnlyMonitor
  \/ topic = "assets" /\ Balances!Init /\ NoMonitor /\ NoTransactions
  \/ topic = "transactions" /\ History!Init /\ NoMonitor /\ NoAssets

MonitorStep ==
  /\ topic = "monitor" /\ Monitor!Next
  /\ UNCHANGED <<topic, assetsOnly, transactionsOnly, notMonitor>>
AssetsStep ==
  topic = "assets" /\ Balances!Next /\ UNCHANGED <<topic, monitorOnly, transactionsOnly>>
TransactionsStep ==
  topic = "transactions" /\ History!Next /\ UNCHANGED <<topic, monitorOnly, assetsOnly>>

Next == MonitorStep \/ AssetsStep \/ TransactionsStep

Spec == Init /\ [][Next]_vars

-----------------------------------------------------------------------------
(* Their properties, stated where their excuses are. *)

\* An account the snap lists is monitored on all its topics, unless KeyringAccountMonitor
\* lists an excuse (monitorKeyringAccount).
MonitoredUnlessExcused == topic = "monitor" => Monitor!MonitoredUnlessExcused

\* Nothing is left of the monitoring of an account that is gone, with the same exceptions
\* (stopMonitorKeyringAccount, deleteAccount).
GoneUnlessExcused == topic = "monitor" => Monitor!GoneUnlessExcused

\* A connection that opens makes every monitored account be synchronized, with the same
\* exceptions (#handleConnectionRecovery).
SynchronizedUnlessExcused == topic = "monitor" => Monitor!SynchronizedUnlessExcused

\* When nothing is under way, the balances saved are the real ones, unless Assets lists an
\* excuse (AssetsService, AssetsRepository).
SavedUnlessExcused == topic = "assets" => Balances!SavedUnlessExcused

\* What the extension shows is what was saved, with the same exceptions (saveMany).
ShownUnlessExcused == topic = "assets" => Balances!ShownUnlessExcused

\* A transaction of the account is saved, unless Transactions lists an excuse
\* (TransactionsService, AccountsSynchronizer).
HistoryUnlessExcused == topic = "transactions" => History!SavedUnlessExcused

\* What is saved was told to the extension, with the same exceptions (saveMany).
ToldUnlessExcused == topic = "transactions" => History!ToldUnlessExcused
=============================================================================
