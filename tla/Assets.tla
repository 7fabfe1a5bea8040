------------------------------- MODULE Assets -------------------------------
(***************************************************************************)
(* AssetsService, AssetsRepository and AccountsSynchronizer: the assets of *)
(* an account from the cluster to the state of the snap, and from there to *)
(* the extension.                                                          *)
(*                                                                         *)
(* A call of saveMany has five awaits: the list of saved assets, the two   *)
(* requests of State.update, and the two events for the extension.  It is  *)
(* called for a notification of KeyringAccountMonitor, with one asset, and *)
(* by synchronize, with the fetched assets that differ from the saved ones.*)
(* What the events say is computed from the list and not from the state    *)
(* that was replaced.                                                      *)
(***************************************************************************)
EXTENDS Naturals, Sequences, FiniteSets

CONSTANTS
  Assets,          \* of one account
  Native,          \* the native ones
  Calls,           \* calls in flight
  Absent,          \* an asset that is not there
  First,           \* bound: balances at first
  MaxAmount,       \* bound: balances
  MaxChanges,      \* bound: changes of balances
  MaxDisturbances  \* bound: lost connections, restarts, rejections

\* What is assumed of the constants, by the instance that gives them.
Assumptions ==
  /\ Native \subseteq Assets
  /\ First \subseteq 0..MaxAmount \cup {Absent}
  /\ MaxAmount \in Nat /\ MaxChanges \in Nat /\ MaxDisturbances \in Nat
  /\ Absent \notin Nat

VARIABLES
  real,       \* balances on the cluster; a token account may be absent
  saved,      \* assetEntities
  listed,     \* assets in the extension's list
  shown,      \* balances the extension shows
  link,       \* "down", "open", or "live" when it is subscribed
  due,        \* synchronize is to be called
  inbox,      \* notifications on their way
  cache,      \* the token balances fetched last, or {} when there are none
  phase,      \* the await at which a call stands
  batch,      \* the assets it saves
  old,        \* the list it compares with
  held,       \* the state it is going to write back
  overtaken,  \* history: assets of its batch of which another call has got a later balance
  unheard,    \* history: assets that changed without notification since they were fetched
  excuse,     \* history: why saved or shown balances may be wrong
  budget      \* what is left of the bounds

extension == <<listed, shown>>
wire == <<link, due, inbox>>
calls == <<phase, batch, old, held, overtaken>>
history == <<unheard, excuse>>
vars == <<real, saved, extension, wire, cache, calls, history, budget>>

Amounts == 0..MaxAmount
Balances == [Assets -> Amounts \cup {Absent}]
Nothing == [a \in Assets |-> Absent]
Phases == {"idle", "fetch", "compare", "list", "read", "write", "added", "balances"}

Unsaved ==
  {"undone",     \* an update wrote back the balance it had read before another's
   "overtaken",  \* a balance was saved after a later one
   "cached",     \* a balance was taken from the cache, and was not the latest
   "rejected"}   \* a call failed before it saved
Unannounced ==
  {"outdated",   \* the list was older than the state that was replaced
   "crossed",    \* an event was sent after another call had saved
   "dropped",    \* a call failed after it saved
   "emptied"}    \* a native balance fell to zero

TypeOK ==
  /\ real \in Balances
  /\ saved \in Balances
  /\ listed \subseteq Assets
  /\ shown \in [Assets -> Amounts]
  /\ link \in {"down", "open", "live"}
  /\ due \in BOOLEAN
  /\ inbox \in Seq(Assets \X Amounts)
  /\ cache \subseteq [Assets \ Native -> Amounts \cup {Absent}]
  /\ phase \in [Calls -> Phases]
  /\ batch \in [Calls -> Balances]
  /\ old \in [Calls -> Balances]
  /\ held \in [Calls -> Balances]
  /\ overtaken \in [Calls -> SUBSET Assets]
  /\ unheard \subseteq Assets
  /\ excuse \in [Assets -> SUBSET (Unsaved \cup Unannounced)]
  /\ budget \in [changes : 0..MaxChanges, disturbances : 0..MaxDisturbances]

Init ==
  /\ real \in {b \in [Assets -> First] : \A a \in Native : b[a] # Absent}
  /\ saved = Nothing
  /\ listed = Native
  /\ shown = [a \in Assets |-> 0]
  /\ link = "live"
  /\ due = TRUE
  /\ inbox = <<>>
  /\ cache = {}
  /\ phase = [c \in Calls |-> "idle"]
  /\ batch = [c \in Calls |-> Nothing]
  /\ old = [c \in Calls |-> Nothing]
  /\ held = [c \in Calls |-> Nothing]
  /\ overtaken = [c \in Calls |-> {}]
  /\ unheard = Assets
  /\ excuse = [a \in Assets |-> {}]
  /\ budget = [changes |-> MaxChanges, disturbances |-> MaxDisturbances]

Spend(what) ==
  /\ budget[what] > 0
  /\ budget' = [budget EXCEPT ![what] = @ - 1]

\* The assets of a batch, or of a saved state.
In(b) == {a \in Assets : b[a] # Absent}
\* Mutant of Over: an asset that is saved already is left as it is.
OverUnlessSaved(b, s) == [a \in Assets |-> IF s[a] = Absent THEN b[a] ELSE s[a]]

\* What is saved over what was.
Over(b, s) == [a \in Assets |-> IF b[a] # Absent THEN b[a] ELSE s[a]]
Only(b, as) == [a \in Assets |-> IF a \in as THEN b[a] ELSE Absent]

\* A call gets balances, while the other ones hold earlier ones.
Waiting(c) == phase[c] \in {"compare", "list", "read", "write"}
Overtake(as) ==
  overtaken' = [d \in Calls |-> overtaken[d] \cup IF Waiting(d) THEN as \cap In(batch[d]) ELSE {}]

\* The assets of which a call is to save the last balance that any call has got.
Latest(c) == IF Waiting(c) THEN In(batch[c]) \ overtaken[c] ELSE {}

Excusing(why) == [a \in Assets |-> excuse[a] \cup {w \in DOMAIN why : a \in why[w]}]

------------------------------------------------------------------------------
(* The cluster and the connection.                                         *)

Change(a) ==
  /\ Spend("changes")
  /\ \E amount \in Amounts \cup (IF a \in Native THEN {} ELSE {Absent}) :
       /\ amount # real[a]
       /\ real' = [real EXCEPT ![a] = amount]
       /\ IF link = "live" /\ amount # Absent
            THEN /\ inbox' = Append(inbox, <<a, amount>>)
                 /\ UNCHANGED unheard
            ELSE /\ unheard' = unheard \cup {a}
                 /\ UNCHANGED inbox
  /\ UNCHANGED <<saved, extension, link, due, cache, calls, excuse>>

\* The connection is lost, with the notifications on it.
Drop ==
  /\ link # "down"
  /\ Spend("disturbances")
  /\ link' = "down"
  /\ unheard' = unheard \cup {inbox[i][1] : i \in DOMAIN inbox}
  /\ inbox' = <<>>
  /\ UNCHANGED <<real, saved, extension, cache, due, calls, excuse>>

\* An `open` event: the recovery handlers are called.
Open ==
  /\ link = "down"
  /\ link' = "open"
  /\ due' = TRUE
  /\ UNCHANGED <<real, saved, extension, cache, inbox, calls, history, budget>>

\* The server has got the subscriptions.
Resubscribed ==
  /\ link = "open"
  /\ link' = "live"
  /\ UNCHANGED <<real, saved, extension, cache, due, inbox, calls, history, budget>>

------------------------------------------------------------------------------
(* Callers of saveMany.                                                    *)

\* #handleAccountNotification, #handleProgramNotification.
HandleNotification(c) ==
  /\ phase[c] = "idle"
  /\ inbox # <<>>
  /\ inbox' = Tail(inbox)
  /\ phase' = [phase EXCEPT ![c] = "list"]
  /\ batch' = [batch EXCEPT ![c] = [Nothing EXCEPT ![Head(inbox)[1]] = Head(inbox)[2]]]
  /\ Overtake({Head(inbox)[1]})
  /\ UNCHANGED <<real, saved, extension, cache, link, due, old, held, history, budget>>

\* synchronize is called.
Synchronize(c) ==
  /\ due
  /\ phase[c] = "idle"
  /\ due' = FALSE
  /\ phase' = [phase EXCEPT ![c] = "fetch"]
  /\ UNCHANGED <<real, saved, extension, cache, link, inbox, batch, old, held, overtaken, history, budget>>

\* The token accounts are cached for five seconds, with what they held.
Tokens(b) == [a \in Assets \ Native |-> b[a]]
Answers ==
  {real} \cup {[a \in Assets |-> IF a \in Native THEN real[a] ELSE t[a]] : t \in cache}

\* fetch: balances are fetched, the ones whose request is rejected left out.
Fetch(c) ==
  /\ phase[c] = "fetch"
  /\ \E answer \in Answers, failed \in SUBSET Assets :
       /\ IF failed = {} THEN UNCHANGED budget ELSE Spend("disturbances")
       /\ batch' = [batch EXCEPT ![c] = Only(answer, Assets \ failed)]
       /\ cache' = IF failed = {} THEN {Tokens(answer)} ELSE cache
       /\ LET notified == {inbox[i][1] : i \in DOMAIN inbox} IN
          unheard' = unheard \ (In(batch'[c]) \ notified)
       /\ Overtake(In(batch'[c]))
       /\ excuse' = Excusing([rejected |-> failed,
                              cached |-> {a \in Assets : answer[a] # real[a]}])
  /\ phase' = [phase EXCEPT ![c] = "compare"]
  /\ UNCHANGED <<real, saved, extension, wire, old, held>>

HasChanged(b, list) == {a \in In(b) : b[a] # list[a]}

\* synchronize goes on with what has changed.
Compare(c) ==
  /\ phase[c] = "compare"
  /\ batch' = [batch EXCEPT ![c] = Only(@, HasChanged(@, saved))]
  /\ phase' = [phase EXCEPT ![c] = "list"]
  /\ UNCHANGED <<real, saved, extension, cache, wire, old, held, overtaken, history, budget>>

------------------------------------------------------------------------------
(* saveMany.                                                               *)

\* getAll has answered.
ListSaved(c) ==
  /\ phase[c] = "list"
  /\ old' = [old EXCEPT ![c] = saved]
  /\ phase' = [phase EXCEPT ![c] = "read"]
  /\ UNCHANGED <<real, saved, extension, cache, wire, batch, held, overtaken, history, budget>>

\* The update of AssetsRepository.saveMany reads the state.
ReadState(c) ==
  /\ phase[c] = "read"
  /\ held' = [held EXCEPT ![c] = saved]
  /\ phase' = [phase EXCEPT ![c] = "write"]
  /\ UNCHANGED <<real, saved, extension, cache, wire, batch, old, overtaken, history, budget>>

\* Mutant of Added: only what is new.
AddedNew(c) == {a \in In(batch[c]) : batch[c][a] # 0 /\ old[c][a] = Absent}

\* What AccountAssetListUpdated adds and removes.
Added(c) == {a \in In(batch[c]) : batch[c][a] # 0 /\ old[c][a] \in {Absent, 0}}
Removed(c) == {a \in In(batch[c]) \ Native : batch[c][a] = 0}

\* What AccountBalancesUpdated says.
Updated(c) == {a \in HasChanged(batch[c], old[c]) : batch[c][a] # 0}

\* A call goes on to an event, or ends.
Goes(c, to) ==
  /\ phase' = [phase EXCEPT ![c] = to]
  /\ held' = [held EXCEPT ![c] = Nothing]
  /\ IF to = "idle"
       THEN /\ batch' = [batch EXCEPT ![c] = Nothing]
            /\ old' = [old EXCEPT ![c] = Nothing]
       ELSE UNCHANGED <<batch, old>>
AfterList(c) == IF Updated(c) # {} THEN "balances" ELSE "idle"
AfterWrite(c) == IF Added(c) \cup Removed(c) # {} THEN "added" ELSE AfterList(c)

\* The update writes the state back.
WriteState(c) ==
  LET written == In(batch[c]) IN
  /\ phase[c] = "write"
  /\ saved' = Over(batch[c], held[c])
  /\ Goes(c, AfterWrite(c))
  /\ overtaken' = [overtaken EXCEPT ![c] = {}]
  /\ excuse' = Excusing(
       [undone |-> {a \in Assets \ written : held[c][a] # saved[a]},
        overtaken |-> (overtaken[c] \cap written) \ UNION {Latest(d) : d \in Calls},
        outdated |-> {a \in written : old[c][a] # saved[a]},
        emptied |-> {a \in written \cap Native : batch[c][a] = 0 /\ saved[a] # 0}])
  /\ UNCHANGED <<real, extension, wire, cache, unheard, budget>>

\* AccountAssetListUpdated.
AnnounceList(c) ==
  /\ phase[c] = "added"
  /\ listed' = (listed \cup Added(c)) \ Removed(c)
  /\ Goes(c, AfterList(c))
  /\ excuse' = Excusing([crossed |-> {a \in Added(c) \cup Removed(c) : saved[a] # batch[c][a]}])
  /\ UNCHANGED <<real, saved, shown, wire, cache, overtaken, unheard, budget>>

\* AccountBalancesUpdated.
AnnounceBalances(c) ==
  /\ phase[c] = "balances"
  /\ shown' = [a \in Assets |-> IF a \in Updated(c) THEN batch[c][a] ELSE shown[a]]
  /\ excuse' = Excusing([crossed |-> {a \in Updated(c) : saved[a] # batch[c][a]}])
  /\ Goes(c, "idle")
  /\ UNCHANGED <<real, saved, listed, wire, cache, overtaken, unheard, budget>>

\* A request of a call is rejected, and the call throws.
Fail(c) ==
  /\ phase[c] # "idle"
  /\ Spend("disturbances")
  /\ Goes(c, "idle")
  /\ overtaken' = [overtaken EXCEPT ![c] = {}]
  /\ excuse' = IF phase[c] \in {"added", "balances"}
                 THEN Excusing([dropped |-> In(batch[c])])
                 ELSE Excusing([rejected |-> In(batch[c])])
  /\ UNCHANGED <<real, saved, extension, cache, wire, unheard>>

\* The host stops the snap and starts it again.
Restart ==
  /\ Spend("disturbances")
  /\ link' = "down"
  /\ due' = FALSE
  /\ unheard' = unheard \cup {inbox[i][1] : i \in DOMAIN inbox}
  /\ inbox' = <<>>
  /\ cache' = {}
  /\ phase' = [c \in Calls |-> "idle"]
  /\ batch' = [c \in Calls |-> Nothing]
  /\ old' = [c \in Calls |-> Nothing]
  /\ held' = [c \in Calls |-> Nothing]
  /\ overtaken' = [c \in Calls |-> {}]
  /\ excuse' = Excusing(
       [rejected |-> UNION {In(batch[c]) : c \in {d \in Calls : Waiting(d)}},
        dropped |-> UNION {In(batch[c]) : c \in {d \in Calls : phase[d] \in {"added", "balances"}}}])
  /\ UNCHANGED <<real, saved, extension>>

\* listAccountAssets and getAccountBalances: the extension asks.
Query ==
  /\ Spend("disturbances")
  /\ listed' = Native \cup {a \in In(saved) : saved[a] # 0}
  /\ shown' = [a \in Assets |-> IF a \in In(saved) THEN saved[a] ELSE 0]
  /\ excuse' = [a \in Assets |-> excuse[a] \ Unannounced]
  /\ UNCHANGED <<real, saved, wire, cache, calls, unheard>>

Next ==
  \/ \E a \in Assets : Change(a)
  \/ Drop
  \/ Open
  \/ Resubscribed
  \/ Restart
  \/ Query
  \/ \E c \in Calls :
       \/ HandleNotification(c)
       \/ Synchronize(c)
       \/ Fetch(c)
       \/ Compare(c)
       \/ ListSaved(c)
       \/ ReadState(c)
       \/ WriteState(c)
       \/ AnnounceList(c)
       \/ AnnounceBalances(c)
       \/ Fail(c)

Spec == Init /\ [][Next]_vars

------------------------------------------------------------------------------
(* Properties.                                                             *)

Quiet == ~due /\ inbox = <<>> /\ \A c \in Calls : phase[c] = "idle"

\* Once all is quiet, the saved balances are those of the cluster, or a known
\* reason says why not.  Calls that overlap, changes before a subscription is made
\* anew and lost notifications are no reason as such (saveMany, synchronize,
\* #handleAccountNotification, #handleProgramNotification).  A token account that
\* is closed is among the unheard changes for ever: fetch does not list it.
SavedUnlessExcused ==
  Quiet => \A a \in Assets :
    saved[a] = real[a] \/ a \in unheard \/ excuse[a] \cap Unsaved # {}

\* Once all is quiet, the extension lists and shows what is saved, or a known
\* reason says why not (the events of saveMany).
ShownUnlessExcused ==
  Quiet => \A a \in Assets :
    \/ excuse[a] \cap (Unannounced \cup {"undone"}) # {}
    \/ /\ a \in Native \/ (a \in listed) = (saved[a] \notin {Absent, 0})
       /\ a \in listed => shown[a] = (IF saved[a] = Absent THEN 0 ELSE saved[a])
==============================================================================
