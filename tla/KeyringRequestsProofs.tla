------------------------- MODULE KeyringRequestsProofs -------------------------
(***************************************************************************)
(* Proofs about KeyringRequests, for any number of requests, preferences   *)
(* and disturbances: its types; that answers are true; that a dialog shows *)
(* its own transaction and the verdict of its latest scan; and that an     *)
(* open dialog goes on being refreshed, but for the reasons that the       *)
(* specification lists.                                                    *)
(*                                                                         *)
(* AnswerInv says for each await of a handler what the user has answered   *)
(* and what is signed and sent by then; the dialog cannot be confirmed     *)
(* while render is at work, because every context of it is still fetching. *)
(* ListInv says of all copies of the context of an open dialog what        *)
(* ShownUnlessExcused says of the one on the screen; RefreshInv says that  *)
(* a dialog marked as fetching has a refresh that will mark it as fetched. *)
(***************************************************************************)
EXTENDS KeyringRequests, TLAPS

\* Awaits of a handler: before the dialog, while render is at work, and once the dialog has
\* a name.
Early == {"idle", "building", "loading", "adding", "extracting", "creating"}
Rendering == {"pricing", "scanning"}
Named == {"scheduling", "waiting", "approving", "rejecting", "signing", "sending",
          "monitoring", "answered"}

\* A refresh is scheduled by the render of its request, for a name.
NameInv ==
  /\ \A r \in Requests : loop[r] # "none" \/ at[r] = "scheduling" => nameToId # None
  /\ \A r \in Requests :
       at[r] \in Early \cup Rendering \cup {"naming", "scheduling"} => loop[r] = "none"

\* Types, by what the steps change together.
RequestTypes ==
  /\ kind \in [Requests -> Kinds \cup {None}]
  /\ prefs \in [Requests -> Preferences \cup {{}}]
  /\ at \in [Requests -> Steps]
  /\ answer \in [Requests -> {"none", "ok", "rejected", "failed"}]
  /\ instructions \in Requests \cup {None}
  /\ active \in BOOLEAN
ScreenTypes ==
  /\ dialog \in [Requests -> {"none", "open", "yes", "no"}]
  /\ ui \in [Requests -> Contexts]
  /\ toggles \subseteq Requests \X Contexts
  /\ held \in [Requests -> Contexts]
LoopTypes ==
  /\ nameToId \in Requests \cup {None}
  /\ loop \in [Requests -> LoopSteps]
  /\ target \in [Requests -> Requests \cup {None}]
  /\ \A r \in Requests : target[r] = None <=> loop[r] \in {"none", "scheduled"}
EffectTypes ==
  /\ signed \subseteq Requests
  /\ sent \subseteq Requests
  /\ latest \in [Requests -> BOOLEAN]
  /\ excuse \in [Requests -> SUBSET Reasons]
  /\ budget \in 0..MaxDisturbances

TInv == RequestTypes /\ ScreenTypes /\ LoopTypes /\ EffectTypes /\ NameInv

\* The user's answer and the effects, by the await of the handler.
AnswerInv(r) ==
  /\ at[r] \in Early => dialog[r] = "none"
  /\ kind[r] = "direct" =>
       dialog[r] = "none" /\ at[r] \in {"loading", "signing", "sending", "monitoring", "answered"}
  /\ at[r] \in {"approving", "signing", "sending", "monitoring"} =>
       kind[r] = "direct" \/ dialog[r] = "yes"
  /\ at[r] = "rejecting" => dialog[r] = "no"
  /\ answer[r] = "none" <=> at[r] # "answered"
  /\ at[r] = "idle" <=> kind[r] = None
  /\ r \in signed => at[r] \in {"sending", "monitoring", "answered"}
  /\ at[r] \in {"sending", "monitoring"} => r \in signed
  /\ at[r] = "monitoring" /\ kind[r] \in Sending => r \in sent
  /\ r \in sent => r \in signed /\ at[r] \in {"monitoring", "answered"}
  /\ answer[r] = "failed" => excuse[r] \cap {"failed", "closed", "unmonitored", "lost"} # {}
  /\ "closed" \in excuse[r] => at[r] = "answered" /\ dialog[r] \notin {"open", "yes"}
  /\ excuse[r] \cap {"unmonitored", "lost"} # {} =>
       at[r] = "answered" /\ (kind[r] = "direct" \/ dialog[r] = "yes")

\* They are the types.
LEMMA TypesInGroups == TInv /\ (\A r \in Requests : AnswerInv(r)) => TypeOK
BY DEF AnswerInv, TInv, TypeOK, RequestTypes, ScreenTypes, LoopTypes, EffectTypes

\* Nothing but render knows of a dialog before it has a name, and what render shows cannot
\* be confirmed.
RenderInv(r) ==
  /\ nameToId = r \/ (\E l \in Requests : target[l] = r) => at[r] \in Named
  /\ at[r] \in Rendering /\ dialog[r] = "open" => ui[r].fetching
  /\ at[r] \in Rendering => dialog[r] # "yes"
  /\ \A t \in toggles : t[1] = r => dialog[r] = "open" /\ (at[r] \in Rendering => t[2].fetching)

\* What AnswersTrueUnlessExcused says of a request.
AnswerTrue(r) ==
  /\ r \in signed => kind[r] = "direct" \/ dialog[r] = "yes"
  /\ answer[r] = "ok" => r \in signed /\ (kind[r] \in Sending => r \in sent)
  /\ answer[r] = "rejected" => dialog[r] = "no" /\ r \notin signed
  /\ answer[r] = "failed" /\ r \in sent => excuse[r] \cap {"unmonitored", "lost"} # {}
  /\ answer[r] = "failed" /\ dialog[r] = "yes" => excuse[r] \cap {"failed", "unmonitored", "lost"} # {}
  /\ answer[r] = "failed" /\ dialog[r] = "no" => excuse[r] \cap {"failed", "closed"} # {}

\* A context lists the instructions of its request, unless those of another got into it.
Lists(context, r) == context.instructions \in {r, None} \/ "shared" \in excuse[r]

\* Every copy of the context of an open dialog lists the instructions of its request.
ListInv(r) ==
  /\ kind[r] \in Transactions /\ at[r] = "creating" =>
       instructions \in {r, None} \/ "shared" \in excuse[r]
  /\ kind[r] \in Transactions /\ dialog[r] = "open" =>
       /\ at[r] \in Rendering => instructions \in {r, None} \/ "shared" \in excuse[r]
       /\ Lists(ui[r], r)
       /\ \A t \in toggles : t[1] = r => Lists(t[2], r)
       /\ \A l \in Requests :
            target[l] = r /\ loop[l] \in {"marking", "scanning", "rolling back"} => Lists(held[l], r)

\* The verdict on the screen is that of the latest scan, unless an older context was written.
VerdictInv(r) ==
  /\ latest[r] => at[r] \notin Early \cup Rendering
  /\ dialog[r] = "open" /\ latest[r] => ui[r].error \/ "overwritten" \in excuse[r]

\* What is marked as fetching has a refresh that will mark it as fetched; what waits has one
\* that will refresh it.
RefreshInv(r) ==
  dialog[r] = "open" =>
    /\ \A l \in Requests :
         target[l] = r /\ loop[l] \in {"restoring", "rolling back"} => "rejected" \in excuse[r]
    /\ kind[r] \in Transactions /\ ui[r].fetching =>
         \/ at[r] \in Rendering
         \/ \E l \in Requests : target[l] = r /\ loop[l] \in {"rereading", "scanning"}
         \/ excuse[r] \cap {"overwritten", "rejected", "failed"} # {}
    /\ at[r] = "waiting" /\ "simulation" \in prefs[r] /\ kind[r] \in Transactions =>
         (\E l \in Requests : Working(l, r)) \/ nameToId # r \/ excuse[r] \cap {"inactive", "rejected"} # {}

------------------------------------------------------------------------------
(* Steps that an invariant does not notice.                                *)

ListSame(q) ==
  kind'[q] \in Transactions /\ (dialog'[q] = "open" \/ at'[q] = "creating") =>
    /\ kind[q] = kind'[q] /\ dialog[q] = dialog'[q] /\ ui'[q] = ui[q]
    /\ instructions' = instructions
    /\ at'[q] \in {"creating", "pricing", "scanning"} => at[q] = at'[q]
    /\ toggles' \subseteq toggles
    /\ \A l \in Requests :
         target'[l] = q /\ loop'[l] \in {"marking", "scanning", "rolling back"} =>
           target[l] = q /\ loop[l] = loop'[l] /\ held[l] = held'[l]
    /\ excuse[q] \subseteq excuse'[q]

\* Such a step keeps what the copies of a context list.
LEMMA ListKept ==
  ASSUME NEW q \in Requests, ListInv(q), ListSame(q)
  PROVE  ListInv(q)'
BY DEF ListInv, ListSame, Lists, Rendering

VerdictSame(q) ==
  /\ latest'[q] => latest[q] /\ (at'[q] \in Early \cup Rendering => at[q] \in Early \cup Rendering)
  /\ dialog'[q] = "open" =>
       dialog[q] = "open" /\ ui'[q] = ui[q] /\ excuse[q] \subseteq excuse'[q]

\* Such a step keeps the verdict on the screen.
LEMMA VerdictKept ==
  ASSUME NEW q \in Requests, VerdictInv(q), VerdictSame(q)
  PROVE  VerdictInv(q)'
BY DEF VerdictInv, VerdictSame

\* About the dialog; that the refreshes do not change, or how they do, is another matter.
RefreshSame(q) ==
  dialog'[q] = "open" =>
    /\ dialog[q] = "open" /\ kind'[q] = kind[q] /\ prefs'[q] = prefs[q]
    /\ ui'[q].fetching => ui[q].fetching
    /\ at[q] \in Rendering => at'[q] \in Rendering \/ ~ui'[q].fetching \/ "failed" \in excuse'[q]
    /\ at'[q] = "waiting" => at[q] = "waiting"
    /\ excuse[q] \subseteq excuse'[q]

\* Such a step keeps the refreshes.
LEMMA RefreshKept ==
  ASSUME NEW q \in Requests, RefreshInv(q), RefreshSame(q), UNCHANGED <<nameToId, loop, target>>
  PROVE  RefreshInv(q)'
BY DEF RefreshInv, RefreshSame, Working

------------------------------------------------------------------------------
(* What the parts of a step do.                                            *)

\* A handler goes from one await to the next.
LEMMA GoesDoes ==
  ASSUME TInv, NEW r \in Requests, NEW from, NEW to, Goes(r, from, to)
  PROVE  /\ at[r] = from /\ kind' = kind /\ prefs' = prefs
         /\ \A q \in Requests : at'[q] = IF q = r THEN to ELSE at[q]
BY DEF TInv, RequestTypes, Goes

\* A handler answers.
LEMMA AnswersDoes ==
  ASSUME TInv, NEW r \in Requests, NEW result, Answers(r, result)
  PROVE  /\ kind' = kind /\ prefs' = prefs
         /\ \A q \in Requests : at'[q] = IF q = r THEN "answered" ELSE at[q]
BY DEF TInv, RequestTypes, Answers

\* One request is excused.
LEMMA ExcuseDoes ==
  ASSUME TInv, NEW r \in Requests, NEW why, Excuse(r, why)
  PROVE  \A q \in Requests : excuse'[q] = IF q = r THEN excuse[q] \cup {why} ELSE excuse[q]
BY DEF TInv, EffectTypes, Excuse

\* One dialog, an open one, gets a context.
LEMMA ShowsDoes ==
  ASSUME TInv, NEW r \in Requests, NEW context, Shows(r, context)
  PROVE  /\ dialog[r] = "open"
         /\ \A q \in Requests : ui'[q] = IF q = r THEN context ELSE ui[q]
BY DEF TInv, ScreenTypes, Shows

\* A refresh goes from one await to the next.
LEMMA TurnsDoes ==
  ASSUME TInv, NEW l \in Requests, NEW from, NEW to, Turns(l, from, to)
  PROVE  /\ loop[l] = from
         /\ \A k \in Requests : loop'[k] = IF k = l THEN to ELSE loop[k]
BY DEF TInv, LoopTypes, Turns

\* A refresh reads the context of its dialog.
LEMMA HoldsDoes ==
  ASSUME TInv, NEW l \in Requests, Holds(l)
  PROVE  \A k \in Requests : held'[k] = IF k = l THEN ui[target[l]] ELSE held[k]
BY DEF TInv, ScreenTypes, Holds

\* A refresh gives up its dialog.
LEMMA LeavesDoes ==
  ASSUME TInv, NEW l \in Requests, Leaves(l)
  PROVE  \A k \in Requests :
           /\ target'[k] = IF k = l THEN None ELSE target[k]
           /\ k # l => held'[k] = held[k]
BY DEF TInv, LoopTypes, Leaves, Drops

\* The step after a click on the details writes the context that came with it.
ShowsBack(t) ==
  /\ toggles' = toggles \ {t}
  /\ \A q \in Requests :
       /\ ui'[q] = IF q = t[1] /\ dialog[q] = "open" THEN t[2] ELSE ui[q]
       /\ excuse'[q] = IF q = t[1] /\ dialog[q] = "open" /\ ui[q] # t[2]
                         THEN excuse[q] \cup {"overwritten"} ELSE excuse[q]
  /\ UNCHANGED <<requests, instructions, dialog, refresh, active, effects, latest, budget>>

\* A click on the details is such a step.
LEMMA ShowAdvancedDoes ==
  ASSUME TInv, ShowAdvanced
  PROVE  \E t \in toggles : ShowsBack(t)
<1>1. PICK t \in toggles :
        /\ toggles' = toggles \ {t}
        /\ IF dialog[t[1]] = "open" /\ ui[t[1]] # t[2]
             THEN ui' = [ui EXCEPT ![t[1]] = t[2]] /\ Excuse(t[1], "overwritten")
             ELSE UNCHANGED <<ui, excuse>>
        /\ UNCHANGED <<requests, instructions, dialog, refresh, active, effects, latest, budget>>
  BY DEF ShowAdvanced
<1>2. t[1] \in Requests /\ ui \in [Requests -> Contexts]
  BY DEF TInv, ScreenTypes
<1>3. CASE dialog[t[1]] = "open" /\ ui[t[1]] # t[2]
  <2>1. \A q \in Requests : ui'[q] = IF q = t[1] THEN t[2] ELSE ui[q]
    BY <1>1, <1>2, <1>3
  <2>2. \A q \in Requests : excuse'[q] = IF q = t[1] THEN excuse[q] \cup {"overwritten"} ELSE excuse[q]
    BY <1>1, <1>2, <1>3, ExcuseDoes
  <2> QED BY <1>1, <1>3, <2>1, <2>2 DEF ShowsBack
<1>4. CASE ~(dialog[t[1]] = "open" /\ ui[t[1]] # t[2])
  BY <1>1, <1>4 DEF ShowsBack
<1> QED BY <1>3, <1>4

\* A refresh writes one context, and notices when it is not made from the one it replaces.
LEMMA WritesDoes ==
  ASSUME TInv, NEW l \in Requests, loop[l] \notin {"none", "scheduled"}, NEW context, Writes(l, context)
  PROVE  /\ target[l] \in Requests /\ dialog[target[l]] = "open"
         /\ \A q \in Requests : ui'[q] = IF q = target[l] THEN context ELSE ui[q]
         /\ \A q \in Requests : q # l => held'[q] = held[q]
         /\ \A q \in Requests : excuse[q] \subseteq excuse'[q] /\ excuse'[q] \subseteq excuse[q] \cup {"overwritten"}
         /\ ui[target[l]] # held[l] => "overwritten" \in excuse'[target[l]]
<1>1. target[l] \in Requests
  BY DEF TInv, LoopTypes
<1>2. /\ dialog[target[l]] = "open"
      /\ ui' = [ui EXCEPT ![target[l]] = context]
      /\ held' = [held EXCEPT ![l] = Unread]
      /\ excuse' = [excuse EXCEPT ![target[l]] =
           IF ui[target[l]] = held[l] THEN @ ELSE @ \cup {"overwritten"}]
  BY DEF Writes, Shows, Drops
<1>3. ui \in [Requests -> Contexts] /\ held \in [Requests -> Contexts] /\ excuse \in [Requests -> SUBSET Reasons]
  BY DEF TInv, ScreenTypes, EffectTypes
<1>4. \A q \in Requests : ui'[q] = IF q = target[l] THEN context ELSE ui[q]
  BY <1>2, <1>3
<1>5. \A q \in Requests : q # l => held'[q] = held[q]
  BY <1>2, <1>3
<1>6. \A q \in Requests : q # target[l] => excuse'[q] = excuse[q]
  BY <1>2, <1>3
<1>7. excuse'[target[l]] = IF ui[target[l]] = held[l] THEN excuse[target[l]]
                                                      ELSE excuse[target[l]] \cup {"overwritten"}
  BY <1>1, <1>2, <1>3
<1>8. \A q \in Requests : excuse[q] \subseteq excuse'[q] /\ excuse'[q] \subseteq excuse[q] \cup {"overwritten"}
  BY <1>6, <1>7
<1> QED BY <1>1, <1>2, <1>4, <1>5, <1>7, <1>8

\* A refresh that fails is given up, or goes on to restore the context; its dialog is excused.
LEMMA FailureDoes ==
  ASSUME TInv, NEW l \in Requests, RefreshFails(l)
  PROVE  /\ target[l] \in Requests
         /\ \A q \in Requests : excuse[q] \subseteq excuse'[q] /\ excuse'[q] \subseteq excuse[q] \cup {"rejected"}
         /\ dialog[target[l]] = "open" => "rejected" \in excuse'[target[l]]
         /\ \A q \in Requests : q # l => loop'[q] = loop[q] /\ target'[q] = target[q] /\ held'[q] = held[q]
         /\ \/ loop'[l] = "none" /\ target'[l] = None
            \/ loop'[l] = "restoring" /\ target'[l] = target[l]
         /\ budget' \in 0..MaxDisturbances
<1>1. target[l] \in Requests
  BY DEF RefreshFails, TInv, LoopTypes
<1>2. /\ loop \in [Requests -> LoopSteps] /\ target \in [Requests -> Requests \cup {None}]
      /\ held \in [Requests -> Contexts] /\ excuse \in [Requests -> SUBSET Reasons]
  BY DEF TInv, LoopTypes, ScreenTypes, EffectTypes
<1>3. IF dialog[target[l]] = "open" THEN excuse' = [excuse EXCEPT ![target[l]] = @ \cup {"rejected"}]
                                    ELSE excuse' = excuse
  BY DEF RefreshFails, Open, Excuse
<1>4. /\ held' = [held EXCEPT ![l] = Unread]
      /\ \/ loop' = [loop EXCEPT ![l] = "none"] /\ target' = [target EXCEPT ![l] = None]
         \/ loop' = [loop EXCEPT ![l] = "restoring"] /\ target' = target
  BY DEF RefreshFails, Leaves, Drops
<1>5. /\ \A q \in Requests : q # l => loop'[q] = loop[q] /\ target'[q] = target[q] /\ held'[q] = held[q]
      /\ \/ loop'[l] = "none" /\ target'[l] = None
         \/ loop'[l] = "restoring" /\ target'[l] = target[l]
  BY <1>2, <1>4
<1>6. budget' \in 0..MaxDisturbances
  <2>1. budget > 0 /\ budget' = budget - 1
    BY DEF RefreshFails, Disturb
  <2>2. budget \in 0..MaxDisturbances
    BY DEF TInv, EffectTypes
  <2> QED BY <2>1, <2>2, BoundsAssumption
<1>7. /\ \A q \in Requests : excuse[q] \subseteq excuse'[q] /\ excuse'[q] \subseteq excuse[q] \cup {"rejected"}
      /\ dialog[target[l]] = "open" => "rejected" \in excuse'[target[l]]
  <2>1. CASE dialog[target[l]] = "open"
    <3>1. excuse'[target[l]] = excuse[target[l]] \cup {"rejected"}
      BY <1>1, <1>2, <1>3, <2>1
    <3>2. \A q \in Requests : q # target[l] => excuse'[q] = excuse[q]
      BY <1>2, <1>3, <2>1
    <3> QED BY <3>1, <3>2
  <2>2. CASE dialog[target[l]] # "open"
    <3>1. excuse' = excuse
      BY <1>3, <2>2
    <3> QED BY <2>2, <3>1
  <2> QED BY <2>1, <2>2
<1> QED BY <1>1, <1>5, <1>6, <1>7

------------------------------------------------------------------------------
\* Every step keeps the types of requests.
LEMMA KeepsRequestTypes ==
  ASSUME RequestTypes, [Next]_vars
  PROVE  RequestTypes'
<1> USE RequestsAssumption, KindsAssumption, PreferencesAssumption, BoundsAssumption
<1>1. ASSUME NEW r \in Requests, Submit(r) PROVE RequestTypes'
  BY <1>1 DEF Submit, RequestTypes, Steps
<1>2. ASSUME NEW r \in Requests, Build(r) PROVE RequestTypes'
  BY <1>2 DEF Build, Goes, RequestTypes, Steps
<1>3. ASSUME NEW r \in Requests, Load(r) PROVE RequestTypes'
  BY <1>3 DEF Load, Goes, RequestTypes, Steps
<1>4. ASSUME NEW r \in Requests, AddTransaction(r) PROVE RequestTypes'
  BY <1>4 DEF AddTransaction, Goes, RequestTypes, Steps
<1>5. ASSUME NEW r \in Requests, Extract(r) PROVE RequestTypes'
  BY <1>5 DEF Extract, Goes, RequestTypes, Steps
<1>6. ASSUME NEW r \in Requests, CreateInterface(r) PROVE RequestTypes'
  BY <1>6 DEF CreateInterface, Goes, RequestTypes, Steps
<1>7. ASSUME NEW r \in Requests, RenderPrices(r) PROVE RequestTypes'
  BY <1>7 DEF RenderPrices, Goes, RequestTypes, Steps
<1>8. ASSUME NEW r \in Requests, RenderScan(r) PROVE RequestTypes'
  BY <1>8 DEF RenderScan, Goes, RequestTypes, Steps
<1>9. ASSUME NEW r \in Requests, RenderClosed(r) PROVE RequestTypes'
  BY <1>9 DEF RenderClosed, Answers, RequestTypes, Steps
<1>10. ASSUME NEW r \in Requests, SetName(r) PROVE RequestTypes'
  BY <1>10 DEF SetName, Goes, RequestTypes, Steps
<1>11. ASSUME NEW r \in Requests, ScheduleRefresh(r) PROVE RequestTypes'
  BY <1>11 DEF ScheduleRefresh, Goes, RequestTypes, Steps
<1>12. ASSUME NEW r \in Requests, Decide(r) PROVE RequestTypes'
  BY <1>12 DEF Decide, Goes, Answers, RequestTypes, Steps
<1>13. ASSUME NEW r \in Requests, Approve(r) PROVE RequestTypes'
  BY <1>13 DEF Approve, Goes, RequestTypes, Steps
<1>14. ASSUME NEW r \in Requests, Reject(r) PROVE RequestTypes'
  BY <1>14 DEF Reject, Answers, RequestTypes, Steps
<1>15. ASSUME NEW r \in Requests, Sign(r) PROVE RequestTypes'
  BY <1>15 DEF Sign, Goes, Answers, RequestTypes, Steps
<1>16. ASSUME NEW r \in Requests, Send(r) PROVE RequestTypes'
  BY <1>16 DEF Send, Goes, RequestTypes, Steps
<1>17. ASSUME NEW r \in Requests, Monitor(r) PROVE RequestTypes'
  BY <1>17 DEF Monitor, Answers, RequestTypes, Steps
<1>18. ASSUME NEW r \in Requests, Fail(r) PROVE RequestTypes'
  BY <1>18 DEF Fail, Answers, RequestTypes, Steps
<1>19. ASSUME NEW r \in Requests, NEW result \in {"yes", "no"}, Resolve(r, result) PROVE RequestTypes'
  BY <1>19 DEF Resolve, RequestTypes, vars, requests
<1>20. ASSUME NEW r \in Requests, ClickAdvanced(r) PROVE RequestTypes'
  BY <1>20 DEF ClickAdvanced, RequestTypes, requests
<1>21. ASSUME ShowAdvanced PROVE RequestTypes'
  BY <1>21 DEF ShowAdvanced, RequestTypes, requests
<1>22. ASSUME Switch PROVE RequestTypes'
  BY <1>22 DEF Switch, RequestTypes, requests
<1>23. ASSUME NEW l \in Requests, Due(l) PROVE RequestTypes'
  BY <1>23 DEF Due, RequestTypes, requests
<1>24. ASSUME NEW l \in Requests, Dropped(l) PROVE RequestTypes'
  BY <1>24 DEF Dropped, RequestTypes, requests
<1>25. ASSUME NEW l \in Requests, Ends(l) PROVE RequestTypes'
  BY <1>25 DEF Ends, RequestTypes, requests
<1>26. ASSUME NEW l \in Requests, ReadContext(l) PROVE RequestTypes'
  BY <1>26 DEF ReadContext, RequestTypes, requests
<1>27. ASSUME NEW l \in Requests, MarkFetching(l) PROVE RequestTypes'
  BY <1>27 DEF MarkFetching, RequestTypes, requests
<1>28. ASSUME NEW l \in Requests, RereadContext(l) PROVE RequestTypes'
  BY <1>28 DEF RereadContext, RequestTypes, requests
<1>29. ASSUME NEW l \in Requests, Rescan(l) PROVE RequestTypes'
  BY <1>29 DEF Rescan, RequestTypes, requests
<1>30. ASSUME NEW l \in Requests, Reschedule(l) PROVE RequestTypes'
  BY <1>30 DEF Reschedule, RequestTypes, requests
<1>31. ASSUME NEW l \in Requests, Restore(l) PROVE RequestTypes'
  BY <1>31 DEF Restore, RequestTypes, requests
<1>32. ASSUME NEW l \in Requests, RollBack(l) PROVE RequestTypes'
  BY <1>32 DEF RollBack, RequestTypes, requests
<1>33. ASSUME NEW l \in Requests, RefreshFails(l) PROVE RequestTypes'
  BY <1>33 DEF RefreshFails, RequestTypes, requests
<1>34. CASE UNCHANGED vars
  BY <1>34 DEF RequestTypes, Steps, AllKinds, vars, requests, screen, refresh, effects
<1> QED BY <1>1, <1>2, <1>3, <1>4, <1>5, <1>6, <1>7, <1>8, <1>9, <1>10, <1>11, <1>12, <1>13,
    <1>14, <1>15, <1>16, <1>17, <1>18, <1>19, <1>20, <1>21, <1>22, <1>23, <1>24, <1>25, <1>26,
    <1>27, <1>28, <1>29, <1>30, <1>31, <1>32, <1>33, <1>34 DEF Next, Handles, Refreshes

\* Every step keeps the types of the refreshes.
LEMMA KeepsLoopTypes ==
  ASSUME LoopTypes, NameInv, [Next]_vars
  PROVE  LoopTypes'
<1> USE RequestsAssumption, KindsAssumption, PreferencesAssumption, BoundsAssumption
<1>1. ASSUME NEW r \in Requests, Submit(r) PROVE LoopTypes'
  BY <1>1 DEF Submit, LoopTypes, refresh
<1>2. ASSUME NEW r \in Requests, Build(r) PROVE LoopTypes'
  BY <1>2 DEF Build, LoopTypes, refresh
<1>3. ASSUME NEW r \in Requests, Load(r) PROVE LoopTypes'
  BY <1>3 DEF Load, LoopTypes, refresh
<1>4. ASSUME NEW r \in Requests, AddTransaction(r) PROVE LoopTypes'
  BY <1>4 DEF AddTransaction, LoopTypes, refresh
<1>5. ASSUME NEW r \in Requests, Extract(r) PROVE LoopTypes'
  BY <1>5 DEF Extract, LoopTypes, refresh
<1>6. ASSUME NEW r \in Requests, CreateInterface(r) PROVE LoopTypes'
  BY <1>6 DEF CreateInterface, LoopTypes, refresh
<1>7. ASSUME NEW r \in Requests, RenderPrices(r) PROVE LoopTypes'
  BY <1>7 DEF RenderPrices, LoopTypes, refresh
<1>8. ASSUME NEW r \in Requests, RenderScan(r) PROVE LoopTypes'
  BY <1>8 DEF RenderScan, LoopTypes, refresh
<1>9. ASSUME NEW r \in Requests, RenderClosed(r) PROVE LoopTypes'
  BY <1>9 DEF RenderClosed, LoopTypes, refresh
<1>10. ASSUME NEW r \in Requests, SetName(r) PROVE LoopTypes'
  BY <1>10 DEF SetName, Goes, LoopTypes
<1>11. ASSUME NEW r \in Requests, ScheduleRefresh(r) PROVE LoopTypes'
  BY <1>11 DEF ScheduleRefresh, Goes, LoopTypes, NameInv, LoopSteps
<1>12. ASSUME NEW r \in Requests, Decide(r) PROVE LoopTypes'
  BY <1>12 DEF Decide, LoopTypes, refresh
<1>13. ASSUME NEW r \in Requests, Approve(r) PROVE LoopTypes'
  BY <1>13 DEF Approve, LoopTypes, refresh
<1>14. ASSUME NEW r \in Requests, Reject(r) PROVE LoopTypes'
  BY <1>14 DEF Reject, LoopTypes, refresh
<1>15. ASSUME NEW r \in Requests, Sign(r) PROVE LoopTypes'
  BY <1>15 DEF Sign, LoopTypes, refresh
<1>16. ASSUME NEW r \in Requests, Send(r) PROVE LoopTypes'
  BY <1>16 DEF Send, LoopTypes, refresh
<1>17. ASSUME NEW r \in Requests, Monitor(r) PROVE LoopTypes'
  BY <1>17 DEF Monitor, LoopTypes, refresh
<1>18. ASSUME NEW r \in Requests, Fail(r) PROVE LoopTypes'
  BY <1>18 DEF Fail, LoopTypes, refresh
<1>19. ASSUME NEW r \in Requests, NEW result \in {"yes", "no"}, Resolve(r, result) PROVE LoopTypes'
  BY <1>19 DEF Resolve, LoopTypes, vars, refresh
<1>20. ASSUME NEW r \in Requests, ClickAdvanced(r) PROVE LoopTypes'
  BY <1>20 DEF ClickAdvanced, LoopTypes, refresh
<1>21. ASSUME ShowAdvanced PROVE LoopTypes'
  BY <1>21 DEF ShowAdvanced, LoopTypes, NameInv, refresh
<1>22. ASSUME Switch PROVE LoopTypes'
  BY <1>22 DEF Switch, LoopTypes, refresh
<1>23. ASSUME NEW l \in Requests, Due(l) PROVE LoopTypes'
  BY <1>23 DEF Due, Turns, LoopTypes, NameInv, LoopSteps
<1>24. ASSUME NEW l \in Requests, Dropped(l) PROVE LoopTypes'
  BY <1>24 DEF Dropped, Turns, LoopTypes, LoopSteps
<1>25. ASSUME NEW l \in Requests, Ends(l) PROVE LoopTypes'
  BY <1>25 DEF Ends, Leaves, LoopTypes, LoopSteps
<1>26. ASSUME NEW l \in Requests, ReadContext(l) PROVE LoopTypes'
  BY <1>26 DEF ReadContext, Turns, LoopTypes, NameInv, LoopSteps
<1>27. ASSUME NEW l \in Requests, MarkFetching(l) PROVE LoopTypes'
  BY <1>27 DEF MarkFetching, Turns, LoopTypes, LoopSteps
<1>28. ASSUME NEW l \in Requests, RereadContext(l) PROVE LoopTypes'
  BY <1>28 DEF RereadContext, Turns, LoopTypes, LoopSteps
<1>29. ASSUME NEW l \in Requests, Rescan(l) PROVE LoopTypes'
  BY <1>29 DEF Rescan, Turns, LoopTypes, LoopSteps
<1>30. ASSUME NEW l \in Requests, Reschedule(l) PROVE LoopTypes'
  BY <1>30 DEF Reschedule, Turns, Leaves, LoopTypes, LoopSteps
<1>31. ASSUME NEW l \in Requests, Restore(l) PROVE LoopTypes'
  BY <1>31 DEF Restore, Turns, LoopTypes, LoopSteps
<1>32. ASSUME NEW l \in Requests, RollBack(l) PROVE LoopTypes'
  BY <1>32 DEF RollBack, Turns, LoopTypes, LoopSteps
<1>33. ASSUME NEW l \in Requests, RefreshFails(l) PROVE LoopTypes'
  BY <1>33 DEF RefreshFails, Disturb, Leaves, Drops, Unread, Open, LoopTypes, NameInv, LoopSteps,
      requests
<1>34. CASE UNCHANGED vars
  BY <1>34 DEF LoopTypes, NameInv, LoopSteps, vars, requests, screen, refresh, effects
<1> QED BY <1>1, <1>2, <1>3, <1>4, <1>5, <1>6, <1>7, <1>8, <1>9, <1>10, <1>11, <1>12, <1>13,
    <1>14, <1>15, <1>16, <1>17, <1>18, <1>19, <1>20, <1>21, <1>22, <1>23, <1>24, <1>25, <1>26,
    <1>27, <1>28, <1>29, <1>30, <1>31, <1>32, <1>33, <1>34 DEF Next, Handles, Refreshes

\* Every step that schedules a refresh has a name for it.
LEMMA KeepsNames ==
  ASSUME RequestTypes, LoopTypes, NameInv, [Next]_vars
  PROVE  NameInv'
<1> USE RequestsAssumption, KindsAssumption, PreferencesAssumption, BoundsAssumption
<1>1. ASSUME NEW r \in Requests, Submit(r) PROVE NameInv'
  BY <1>1 DEF Submit, NameInv, Early, refresh
<1>2. ASSUME NEW r \in Requests, Build(r) PROVE NameInv'
  BY <1>2 DEF Build, Goes, NameInv, Early, refresh
<1>3. ASSUME NEW r \in Requests, Load(r) PROVE NameInv'
  BY <1>3 DEF Load, Goes, NameInv, Early, refresh
<1>4. ASSUME NEW r \in Requests, AddTransaction(r) PROVE NameInv'
  BY <1>4 DEF AddTransaction, Goes, NameInv, Early, refresh
<1>5. ASSUME NEW r \in Requests, Extract(r) PROVE NameInv'
  BY <1>5 DEF Extract, Goes, NameInv, Early, refresh
<1>6. ASSUME NEW r \in Requests, CreateInterface(r) PROVE NameInv'
  BY <1>6 DEF CreateInterface, Goes, RequestTypes, NameInv, Early, refresh
<1>7. ASSUME NEW r \in Requests, RenderPrices(r) PROVE NameInv'
  BY <1>7 DEF RenderPrices, Goes, NameInv, Rendering, refresh
<1>8. ASSUME NEW r \in Requests, RenderScan(r) PROVE NameInv'
  BY <1>8 DEF RenderScan, Goes, NameInv, Rendering, refresh
<1>9. ASSUME NEW r \in Requests, RenderClosed(r) PROVE NameInv'
  BY <1>9 DEF RenderClosed, Answers, NameInv, Rendering, refresh
<1>10. ASSUME NEW r \in Requests, SetName(r) PROVE NameInv'
  BY <1>10 DEF SetName, Goes, NameInv
<1>11. ASSUME NEW r \in Requests, ScheduleRefresh(r) PROVE NameInv'
  BY <1>11 DEF ScheduleRefresh, Goes, RequestTypes, NameInv, Early, Rendering
<1>12. ASSUME NEW r \in Requests, Decide(r) PROVE NameInv'
  BY <1>12 DEF Decide, Goes, Answers, RequestTypes, NameInv, Early, Rendering, refresh
<1>13. ASSUME NEW r \in Requests, Approve(r) PROVE NameInv'
  BY <1>13 DEF Approve, Goes, NameInv, Early, Rendering, refresh
<1>14. ASSUME NEW r \in Requests, Reject(r) PROVE NameInv'
  BY <1>14 DEF Reject, Answers, NameInv, Early, Rendering, refresh
<1>15. ASSUME NEW r \in Requests, Sign(r) PROVE NameInv'
  BY <1>15 DEF Sign, Goes, Answers, RequestTypes, NameInv, Early, Rendering, refresh
<1>16. ASSUME NEW r \in Requests, Send(r) PROVE NameInv'
  BY <1>16 DEF Send, Goes, NameInv, Early, Rendering, refresh
<1>17. ASSUME NEW r \in Requests, Monitor(r) PROVE NameInv'
  BY <1>17 DEF Monitor, Answers, NameInv, Early, Rendering, refresh
<1>18. ASSUME NEW r \in Requests, Fail(r) PROVE NameInv'
  BY <1>18 DEF Fail, Answers, NameInv, Early, Rendering, refresh
<1>19. ASSUME NEW r \in Requests, NEW result \in {"yes", "no"}, Resolve(r, result) PROVE NameInv'
  BY <1>19 DEF Resolve, NameInv, vars, requests, refresh
<1>20. ASSUME NEW r \in Requests, ClickAdvanced(r) PROVE NameInv'
  BY <1>20 DEF ClickAdvanced, NameInv, requests, refresh
<1>21. ASSUME ShowAdvanced PROVE NameInv'
  BY <1>21 DEF ShowAdvanced, NameInv, requests, refresh
<1>22. ASSUME Switch PROVE NameInv'
  BY <1>22 DEF Switch, NameInv, requests, refresh
<1>23. ASSUME NEW l \in Requests, Due(l) PROVE NameInv'
  BY <1>23 DEF Due, Turns, NameInv, requests
<1>24. ASSUME NEW l \in Requests, Dropped(l) PROVE NameInv'
  BY <1>24 DEF Dropped, Turns, NameInv, requests
<1>25. ASSUME NEW l \in Requests, Ends(l) PROVE NameInv'
  BY <1>25 DEF Ends, NameInv, requests
<1>26. ASSUME NEW l \in Requests, ReadContext(l) PROVE NameInv'
  BY <1>26 DEF ReadContext, Turns, NameInv, requests
<1>27. ASSUME NEW l \in Requests, MarkFetching(l) PROVE NameInv'
  BY <1>27 DEF MarkFetching, Turns, NameInv, requests
<1>28. ASSUME NEW l \in Requests, RereadContext(l) PROVE NameInv'
  BY <1>28 DEF RereadContext, Turns, NameInv, requests
<1>29. ASSUME NEW l \in Requests, Rescan(l) PROVE NameInv'
  BY <1>29 DEF Rescan, Turns, NameInv, requests
<1>30. ASSUME NEW l \in Requests, Reschedule(l) PROVE NameInv'
  BY <1>30 DEF Reschedule, Turns, NameInv, requests
<1>31. ASSUME NEW l \in Requests, Restore(l) PROVE NameInv'
  BY <1>31 DEF Restore, Turns, LoopTypes, NameInv, requests
<1>32. ASSUME NEW l \in Requests, RollBack(l) PROVE NameInv'
  BY <1>32 DEF RollBack, Turns, LoopTypes, NameInv, requests
<1>33. ASSUME NEW l \in Requests, RefreshFails(l) PROVE NameInv'
  BY <1>33 DEF RefreshFails, Disturb, Leaves, Drops, Unread, Open, RequestTypes, LoopTypes,
      NameInv, Early, Rendering, vars, requests, screen, refresh, effects
<1>34. CASE UNCHANGED vars
  BY <1>34 DEF RequestTypes, LoopTypes, NameInv, Early, Rendering, vars, requests, screen,
      refresh, effects
<1> QED BY <1>1, <1>2, <1>3, <1>4, <1>5, <1>6, <1>7, <1>8, <1>9, <1>10, <1>11, <1>12, <1>13,
    <1>14, <1>15, <1>16, <1>17, <1>18, <1>19, <1>20, <1>21, <1>22, <1>23, <1>24, <1>25, <1>26,
    <1>27, <1>28, <1>29, <1>30, <1>31, <1>32, <1>33, <1>34 DEF Next, Handles, Refreshes

\* Every step keeps the types of the screen.
LEMMA KeepsScreenTypes ==
  ASSUME RequestTypes, LoopTypes, ScreenTypes, [Next]_vars
  PROVE  ScreenTypes'
<1> USE RequestsAssumption, KindsAssumption, PreferencesAssumption, BoundsAssumption
<1>1. ASSUME NEW r \in Requests, Submit(r) PROVE ScreenTypes'
  BY <1>1 DEF Submit, ScreenTypes, screen, refresh
<1>2. ASSUME NEW r \in Requests, Build(r) PROVE ScreenTypes'
  BY <1>2 DEF Build, ScreenTypes, screen, refresh
<1>3. ASSUME NEW r \in Requests, Load(r) PROVE ScreenTypes'
  BY <1>3 DEF Load, ScreenTypes, screen, refresh
<1>4. ASSUME NEW r \in Requests, AddTransaction(r) PROVE ScreenTypes'
  BY <1>4 DEF AddTransaction, ScreenTypes, screen, refresh
<1>5. ASSUME NEW r \in Requests, Extract(r) PROVE ScreenTypes'
  BY <1>5 DEF Extract, ScreenTypes, screen, refresh
<1>6. ASSUME NEW r \in Requests, CreateInterface(r) PROVE ScreenTypes'
  <2>1. Fetching \in Contexts /\ Unread \in Contexts
    BY DEF Fetching, Unread, Contexts, RequestTypes
  <2>2. PICK context \in Contexts : ui' = [ui EXCEPT ![r] = context]
    BY <1>6, <2>1 DEF CreateInterface
  <2> QED BY <1>6, <2>2 DEF CreateInterface, ScreenTypes, screen, refresh
<1>7. ASSUME NEW r \in Requests, RenderPrices(r) PROVE ScreenTypes'
  BY <1>7 DEF RenderPrices, Shows, Fetching, ScreenTypes, RequestTypes, Contexts, refresh
<1>8. ASSUME NEW r \in Requests, RenderScan(r) PROVE ScreenTypes'
  <2>1. \A error \in BOOLEAN : Scanned(error) \in Contexts
    BY DEF Scanned, Contexts, RequestTypes
  <2>2. PICK context \in Contexts : ui' = [ui EXCEPT ![r] = context]
    BY <1>8, <2>1 DEF RenderScan, Shows
  <2> QED BY <1>8, <2>2 DEF RenderScan, ScreenTypes, refresh
<1>9. ASSUME NEW r \in Requests, RenderClosed(r) PROVE ScreenTypes'
  BY <1>9 DEF RenderClosed, ScreenTypes, screen, refresh
<1>10. ASSUME NEW r \in Requests, SetName(r) PROVE ScreenTypes'
  BY <1>10 DEF SetName, ScreenTypes, screen
<1>11. ASSUME NEW r \in Requests, ScheduleRefresh(r) PROVE ScreenTypes'
  BY <1>11 DEF ScheduleRefresh, ScreenTypes, screen
<1>12. ASSUME NEW r \in Requests, Decide(r) PROVE ScreenTypes'
  BY <1>12 DEF Decide, ScreenTypes, screen, refresh
<1>13. ASSUME NEW r \in Requests, Approve(r) PROVE ScreenTypes'
  BY <1>13 DEF Approve, ScreenTypes, screen, refresh
<1>14. ASSUME NEW r \in Requests, Reject(r) PROVE ScreenTypes'
  BY <1>14 DEF Reject, ScreenTypes, screen, refresh
<1>15. ASSUME NEW r \in Requests, Sign(r) PROVE ScreenTypes'
  BY <1>15 DEF Sign, ScreenTypes, screen, refresh
<1>16. ASSUME NEW r \in Requests, Send(r) PROVE ScreenTypes'
  BY <1>16 DEF Send, ScreenTypes, screen, refresh
<1>17. ASSUME NEW r \in Requests, Monitor(r) PROVE ScreenTypes'
  BY <1>17 DEF Monitor, ScreenTypes, screen, refresh
<1>18. ASSUME NEW r \in Requests, Fail(r) PROVE ScreenTypes'
  BY <1>18 DEF Fail, ScreenTypes, screen, refresh
<1>19. ASSUME NEW r \in Requests, NEW result \in {"yes", "no"}, Resolve(r, result) PROVE ScreenTypes'
  BY <1>19 DEF Resolve, Unread, ScreenTypes, Contexts, vars, refresh
<1>20. ASSUME NEW r \in Requests, ClickAdvanced(r) PROVE ScreenTypes'
  BY <1>20 DEF ClickAdvanced, ScreenTypes, refresh
<1>21. ASSUME ShowAdvanced PROVE ScreenTypes'
  BY <1>21 DEF ShowAdvanced, ScreenTypes, refresh
<1>22. ASSUME Switch PROVE ScreenTypes'
  BY <1>22 DEF Switch, ScreenTypes, screen, refresh
<1>23. ASSUME NEW l \in Requests, Due(l) PROVE ScreenTypes'
  BY <1>23 DEF Due, ScreenTypes, screen
<1>24. ASSUME NEW l \in Requests, Dropped(l) PROVE ScreenTypes'
  BY <1>24 DEF Dropped, ScreenTypes, screen
<1>25. ASSUME NEW l \in Requests, Ends(l) PROVE ScreenTypes'
  BY <1>25 DEF Ends, Leaves, Drops, Unread, ScreenTypes, Contexts, screen
<1>26. ASSUME NEW l \in Requests, ReadContext(l) PROVE ScreenTypes'
  BY <1>26 DEF ReadContext, Turns, Holds, ScreenTypes, LoopTypes, screen
<1>27. ASSUME NEW l \in Requests, MarkFetching(l) PROVE ScreenTypes'
  <2>1. target[l] \in Requests /\ held[l] \in Contexts /\ Unread \in Contexts
    BY <1>27 DEF MarkFetching, Turns, LoopTypes, ScreenTypes, Unread, Contexts
  <2>2. PICK context \in Contexts :
          ui' = [ui EXCEPT ![target[l]] = context] /\ held' = [held EXCEPT ![l] = Unread]
    <3>1. \A error \in BOOLEAN :
            [held[l] EXCEPT !.fetching = TRUE] \in Contexts
      BY <2>1 DEF Contexts
    <3> QED BY <1>27, <3>1 DEF MarkFetching, Writes, Shows, Drops
  <2> QED BY <1>27, <2>1, <2>2 DEF MarkFetching, ScreenTypes
<1>28. ASSUME NEW l \in Requests, RereadContext(l) PROVE ScreenTypes'
  BY <1>28 DEF RereadContext, Turns, Holds, ScreenTypes, LoopTypes, screen
<1>29. ASSUME NEW l \in Requests, Rescan(l) PROVE ScreenTypes'
  <2>1. target[l] \in Requests /\ held[l] \in Contexts /\ Unread \in Contexts
    BY <1>29 DEF Rescan, Turns, LoopTypes, ScreenTypes, Unread, Contexts
  <2>2. PICK context \in Contexts :
          ui' = [ui EXCEPT ![target[l]] = context] /\ held' = [held EXCEPT ![l] = Unread]
    <3>1. \A error \in BOOLEAN :
            [held[l] EXCEPT !.fetching = FALSE, !.error = error] \in Contexts
      BY <2>1 DEF Contexts
    <3> QED BY <1>29, <3>1 DEF Rescan, Writes, Shows, Drops
  <2> QED BY <1>29, <2>1, <2>2 DEF Rescan, ScreenTypes
<1>30. ASSUME NEW l \in Requests, Reschedule(l) PROVE ScreenTypes'
  BY <1>30 DEF Reschedule, Leaves, Drops, Unread, ScreenTypes, Contexts, screen
<1>31. ASSUME NEW l \in Requests, Restore(l) PROVE ScreenTypes'
  <2>1. target[l] \in Requests /\ ui[target[l]] \in Contexts
    BY <1>31 DEF Restore, Turns, LoopTypes, ScreenTypes
  <2> QED BY <1>31, <2>1 DEF Restore, Holds, ScreenTypes, screen
<1>32. ASSUME NEW l \in Requests, RollBack(l) PROVE ScreenTypes'
  <2>1. target[l] \in Requests /\ held[l] \in Contexts /\ Unread \in Contexts
    BY <1>32 DEF RollBack, Turns, LoopTypes, ScreenTypes, Unread, Contexts
  <2>2. PICK context \in Contexts :
          ui' = [ui EXCEPT ![target[l]] = context] /\ held' = [held EXCEPT ![l] = Unread]
    <3>1. \A error \in BOOLEAN :
            [held[l] EXCEPT !.fetching = FALSE] \in Contexts
      BY <2>1 DEF Contexts
    <3> QED BY <1>32, <3>1 DEF RollBack, Writes, Shows, Drops
  <2> QED BY <1>32, <2>1, <2>2 DEF RollBack, ScreenTypes
<1>33. ASSUME NEW l \in Requests, RefreshFails(l) PROVE ScreenTypes'
  <2>1. Unread \in Contexts
    BY DEF Unread, Contexts
  <2>2. held' = [held EXCEPT ![l] = Unread]
    BY <1>33 DEF RefreshFails, Leaves, Drops
  <2> QED BY <1>33, <2>1, <2>2 DEF RefreshFails, ScreenTypes, screen
<1>34. CASE UNCHANGED vars
  BY <1>34 DEF ScreenTypes, LoopTypes, RequestTypes, Contexts, vars, requests, screen, refresh,
      effects
<1> QED BY <1>1, <1>2, <1>3, <1>4, <1>5, <1>6, <1>7, <1>8, <1>9, <1>10, <1>11, <1>12, <1>13,
    <1>14, <1>15, <1>16, <1>17, <1>18, <1>19, <1>20, <1>21, <1>22, <1>23, <1>24, <1>25, <1>26,
    <1>27, <1>28, <1>29, <1>30, <1>31, <1>32, <1>33, <1>34 DEF Next, Handles, Refreshes

\* Every step keeps the types of the effects.
LEMMA KeepsEffectTypes ==
  ASSUME LoopTypes, EffectTypes, [Next]_vars
  PROVE  EffectTypes'
<1> USE RequestsAssumption, KindsAssumption, PreferencesAssumption, BoundsAssumption
<1>1. ASSUME NEW r \in Requests, Submit(r) PROVE EffectTypes'
  BY <1>1 DEF Submit, EffectTypes, effects
<1>2. ASSUME NEW r \in Requests, Build(r) PROVE EffectTypes'
  BY <1>2 DEF Build, EffectTypes, effects
<1>3. ASSUME NEW r \in Requests, Load(r) PROVE EffectTypes'
  BY <1>3 DEF Load, EffectTypes, effects
<1>4. ASSUME NEW r \in Requests, AddTransaction(r) PROVE EffectTypes'
  BY <1>4 DEF AddTransaction, EffectTypes, effects
<1>5. ASSUME NEW r \in Requests, Extract(r) PROVE EffectTypes'
  BY <1>5 DEF Extract, EffectTypes, Reasons, effects
<1>6. ASSUME NEW r \in Requests, CreateInterface(r) PROVE EffectTypes'
  BY <1>6 DEF CreateInterface, EffectTypes, effects
<1>7. ASSUME NEW r \in Requests, RenderPrices(r) PROVE EffectTypes'
  BY <1>7 DEF RenderPrices, EffectTypes, effects
<1>8. ASSUME NEW r \in Requests, RenderScan(r) PROVE EffectTypes'
  BY <1>8 DEF RenderScan, Goes, Shows, Scanned, EffectTypes, LoopTypes, Reasons, refresh, effects
<1>9. ASSUME NEW r \in Requests, RenderClosed(r) PROVE EffectTypes'
  BY <1>9 DEF RenderClosed, EffectTypes, Reasons, effects, Excuse
<1>10. ASSUME NEW r \in Requests, SetName(r) PROVE EffectTypes'
  BY <1>10 DEF SetName, EffectTypes, effects
<1>11. ASSUME NEW r \in Requests, ScheduleRefresh(r) PROVE EffectTypes'
  BY <1>11 DEF ScheduleRefresh, EffectTypes, effects
<1>12. ASSUME NEW r \in Requests, Decide(r) PROVE EffectTypes'
  BY <1>12 DEF Decide, EffectTypes, effects
<1>13. ASSUME NEW r \in Requests, Approve(r) PROVE EffectTypes'
  BY <1>13 DEF Approve, EffectTypes, effects
<1>14. ASSUME NEW r \in Requests, Reject(r) PROVE EffectTypes'
  BY <1>14 DEF Reject, EffectTypes, effects
<1>15. ASSUME NEW r \in Requests, Sign(r) PROVE EffectTypes'
  BY <1>15 DEF Sign, Answers, EffectTypes
<1>16. ASSUME NEW r \in Requests, Send(r) PROVE EffectTypes'
  BY <1>16 DEF Send, Goes, EffectTypes
<1>17. ASSUME NEW r \in Requests, Monitor(r) PROVE EffectTypes'
  BY <1>17 DEF Monitor, EffectTypes, effects
<1>18. ASSUME NEW r \in Requests, Fail(r) PROVE EffectTypes'
  BY <1>18 DEF Fail, Disturb, EffectTypes, Reasons, Excuse
<1>19. ASSUME NEW r \in Requests, NEW result \in {"yes", "no"}, Resolve(r, result) PROVE EffectTypes'
  BY <1>19 DEF Resolve, EffectTypes, vars, effects
<1>20. ASSUME NEW r \in Requests, ClickAdvanced(r) PROVE EffectTypes'
  BY <1>20 DEF ClickAdvanced, Disturb, EffectTypes, effects
<1>21. ASSUME ShowAdvanced PROVE EffectTypes'
  BY <1>21 DEF ShowAdvanced, EffectTypes, Reasons, effects, Excuse
<1>22. ASSUME Switch PROVE EffectTypes'
  BY <1>22 DEF Switch, Disturb, EffectTypes, effects
<1>23. ASSUME NEW l \in Requests, Due(l) PROVE EffectTypes'
  BY <1>23 DEF Due, EffectTypes, effects
<1>24. ASSUME NEW l \in Requests, Dropped(l) PROVE EffectTypes'
  BY <1>24 DEF Dropped, EffectTypes, Reasons, effects
<1>25. ASSUME NEW l \in Requests, Ends(l) PROVE EffectTypes'
  BY <1>25 DEF Ends, EffectTypes, effects
<1>26. ASSUME NEW l \in Requests, ReadContext(l) PROVE EffectTypes'
  BY <1>26 DEF ReadContext, EffectTypes, effects
<1>27. ASSUME NEW l \in Requests, MarkFetching(l) PROVE EffectTypes'
  BY <1>27 DEF MarkFetching, Writes, EffectTypes, Reasons, effects
<1>28. ASSUME NEW l \in Requests, RereadContext(l) PROVE EffectTypes'
  BY <1>28 DEF RereadContext, EffectTypes, effects
<1>29. ASSUME NEW l \in Requests, Rescan(l) PROVE EffectTypes'
  BY <1>29 DEF Rescan, Turns, Writes, EffectTypes, LoopTypes, Reasons, effects
<1>30. ASSUME NEW l \in Requests, Reschedule(l) PROVE EffectTypes'
  BY <1>30 DEF Reschedule, EffectTypes, effects
<1>31. ASSUME NEW l \in Requests, Restore(l) PROVE EffectTypes'
  BY <1>31 DEF Restore, EffectTypes, effects
<1>32. ASSUME NEW l \in Requests, RollBack(l) PROVE EffectTypes'
  BY <1>32 DEF RollBack, Writes, EffectTypes, Reasons, effects
<1>33. ASSUME NEW l \in Requests, RefreshFails(l) PROVE EffectTypes'
  <2>1. target[l] \in Requests
    BY <1>33 DEF RefreshFails, LoopTypes
  <2>2. \/ excuse' = excuse
        \/ excuse' = [excuse EXCEPT ![target[l]] = excuse[target[l]] \cup {"rejected"}]
    BY <1>33 DEF RefreshFails, Excuse
  <2>3. excuse' \in [Requests -> SUBSET Reasons]
    BY <2>1, <2>2 DEF EffectTypes, Reasons
  <2>4. budget' \in 0..MaxDisturbances
    <3>1. budget > 0 /\ budget' = budget - 1
      BY <1>33 DEF RefreshFails, Disturb
    <3> QED BY <3>1 DEF EffectTypes
  <2>5. UNCHANGED <<effects, latest>>
    BY <1>33 DEF RefreshFails
  <2> QED BY <2>3, <2>4, <2>5 DEF EffectTypes, effects
<1>34. CASE UNCHANGED vars
  BY <1>34 DEF EffectTypes, LoopTypes, Reasons, vars, requests, screen, refresh, effects
<1> QED BY <1>1, <1>2, <1>3, <1>4, <1>5, <1>6, <1>7, <1>8, <1>9, <1>10, <1>11, <1>12, <1>13,
    <1>14, <1>15, <1>16, <1>17, <1>18, <1>19, <1>20, <1>21, <1>22, <1>23, <1>24, <1>25, <1>26,
    <1>27, <1>28, <1>29, <1>30, <1>31, <1>32, <1>33, <1>34 DEF Next, Handles, Refreshes

\* Every step keeps what the answers and the effects say of the await.
LEMMA KeepsAnswers ==
  ASSUME TInv, \A r \in Requests : AnswerInv(r) /\ RenderInv(r), [Next]_vars
  PROVE  (\A r \in Requests : AnswerInv(r))'
<1> SUFFICES ASSUME NEW q \in Requests PROVE AnswerInv(q)'
  OBVIOUS
<1> USE RequestsAssumption, KindsAssumption, PreferencesAssumption, BoundsAssumption
<1>1. ASSUME NEW r \in Requests, Submit(r) PROVE AnswerInv(q)'
  BY <1>1 DEF Submit, TInv, RequestTypes, AnswerInv, Early, screen, effects
<1>2. ASSUME NEW r \in Requests, Build(r) PROVE AnswerInv(q)'
  BY <1>2 DEF Build, Goes, AnswerInv, Early, screen, effects
<1>3. ASSUME NEW r \in Requests, Load(r) PROVE AnswerInv(q)'
  BY <1>3 DEF Load, Goes, AnswerInv, Early, screen, effects
<1>4. ASSUME NEW r \in Requests, AddTransaction(r) PROVE AnswerInv(q)'
  BY <1>4 DEF AddTransaction, Goes, AnswerInv, Early, screen, effects
<1>5. ASSUME NEW r \in Requests, Extract(r) PROVE AnswerInv(q)'
  BY <1>5 DEF Extract, Goes, AnswerInv, Early, screen, effects
<1>6. ASSUME NEW r \in Requests, CreateInterface(r) PROVE AnswerInv(q)'
  BY <1>6 DEF CreateInterface, Goes, TInv, RequestTypes, AnswerInv, Early, effects
<1>7. ASSUME NEW r \in Requests, RenderPrices(r) PROVE AnswerInv(q)'
  BY <1>7 DEF RenderPrices, Goes, AnswerInv, Early, effects
<1>8. ASSUME NEW r \in Requests, RenderScan(r) PROVE AnswerInv(q)'
  BY <1>8 DEF RenderScan, Goes, AnswerInv, Early, effects
<1>9. ASSUME NEW r \in Requests, RenderClosed(r) PROVE AnswerInv(q)'
  BY <1>9 DEF RenderClosed, Answers, TInv, RequestTypes, EffectTypes, AnswerInv, RenderInv, Early,
      Rendering, screen, effects, Excuse
<1>10. ASSUME NEW r \in Requests, SetName(r) PROVE AnswerInv(q)'
  BY <1>10 DEF SetName, Goes, AnswerInv, Early, screen, effects
<1>11. ASSUME NEW r \in Requests, ScheduleRefresh(r) PROVE AnswerInv(q)'
  BY <1>11 DEF ScheduleRefresh, Goes, AnswerInv, Early, screen, effects
<1>12. ASSUME NEW r \in Requests, Decide(r) PROVE AnswerInv(q)'
  BY <1>12 DEF Decide, Goes, Answers, TInv, RequestTypes, AnswerInv, Early, screen, effects
<1>13. ASSUME NEW r \in Requests, Approve(r) PROVE AnswerInv(q)'
  BY <1>13 DEF Approve, Goes, AnswerInv, Early, screen, effects
<1>14. ASSUME NEW r \in Requests, Reject(r) PROVE AnswerInv(q)'
  BY <1>14 DEF Reject, Answers, TInv, RequestTypes, AnswerInv, Early, screen, effects
<1>15. ASSUME NEW r \in Requests, Sign(r) PROVE AnswerInv(q)'
  BY <1>15 DEF Sign, Goes, Answers, TInv, RequestTypes, AnswerInv, Early, Sending, screen
<1>16. ASSUME NEW r \in Requests, Send(r) PROVE AnswerInv(q)'
  BY <1>16 DEF Send, Goes, TInv, RequestTypes, AnswerInv, Early, screen
<1>17. ASSUME NEW r \in Requests, Monitor(r) PROVE AnswerInv(q)'
  BY <1>17 DEF Monitor, Answers, TInv, RequestTypes, AnswerInv, Early, screen, effects
<1>18. ASSUME NEW r \in Requests, Fail(r) PROVE AnswerInv(q)'
  <2>1. CASE q # r
    BY <1>18, <2>1 DEF Fail, Answers, AnswerInv, EffectTypes, screen, TInv, Excuse
  <2>2. CASE q = r /\ at[r] = "sending"
    BY <1>18, <2>2 DEF Fail, Answers, AnswerInv, RequestTypes, EffectTypes, screen, TInv, Early,
        Excuse
  <2>3. CASE q = r /\ at[r] = "monitoring"
    BY <1>18, <2>3 DEF Fail, Answers, AnswerInv, RequestTypes, EffectTypes, screen, TInv, Early,
        Excuse
  <2>4. CASE q = r /\ at[r] \notin {"sending", "monitoring"}
    BY <1>18, <2>4 DEF Fail, Answers, AnswerInv, RequestTypes, EffectTypes, screen, TInv, Early,
        Excuse
  <2> QED BY <2>1, <2>2, <2>3, <2>4
<1>19. ASSUME NEW r \in Requests, NEW result \in {"yes", "no"}, Resolve(r, result) PROVE AnswerInv(q)'
  BY <1>19 DEF Resolve, OfTheScreen, AnswerInv, vars, requests, effects
<1>20. ASSUME NEW r \in Requests, ClickAdvanced(r) PROVE AnswerInv(q)'
  BY <1>20 DEF ClickAdvanced, AnswerInv, requests, effects
<1>21. ASSUME ShowAdvanced PROVE AnswerInv(q)'
  BY <1>21 DEF ShowAdvanced, TInv, EffectTypes, AnswerInv, requests, effects, Excuse
<1>22. ASSUME Switch PROVE AnswerInv(q)'
  BY <1>22 DEF Switch, AnswerInv, requests, screen, effects
<1>23. ASSUME NEW l \in Requests, Due(l) PROVE AnswerInv(q)'
  BY <1>23 DEF Due, AnswerInv, requests, screen, effects
<1>24. ASSUME NEW l \in Requests, Dropped(l) PROVE AnswerInv(q)'
  BY <1>24 DEF Dropped, AnswerInv, requests, screen, effects
<1>25. ASSUME NEW l \in Requests, Ends(l) PROVE AnswerInv(q)'
  BY <1>25 DEF Ends, AnswerInv, requests, screen, effects
<1>26. ASSUME NEW l \in Requests, ReadContext(l) PROVE AnswerInv(q)'
  BY <1>26 DEF ReadContext, AnswerInv, requests, screen, effects
<1>27. ASSUME NEW l \in Requests, MarkFetching(l) PROVE AnswerInv(q)'
  BY <1>27 DEF MarkFetching, Writes, AnswerInv, requests, effects
<1>28. ASSUME NEW l \in Requests, RereadContext(l) PROVE AnswerInv(q)'
  BY <1>28 DEF RereadContext, AnswerInv, requests, screen, effects
<1>29. ASSUME NEW l \in Requests, Rescan(l) PROVE AnswerInv(q)'
  BY <1>29 DEF Rescan, Writes, AnswerInv, requests, effects
<1>30. ASSUME NEW l \in Requests, Reschedule(l) PROVE AnswerInv(q)'
  BY <1>30 DEF Reschedule, AnswerInv, requests, screen, effects
<1>31. ASSUME NEW l \in Requests, Restore(l) PROVE AnswerInv(q)'
  BY <1>31 DEF Restore, AnswerInv, requests, screen, effects
<1>32. ASSUME NEW l \in Requests, RollBack(l) PROVE AnswerInv(q)'
  <2>1. excuse[q] \subseteq excuse'[q] /\ excuse'[q] \subseteq excuse[q] \cup {"overwritten"}
    <3>1. Writes(l, [held[l] EXCEPT !.fetching = FALSE]) /\ loop[l] \notin {"none", "scheduled"}
      BY <1>32 DEF RollBack, Turns
    <3> QED BY <3>1, WritesDoes
  <2>2. \A why : why # "overwritten" => (why \in excuse'[q] <=> why \in excuse[q])
    BY <2>1
  <2>3. UNCHANGED <<requests, dialog, effects>>
    BY <1>32 DEF RollBack
  <2> QED BY <2>2, <2>3 DEF AnswerInv, requests, effects
<1>33. ASSUME NEW l \in Requests, RefreshFails(l) PROVE AnswerInv(q)'
  <2>1. excuse[q] \subseteq excuse'[q] /\ excuse'[q] \subseteq excuse[q] \cup {"rejected"}
    BY <1>33, FailureDoes
  <2>2. \A why : why # "rejected" => (why \in excuse'[q] <=> why \in excuse[q])
    BY <2>1
  <2>3. UNCHANGED <<requests, screen, effects>>
    BY <1>33 DEF RefreshFails
  <2> QED BY <2>2, <2>3 DEF AnswerInv, requests, screen, effects
<1>34. CASE UNCHANGED vars
  BY <1>34 DEF TInv, RequestTypes, ScreenTypes, EffectTypes, AnswerInv, RenderInv, Early,
      Rendering, Sending, Transactions, vars, requests, screen, refresh, effects
<1> QED BY <1>1, <1>2, <1>3, <1>4, <1>5, <1>6, <1>7, <1>8, <1>9, <1>10, <1>11, <1>12, <1>13,
    <1>14, <1>15, <1>16, <1>17, <1>18, <1>19, <1>20, <1>21, <1>22, <1>23, <1>24, <1>25, <1>26,
    <1>27, <1>28, <1>29, <1>30, <1>31, <1>32, <1>33, <1>34 DEF Next, Handles, Refreshes

\* Every step keeps what is known of a dialog that render is at work on.
LEMMA KeepsRender ==
  ASSUME TInv, \A r \in Requests : AnswerInv(r) /\ RenderInv(r), [Next]_vars
  PROVE  (\A r \in Requests : RenderInv(r))'
<1> SUFFICES ASSUME NEW q \in Requests PROVE RenderInv(q)'
  OBVIOUS
<1> USE RequestsAssumption, KindsAssumption, PreferencesAssumption, BoundsAssumption
<1>1. ASSUME NEW r \in Requests, Submit(r) PROVE RenderInv(q)'
  BY <1>1 DEF Submit, RenderInv, Rendering, Named, screen, refresh
<1>2. ASSUME NEW r \in Requests, Build(r) PROVE RenderInv(q)'
  BY <1>2 DEF Build, Goes, RenderInv, Rendering, Named, screen, refresh
<1>3. ASSUME NEW r \in Requests, Load(r) PROVE RenderInv(q)'
  BY <1>3 DEF Load, Goes, RenderInv, Rendering, Named, screen, refresh
<1>4. ASSUME NEW r \in Requests, AddTransaction(r) PROVE RenderInv(q)'
  BY <1>4 DEF AddTransaction, Goes, RenderInv, Rendering, Named, screen, refresh
<1>5. ASSUME NEW r \in Requests, Extract(r) PROVE RenderInv(q)'
  BY <1>5 DEF Extract, Goes, RenderInv, Rendering, Named, screen, refresh
<1>6. ASSUME NEW r \in Requests, CreateInterface(r) PROVE RenderInv(q)'
  BY <1>6 DEF CreateInterface, Goes, Fetching, TInv, RequestTypes, ScreenTypes, AnswerInv,
      RenderInv, Early, Rendering, Named, refresh
<1>7. ASSUME NEW r \in Requests, RenderPrices(r) PROVE RenderInv(q)'
  BY <1>7 DEF RenderPrices, Goes, Shows, Fetching, RenderInv, Rendering, Named, refresh
<1>8. ASSUME NEW r \in Requests, RenderScan(r) PROVE RenderInv(q)'
  BY <1>8 DEF RenderScan, Goes, Shows, TInv, RequestTypes, RenderInv, Rendering, Named, refresh
<1>9. ASSUME NEW r \in Requests, RenderClosed(r) PROVE RenderInv(q)'
  BY <1>9 DEF RenderClosed, Answers, RenderInv, Rendering, Named, screen, refresh
<1>10. ASSUME NEW r \in Requests, SetName(r) PROVE RenderInv(q)'
  BY <1>10 DEF SetName, Goes, TInv, RequestTypes, RenderInv, Rendering, Named, screen
<1>11. ASSUME NEW r \in Requests, ScheduleRefresh(r) PROVE RenderInv(q)'
  BY <1>11 DEF ScheduleRefresh, Goes, RenderInv, Rendering, Named, screen
<1>12. ASSUME NEW r \in Requests, Decide(r) PROVE RenderInv(q)'
  BY <1>12 DEF Decide, Goes, Answers, TInv, RequestTypes, RenderInv, Rendering, Named, screen,
      refresh
<1>13. ASSUME NEW r \in Requests, Approve(r) PROVE RenderInv(q)'
  BY <1>13 DEF Approve, Goes, RenderInv, Rendering, Named, screen, refresh
<1>14. ASSUME NEW r \in Requests, Reject(r) PROVE RenderInv(q)'
  BY <1>14 DEF Reject, Answers, AnswerInv, RenderInv, Named, screen, refresh
<1>15. ASSUME NEW r \in Requests, Sign(r) PROVE RenderInv(q)'
  BY <1>15 DEF Sign, Goes, Answers, TInv, RequestTypes, RenderInv, Rendering, Named, screen, refresh
<1>16. ASSUME NEW r \in Requests, Send(r) PROVE RenderInv(q)'
  BY <1>16 DEF Send, Goes, RenderInv, Rendering, Named, screen, refresh
<1>17. ASSUME NEW r \in Requests, Monitor(r) PROVE RenderInv(q)'
  BY <1>17 DEF Monitor, Answers, RenderInv, Rendering, Named, screen, refresh
<1>18. ASSUME NEW r \in Requests, Fail(r) PROVE RenderInv(q)'
  BY <1>18 DEF Fail, Answers, RenderInv, Rendering, Named, screen, refresh
<1>19. ASSUME NEW r \in Requests, NEW result \in {"yes", "no"}, Resolve(r, result) PROVE RenderInv(q)'
  BY <1>19 DEF Resolve, CanConfirm, TInv, ScreenTypes, RenderInv, vars, requests, refresh
<1>20. ASSUME NEW r \in Requests, ClickAdvanced(r) PROVE RenderInv(q)'
  BY <1>20 DEF ClickAdvanced, RenderInv, requests, refresh
<1>21. ASSUME ShowAdvanced PROVE RenderInv(q)'
  BY <1>21 DEF ShowAdvanced, TInv, ScreenTypes, RenderInv, requests, refresh
<1>22. ASSUME Switch PROVE RenderInv(q)'
  BY <1>22 DEF Switch, RenderInv, requests, screen, refresh
<1>23. ASSUME NEW l \in Requests, Due(l) PROVE RenderInv(q)'
  BY <1>23 DEF Due, RenderInv, requests, screen
<1>24. ASSUME NEW l \in Requests, Dropped(l) PROVE RenderInv(q)'
  BY <1>24 DEF Dropped, RenderInv, requests, screen
<1>25. ASSUME NEW l \in Requests, Ends(l) PROVE RenderInv(q)'
  BY <1>25 DEF Ends, Leaves, RenderInv, requests, screen
<1>26. ASSUME NEW l \in Requests, ReadContext(l) PROVE RenderInv(q)'
  BY <1>26 DEF ReadContext, RenderInv, requests, screen
<1>27. ASSUME NEW l \in Requests, MarkFetching(l) PROVE RenderInv(q)'
  BY <1>27 DEF MarkFetching, Writes, Shows, RenderInv, requests
<1>28. ASSUME NEW l \in Requests, RereadContext(l) PROVE RenderInv(q)'
  BY <1>28 DEF RereadContext, RenderInv, requests, screen
<1>29. ASSUME NEW l \in Requests, Rescan(l) PROVE RenderInv(q)'
  BY <1>29 DEF Rescan, Writes, Shows, RenderInv, Rendering, Named, requests
<1>30. ASSUME NEW l \in Requests, Reschedule(l) PROVE RenderInv(q)'
  BY <1>30 DEF Reschedule, Leaves, RenderInv, requests, screen
<1>31. ASSUME NEW l \in Requests, Restore(l) PROVE RenderInv(q)'
  BY <1>31 DEF Restore, RenderInv, requests, screen
<1>32. ASSUME NEW l \in Requests, RollBack(l) PROVE RenderInv(q)'
  <2>1. target[l] \in Requests /\ at[target[l]] \in Named
    BY <1>32 DEF RollBack, Turns, RenderInv, TInv, LoopTypes
  <2>2. target[l] # q => ui'[q] = ui[q]
    BY <1>32, <2>1 DEF RollBack, Writes, Shows, TInv, ScreenTypes
  <2>3. \A k \in Requests : target'[k] = q => target[k] = q
    BY <1>32 DEF RollBack, TInv, LoopTypes
  <2> QED BY <1>32, <2>1, <2>2, <2>3 DEF RollBack, RenderInv, requests, Named, Rendering
<1>33. ASSUME NEW l \in Requests, RefreshFails(l) PROVE RenderInv(q)'
  <2>1. \A k \in Requests : target'[k] = q => target[k] = q
    BY <1>33 DEF RefreshFails, Leaves, TInv, LoopTypes, NameInv
  <2> QED BY <1>33, <2>1 DEF RefreshFails, RenderInv, requests, screen
<1>34. CASE UNCHANGED vars
  BY <1>34 DEF TInv, RequestTypes, ScreenTypes, LoopTypes, AnswerInv, RenderInv, Early, Rendering,
      Named, vars, requests, screen, refresh, effects
<1> QED BY <1>1, <1>2, <1>3, <1>4, <1>5, <1>6, <1>7, <1>8, <1>9, <1>10, <1>11, <1>12, <1>13,
    <1>14, <1>15, <1>16, <1>17, <1>18, <1>19, <1>20, <1>21, <1>22, <1>23, <1>24, <1>25, <1>26,
    <1>27, <1>28, <1>29, <1>30, <1>31, <1>32, <1>33, <1>34 DEF Next, Handles, Refreshes

\* Every step keeps what the copies of a context list.
LEMMA KeepsListed ==
  ASSUME TInv, \A r \in Requests : AnswerInv(r) /\ RenderInv(r) /\ ListInv(r), [Next]_vars
  PROVE  (\A r \in Requests : ListInv(r))'
<1> SUFFICES ASSUME NEW q \in Requests PROVE ListInv(q)'
  OBVIOUS
<1> USE RequestsAssumption, KindsAssumption, PreferencesAssumption, BoundsAssumption
<1>1. ASSUME NEW r \in Requests, Submit(r) PROVE ListInv(q)'
  <2>1. dialog[r] # "open" /\ at'[r] \in {"building", "loading"}
    BY <1>1 DEF Submit, AnswerInv, Early, TInv, RequestTypes
  <2>2. \A p \in Requests : p # r => at'[p] = at[p] /\ kind'[p] = kind[p]
    BY <1>1 DEF Submit, TInv, RequestTypes
  <2>3. UNCHANGED <<instructions, screen, refresh, excuse>>
    BY <1>1 DEF Submit
  <2>4. ListSame(q)
    BY <2>1, <2>2, <2>3 DEF ListSame, screen, refresh
  <2> QED BY <2>4, ListKept
<1>2. ASSUME NEW r \in Requests, Build(r) PROVE ListInv(q)'
  <2>1. ListSame(q)
    BY <1>2 DEF Build, Goes, requests, screen, refresh, effects, ListSame, TInv, RequestTypes,
        EffectTypes, AnswerInv, Early, Transactions
  <2> QED BY <2>1, ListKept
<1>3. ASSUME NEW r \in Requests, Load(r) PROVE ListInv(q)'
  <2>1. ListSame(q)
    BY <1>3 DEF Load, Goes, requests, screen, refresh, effects, ListSame, TInv, RequestTypes,
        EffectTypes, AnswerInv, Early, Transactions
  <2> QED BY <2>1, ListKept
<1>4. ASSUME NEW r \in Requests, AddTransaction(r) PROVE ListInv(q)'
  <2>1. ListSame(q)
    BY <1>4 DEF AddTransaction, Goes, requests, screen, refresh, effects, ListSame, TInv,
        RequestTypes, EffectTypes, AnswerInv, Early, Transactions
  <2> QED BY <2>1, ListKept
<1>5. ASSUME NEW r \in Requests, Extract(r) PROVE ListInv(q)'
  <2>1. /\ at[r] = "extracting" /\ kind' = kind
        /\ \A p \in Requests : at'[p] = IF p = r THEN "creating" ELSE at[p]
    BY <1>5, GoesDoes DEF Extract
  <2>2. dialog[r] = "none" /\ instructions' \in {r, None}
    BY <1>5, <2>1 DEF Extract, AnswerInv, Early
  <2>3. UNCHANGED <<screen, refresh>>
    BY <1>5 DEF Extract
  <2>4. \A p \in Requests :
          /\ excuse[p] \subseteq excuse'[p]
          /\ p # r /\ at[p] \in {"creating", "pricing", "scanning"} => "shared" \in excuse'[p]
    BY <1>5 DEF Extract, TInv, EffectTypes
  <2>5. CASE q = r
    BY <2>1, <2>2, <2>3, <2>5 DEF ListInv, screen, refresh
  <2>6. CASE q # r
    BY <2>1, <2>3, <2>4, <2>6 DEF ListInv, Lists, Rendering, screen, refresh
  <2> QED BY <2>5, <2>6
<1>6. ASSUME NEW r \in Requests, CreateInterface(r) PROVE ListInv(q)'
  <2>1. /\ at[r] = "creating" /\ kind' = kind
        /\ \A p \in Requests : p # r => at'[p] = at[p]
    BY <1>6, GoesDoes DEF CreateInterface
  <2>2. kind[r] # "message" => ui'[r] = Fetching
    BY <1>6 DEF CreateInterface, TInv, ScreenTypes
  <2>3. \A p \in Requests : p # r => ui'[p] = ui[p] /\ dialog'[p] = dialog[p]
    BY <1>6 DEF CreateInterface, TInv, ScreenTypes
  <2>4. UNCHANGED <<instructions, toggles, refresh, excuse>>
    BY <1>6 DEF CreateInterface
  <2>5. CASE q # r
    <3>1. ListSame(q)
      BY <2>1, <2>3, <2>4, <2>5 DEF ListSame, refresh
    <3> QED BY <3>1, ListKept
  <2>6. CASE q = r /\ kind[q] \in Transactions
    <3>1. instructions \in {q, None} \/ "shared" \in excuse[q]
      BY <2>1, <2>6 DEF ListInv
    <3>2. Fetching.instructions = instructions /\ kind[r] # "message"
      BY <2>6 DEF Fetching, Transactions
    <3>3. dialog[q] = "none" /\ \A l \in Requests : target[l] # q
      BY <2>1, <2>6 DEF AnswerInv, RenderInv, Early, Named
    <3>4. \A t \in toggles : t[1] # q
      BY <3>3 DEF RenderInv
    <3> QED BY <2>2, <2>4, <2>6, <3>1, <3>2, <3>3, <3>4 DEF ListInv, Lists, refresh
  <2>7. CASE q = r /\ kind[q] \notin Transactions
    BY <2>1, <2>7 DEF ListInv
  <2> QED BY <2>5, <2>6, <2>7
<1>7. ASSUME NEW r \in Requests, RenderPrices(r) PROVE ListInv(q)'
  <2>1. /\ at[r] = "pricing" /\ kind' = kind
        /\ \A p \in Requests : at'[p] = IF p = r THEN "scanning" ELSE at[p]
    BY <1>7, GoesDoes DEF RenderPrices
  <2>2. dialog[r] = "open" /\ \A p \in Requests : ui'[p] = IF p = r THEN Fetching ELSE ui[p]
    BY <1>7, ShowsDoes DEF RenderPrices
  <2>3. UNCHANGED <<instructions, dialog, toggles, refresh, excuse>>
    BY <1>7 DEF RenderPrices
  <2>4. Fetching.instructions = instructions
    BY DEF Fetching
  <2> QED BY <2>1, <2>2, <2>3, <2>4 DEF ListInv, Lists, Rendering, refresh
<1>8. ASSUME NEW r \in Requests, RenderScan(r) PROVE ListInv(q)'
  <2>1. /\ at[r] = "scanning" /\ kind' = kind
        /\ \A p \in Requests : at'[p] = IF p = r THEN "naming" ELSE at[p]
    BY <1>8, GoesDoes DEF RenderScan
  <2>2. PICK error \in BOOLEAN : Shows(r, Scanned(error))
    BY <1>8 DEF RenderScan
  <2>3. dialog[r] = "open" /\ \A p \in Requests : ui'[p] = IF p = r THEN Scanned(error) ELSE ui[p]
    BY <1>8, <2>2, ShowsDoes
  <2>4. UNCHANGED <<instructions, dialog, toggles, refresh, excuse>>
    BY <1>8 DEF RenderScan
  <2>5. Scanned(error).instructions = instructions
    BY DEF Scanned
  <2> QED BY <2>1, <2>3, <2>4, <2>5 DEF ListInv, Lists, Rendering, refresh
<1>9. ASSUME NEW r \in Requests, RenderClosed(r) PROVE ListInv(q)'
  <2>1. kind' = kind /\ \A p \in Requests : at'[p] = IF p = r THEN "answered" ELSE at[p]
    BY <1>9, AnswersDoes DEF RenderClosed
  <2>2. \A p \in Requests : excuse[p] \subseteq excuse'[p]
    <3>1. Excuse(r, "closed")
      BY <1>9 DEF RenderClosed
    <3>2. \A p \in Requests : excuse'[p] = IF p = r THEN excuse[p] \cup {"closed"} ELSE excuse[p]
      BY <3>1, ExcuseDoes
    <3> QED BY <3>2
  <2>3. UNCHANGED <<instructions, screen, refresh>>
    BY <1>9 DEF RenderClosed
  <2>4. ListSame(q)
    BY <2>1, <2>2, <2>3 DEF ListSame, screen, refresh
  <2> QED BY <2>4, ListKept
<1>10. ASSUME NEW r \in Requests, SetName(r) PROVE ListInv(q)'
  <2>1. ListSame(q)
    BY <1>10 DEF SetName, Goes, requests, screen, refresh, effects, ListSame, TInv, RequestTypes,
        EffectTypes, AnswerInv, Early, Transactions
  <2> QED BY <2>1, ListKept
<1>11. ASSUME NEW r \in Requests, ScheduleRefresh(r) PROVE ListInv(q)'
  <2>1. kind' = kind /\ \A p \in Requests : at'[p] = IF p = r THEN "waiting" ELSE at[p]
    BY <1>11, GoesDoes DEF ScheduleRefresh
  <2>2. \A l \in Requests : loop'[l] = IF l = r THEN "scheduled" ELSE loop[l]
    BY <1>11 DEF ScheduleRefresh, TInv, LoopTypes
  <2>3. UNCHANGED <<instructions, screen, target, held, excuse>>
    BY <1>11 DEF ScheduleRefresh
  <2>4. ListSame(q)
    BY <2>1, <2>2, <2>3 DEF ListSame, screen
  <2> QED BY <2>4, ListKept
<1>12. ASSUME NEW r \in Requests, Decide(r) PROVE ListInv(q)'
  <2>1. kind' = kind /\ \A p \in Requests : at'[p] = at[p] \/ at'[p] \notin {"creating", "pricing", "scanning"}
    BY <1>12 DEF Decide, Goes, Answers, TInv, RequestTypes
  <2>2. UNCHANGED <<instructions, screen, refresh, excuse>>
    BY <1>12 DEF Decide
  <2>3. ListSame(q)
    BY <2>1, <2>2 DEF ListSame, screen, refresh
  <2> QED BY <2>3, ListKept
<1>13. ASSUME NEW r \in Requests, Approve(r) PROVE ListInv(q)'
  <2>1. ListSame(q)
    BY <1>13 DEF Approve, Goes, requests, screen, refresh, effects, ListSame, TInv, RequestTypes,
        EffectTypes, AnswerInv, Early, Transactions
  <2> QED BY <2>1, ListKept
<1>14. ASSUME NEW r \in Requests, Reject(r) PROVE ListInv(q)'
  <2>1. ListSame(q)
    BY <1>14 DEF Reject, Answers, requests, screen, refresh, effects, ListSame, TInv,
        RequestTypes, EffectTypes, AnswerInv, Early, Transactions
  <2> QED BY <2>1, ListKept
<1>15. ASSUME NEW r \in Requests, Sign(r) PROVE ListInv(q)'
  <2>1. kind' = kind /\ \A p \in Requests : at'[p] = at[p] \/ at'[p] \notin {"creating", "pricing", "scanning"}
    BY <1>15 DEF Sign, Goes, Answers, TInv, RequestTypes
  <2>2. UNCHANGED <<instructions, screen, refresh, excuse>>
    BY <1>15 DEF Sign
  <2>3. ListSame(q)
    BY <2>1, <2>2 DEF ListSame, screen, refresh
  <2> QED BY <2>3, ListKept
<1>16. ASSUME NEW r \in Requests, Send(r) PROVE ListInv(q)'
  <2>1. ListSame(q)
    BY <1>16 DEF Send, Goes, requests, screen, refresh, effects, ListSame, TInv, RequestTypes,
        EffectTypes, AnswerInv, Early, Transactions
  <2> QED BY <2>1, ListKept
<1>17. ASSUME NEW r \in Requests, Monitor(r) PROVE ListInv(q)'
  <2>1. ListSame(q)
    BY <1>17 DEF Monitor, Answers, requests, screen, refresh, effects, ListSame, TInv,
        RequestTypes, EffectTypes, AnswerInv, Early, Transactions
  <2> QED BY <2>1, ListKept
<1>18. ASSUME NEW r \in Requests, Fail(r) PROVE ListInv(q)'
  <2>1. kind' = kind /\ \A p \in Requests : at'[p] = IF p = r THEN "answered" ELSE at[p]
    BY <1>18, AnswersDoes DEF Fail
  <2>2. \E why \in Reasons : Excuse(r, why)
    BY <1>18 DEF Fail, Reasons
  <2>3. \A p \in Requests : excuse[p] \subseteq excuse'[p]
    BY <1>18, <2>2, ExcuseDoes
  <2>4. UNCHANGED <<instructions, screen, refresh>>
    BY <1>18 DEF Fail
  <2>5. ListSame(q)
    BY <2>1, <2>3, <2>4 DEF ListSame, screen, refresh
  <2> QED BY <2>5, ListKept
<1>19. ASSUME NEW r \in Requests, NEW result \in {"yes", "no"}, Resolve(r, result) PROVE ListInv(q)'
  <2>1. /\ \A p \in Requests : dialog'[p] = IF p = r THEN result ELSE dialog[p]
        /\ \A p \in Requests : p # r => ui'[p] = ui[p] /\ excuse'[p] = excuse[p]
        /\ toggles' \subseteq toggles
    BY <1>19 DEF Resolve, TInv, ScreenTypes
  <2>2. UNCHANGED <<requests, instructions, refresh>> /\ dialog[r] = "open"
    BY <1>19 DEF Resolve
  <2>3. q = r => at[q] # "creating"
    BY <2>2 DEF AnswerInv, Early
  <2>4. ListSame(q)
    BY <1>19, <2>1, <2>2, <2>3 DEF ListSame, requests, refresh
  <2> QED BY <2>4, ListKept
<1>20. ASSUME NEW r \in Requests, ClickAdvanced(r) PROVE ListInv(q)'
  <2>1. toggles' = toggles \cup {<<r, ui[r]>>} /\ UNCHANGED <<requests, instructions, dialog, ui, refresh, excuse>>
    BY <1>20 DEF ClickAdvanced
  <2>2. \A t \in toggles' : t[1] = q => t \in toggles \/ t[2] = ui[q]
    BY <2>1
  <2> QED BY <2>1, <2>2 DEF ListInv, Lists, requests, refresh
<1>21. ASSUME ShowAdvanced PROVE ListInv(q)'
  <2>1. PICK t \in toggles : ShowsBack(t)
    BY <1>21, ShowAdvancedDoes
  <2>2. t[1] \in Requests
    BY DEF TInv, ScreenTypes
  <2>3. UNCHANGED <<requests, instructions, dialog, refresh>> /\ toggles' \subseteq toggles
    BY <2>1 DEF ShowsBack
  <2>4. CASE q # t[1]
    <3>1. ui'[q] = ui[q] /\ excuse[q] \subseteq excuse'[q]
      BY <2>1, <2>4 DEF ShowsBack
    <3>2. ListSame(q)
      BY <2>3, <3>1 DEF ListSame, requests, refresh
    <3> QED BY <3>2, ListKept
  <2>5. CASE q = t[1]
    <3>1. ui'[q] \in {ui[q], t[2]} /\ excuse[q] \subseteq excuse'[q]
      BY <2>1, <2>5 DEF ShowsBack
    <3> QED BY <2>3, <2>5, <3>1 DEF ListInv, Lists, requests, refresh
  <2> QED BY <2>4, <2>5
<1>22. ASSUME Switch PROVE ListInv(q)'
  <2>1. ListSame(q)
    BY <1>22 DEF Switch, Disturb, requests, screen, refresh, effects, ListSame, TInv, LoopTypes,
        ScreenTypes, EffectTypes, AnswerInv, Early, Transactions
  <2> QED BY <2>1, ListKept
<1>23. ASSUME NEW l \in Requests, Due(l) PROVE ListInv(q)'
  <2>1. \A k \in Requests : loop'[k] = IF k = l THEN "reading" ELSE loop[k]
    BY <1>23, TurnsDoes DEF Due
  <2>2. \A k \in Requests : k # l => target'[k] = target[k]
    BY <1>23 DEF Due, TInv, LoopTypes
  <2>3. UNCHANGED <<requests, instructions, screen, held, excuse>>
    BY <1>23 DEF Due
  <2>4. ListSame(q)
    BY <2>1, <2>2, <2>3 DEF ListSame, requests, screen
  <2> QED BY <2>4, ListKept
<1>24. ASSUME NEW l \in Requests, Dropped(l) PROVE ListInv(q)'
  <2>1. ListSame(q)
    BY <1>24 DEF Dropped, Turns, requests, screen, refresh, effects, ListSame, TInv, LoopTypes,
        ScreenTypes, EffectTypes, AnswerInv, Early, Transactions
  <2> QED BY <2>1, ListKept
<1>25. ASSUME NEW l \in Requests, Ends(l) PROVE ListInv(q)'
  <2>0. UNCHANGED <<requests, instructions, screen, excuse>>
    BY <1>25 DEF Ends
  <2>1. loop' = [loop EXCEPT ![l] = "none"] /\ Leaves(l)
    BY <1>25 DEF Ends
  <2>2. \A k \in Requests : loop'[k] = IF k = l THEN "none" ELSE loop[k]
    BY <2>1 DEF TInv, LoopTypes
  <2>3. \A k \in Requests : k # l => target'[k] = target[k] /\ held'[k] = held[k]
    BY <2>1, LeavesDoes
  <2>4. ListSame(q)
    BY <2>0, <2>2, <2>3 DEF ListSame, requests, screen
  <2> QED BY <2>4, ListKept
<1>26. ASSUME NEW l \in Requests, ReadContext(l) PROVE ListInv(q)'
  <2>1. loop[l] = "reading" /\ \A k \in Requests : loop'[k] = IF k = l THEN "marking" ELSE loop[k]
    BY <1>26, TurnsDoes DEF ReadContext
  <2>2. \A k \in Requests : held'[k] = IF k = l THEN ui[target[l]] ELSE held[k]
    BY <1>26, HoldsDoes DEF ReadContext
  <2>3. UNCHANGED <<requests, instructions, screen, target, excuse>>
    BY <1>26 DEF ReadContext
  <2> QED BY <2>1, <2>2, <2>3 DEF ListInv, Lists, requests, screen
<1>27. ASSUME NEW l \in Requests, MarkFetching(l) PROVE ListInv(q)'
  <2>1. loop[l] = "marking" /\ \A k \in Requests : loop'[k] = IF k = l THEN "rereading" ELSE loop[k]
    BY <1>27, TurnsDoes DEF MarkFetching
  <2>2. PICK context : Writes(l, context) /\ context.instructions = held[l].instructions
    <3>1. held[l] \in Contexts
      BY DEF TInv, ScreenTypes
    <3>2. \A error \in BOOLEAN : [held[l] EXCEPT !.fetching = TRUE].instructions = held[l].instructions
      BY <3>1 DEF Contexts
    <3> QED BY <1>27, <3>2 DEF MarkFetching
  <2>3. /\ target[l] \in Requests /\ dialog[target[l]] = "open"
        /\ \A p \in Requests : ui'[p] = IF p = target[l] THEN context ELSE ui[p]
        /\ \A p \in Requests : p # l => held'[p] = held[p]
        /\ \A p \in Requests : excuse[p] \subseteq excuse'[p]
    <3>1. loop[l] \notin {"none", "scheduled"}
      BY <2>1
    <3> QED BY <2>2, <3>1, WritesDoes
  <2>4. UNCHANGED <<requests, instructions, dialog, toggles>> /\ \A k \in Requests : k # l => target'[k] = target[k]
    BY <1>27 DEF MarkFetching, TInv, LoopTypes
  <2>5. CASE q # target[l]
    <3>1. ListSame(q)
      BY <2>1, <2>3, <2>4, <2>5 DEF ListSame, requests
    <3> QED BY <3>1, ListKept
  <2>6. CASE q = target[l]
    <3>1. kind[q] \in Transactions => Lists(held[l], q)
      BY <2>1, <2>3, <2>6 DEF ListInv
    <3>2. kind[q] \in Transactions => context.instructions \in {q, None} \/ "shared" \in excuse[q]
      BY <2>2, <3>1 DEF Lists
    <3>3. kind'[q] = kind[q] /\ at'[q] = at[q] /\ dialog'[q] = "open" /\ dialog[q] = "open"
      BY <2>3, <2>4, <2>6 DEF requests
    <3>4. kind[q] \in Transactions => ui'[q].instructions \in {q, None} \/ "shared" \in excuse[q]
      BY <2>3, <2>6, <3>2
    <3>5. \A k \in Requests :
            target'[k] = q /\ loop'[k] \in {"marking", "scanning", "rolling back"} =>
              target[k] = q /\ loop[k] = loop'[k] /\ held[k] = held'[k]
      BY <2>1, <2>3, <2>4
    <3>6. "shared" \in excuse[q] => "shared" \in excuse'[q]
      BY <2>3
    <3> QED BY <2>4, <3>3, <3>4, <3>5, <3>6 DEF ListInv, Lists
  <2> QED BY <2>5, <2>6
<1>28. ASSUME NEW l \in Requests, RereadContext(l) PROVE ListInv(q)'
  <2>1. loop[l] = "rereading" /\ \A k \in Requests : loop'[k] = IF k = l THEN "scanning" ELSE loop[k]
    BY <1>28, TurnsDoes DEF RereadContext
  <2>2. \A k \in Requests : held'[k] = IF k = l THEN ui[target[l]] ELSE held[k]
    BY <1>28, HoldsDoes DEF RereadContext
  <2>3. UNCHANGED <<requests, instructions, screen, target, excuse>>
    BY <1>28 DEF RereadContext
  <2> QED BY <2>1, <2>2, <2>3 DEF ListInv, Lists, requests, screen
<1>29. ASSUME NEW l \in Requests, Rescan(l) PROVE ListInv(q)'
  <2>1. loop[l] = "scanning" /\ \A k \in Requests : loop'[k] = IF k = l THEN "scheduling" ELSE loop[k]
    BY <1>29, TurnsDoes DEF Rescan
  <2>2. PICK context : Writes(l, context) /\ context.instructions = held[l].instructions
    <3>1. held[l] \in Contexts
      BY DEF TInv, ScreenTypes
    <3>2. \A error \in BOOLEAN : [held[l] EXCEPT !.fetching = FALSE, !.error = error].instructions = held[l].instructions
      BY <3>1 DEF Contexts
    <3> QED BY <1>29, <3>2 DEF Rescan
  <2>3. /\ target[l] \in Requests /\ dialog[target[l]] = "open"
        /\ \A p \in Requests : ui'[p] = IF p = target[l] THEN context ELSE ui[p]
        /\ \A p \in Requests : p # l => held'[p] = held[p]
        /\ \A p \in Requests : excuse[p] \subseteq excuse'[p]
    <3>1. loop[l] \notin {"none", "scheduled"}
      BY <2>1
    <3> QED BY <2>2, <3>1, WritesDoes
  <2>4. UNCHANGED <<requests, instructions, dialog, toggles>> /\ \A k \in Requests : k # l => target'[k] = target[k]
    BY <1>29 DEF Rescan, TInv, LoopTypes
  <2>5. CASE q # target[l]
    <3>1. ListSame(q)
      BY <2>1, <2>3, <2>4, <2>5 DEF ListSame, requests
    <3> QED BY <3>1, ListKept
  <2>6. CASE q = target[l]
    <3>1. kind[q] \in Transactions => Lists(held[l], q)
      BY <2>1, <2>3, <2>6 DEF ListInv
    <3>2. kind[q] \in Transactions => context.instructions \in {q, None} \/ "shared" \in excuse[q]
      BY <2>2, <3>1 DEF Lists
    <3>3. kind'[q] = kind[q] /\ at'[q] = at[q] /\ dialog'[q] = "open" /\ dialog[q] = "open"
      BY <2>3, <2>4, <2>6 DEF requests
    <3>4. kind[q] \in Transactions => ui'[q].instructions \in {q, None} \/ "shared" \in excuse[q]
      BY <2>3, <2>6, <3>2
    <3>5. \A k \in Requests :
            target'[k] = q /\ loop'[k] \in {"marking", "scanning", "rolling back"} =>
              target[k] = q /\ loop[k] = loop'[k] /\ held[k] = held'[k]
      BY <2>1, <2>3, <2>4
    <3>6. "shared" \in excuse[q] => "shared" \in excuse'[q]
      BY <2>3
    <3> QED BY <2>4, <3>3, <3>4, <3>5, <3>6 DEF ListInv, Lists
  <2> QED BY <2>5, <2>6
<1>30. ASSUME NEW l \in Requests, Reschedule(l) PROVE ListInv(q)'
  <2>1. \A k \in Requests : loop'[k] = IF k = l THEN "scheduled" ELSE loop[k]
    BY <1>30, TurnsDoes DEF Reschedule
  <2>2. \A k \in Requests : k # l => target'[k] = target[k] /\ held'[k] = held[k]
    BY <1>30, LeavesDoes DEF Reschedule
  <2>3. UNCHANGED <<requests, instructions, screen, excuse>>
    BY <1>30 DEF Reschedule
  <2>4. ListSame(q)
    BY <2>1, <2>2, <2>3 DEF ListSame, requests, screen
  <2> QED BY <2>4, ListKept
<1>31. ASSUME NEW l \in Requests, Restore(l) PROVE ListInv(q)'
  <2>1. loop[l] = "restoring" /\ \A k \in Requests : loop'[k] = IF k = l THEN "rolling back" ELSE loop[k]
    BY <1>31, TurnsDoes DEF Restore
  <2>2. \A k \in Requests : held'[k] = IF k = l THEN ui[target[l]] ELSE held[k]
    BY <1>31, HoldsDoes DEF Restore
  <2>3. UNCHANGED <<requests, instructions, screen, target, excuse>>
    BY <1>31 DEF Restore
  <2> QED BY <2>1, <2>2, <2>3 DEF ListInv, Lists, requests, screen
<1>32. ASSUME NEW l \in Requests, RollBack(l) PROVE ListInv(q)'
  <2>1. loop[l] = "rolling back" /\ \A k \in Requests : loop'[k] = IF k = l THEN "none" ELSE loop[k]
    BY <1>32, TurnsDoes DEF RollBack
  <2>2. PICK context : Writes(l, context) /\ context.instructions = held[l].instructions
    <3>1. held[l] \in Contexts
      BY DEF TInv, ScreenTypes
    <3>2. \A error \in BOOLEAN : [held[l] EXCEPT !.fetching = FALSE].instructions = held[l].instructions
      BY <3>1 DEF Contexts
    <3> QED BY <1>32, <3>2 DEF RollBack
  <2>3. /\ target[l] \in Requests /\ dialog[target[l]] = "open"
        /\ \A p \in Requests : ui'[p] = IF p = target[l] THEN context ELSE ui[p]
        /\ \A p \in Requests : p # l => held'[p] = held[p]
        /\ \A p \in Requests : excuse[p] \subseteq excuse'[p]
    <3>1. loop[l] \notin {"none", "scheduled"}
      BY <2>1
    <3> QED BY <2>2, <3>1, WritesDoes
  <2>4. UNCHANGED <<requests, instructions, dialog, toggles>> /\ \A k \in Requests : k # l => target'[k] = target[k]
    BY <1>32 DEF RollBack, TInv, LoopTypes
  <2>5. CASE q # target[l]
    <3>1. ListSame(q)
      BY <2>1, <2>3, <2>4, <2>5 DEF ListSame, requests
    <3> QED BY <3>1, ListKept
  <2>6. CASE q = target[l]
    <3>1. kind[q] \in Transactions => Lists(held[l], q)
      BY <2>1, <2>3, <2>6 DEF ListInv
    <3>2. kind[q] \in Transactions => context.instructions \in {q, None} \/ "shared" \in excuse[q]
      BY <2>2, <3>1 DEF Lists
    <3>3. kind'[q] = kind[q] /\ at'[q] = at[q] /\ dialog'[q] = "open" /\ dialog[q] = "open"
      BY <2>3, <2>4, <2>6 DEF requests
    <3>4. kind[q] \in Transactions => ui'[q].instructions \in {q, None} \/ "shared" \in excuse[q]
      BY <2>3, <2>6, <3>2
    <3>5. \A k \in Requests :
            target'[k] = q /\ loop'[k] \in {"marking", "scanning", "rolling back"} =>
              target[k] = q /\ loop[k] = loop'[k] /\ held[k] = held'[k]
      BY <2>1, <2>3, <2>4
    <3>6. "shared" \in excuse[q] => "shared" \in excuse'[q]
      BY <2>3
    <3> QED BY <2>4, <3>3, <3>4, <3>5, <3>6 DEF ListInv, Lists
  <2> QED BY <2>5, <2>6
<1>33. ASSUME NEW l \in Requests, RefreshFails(l) PROVE ListInv(q)'
  <2>0. UNCHANGED <<requests, instructions, screen>>
    BY <1>33 DEF RefreshFails
  <2>1. \A p \in Requests : excuse[p] \subseteq excuse'[p]
    BY <1>33, FailureDoes
  <2>2. \A k \in Requests : k # l => loop'[k] = loop[k] /\ target'[k] = target[k] /\ held'[k] = held[k]
    BY <1>33, FailureDoes
  <2>3. loop'[l] \in {"none", "restoring"}
    BY <1>33, FailureDoes
  <2>4. ListSame(q)
    BY <2>0, <2>1, <2>2, <2>3 DEF ListSame, requests, screen
  <2> QED BY <2>4, ListKept
<1>34. CASE UNCHANGED vars
  BY <1>34 DEF ListInv, Lists, vars, requests, screen, refresh, effects
<1> QED BY <1>1, <1>2, <1>3, <1>4, <1>5, <1>6, <1>7, <1>8, <1>9, <1>10, <1>11, <1>12, <1>13,
    <1>14, <1>15, <1>16, <1>17, <1>18, <1>19, <1>20, <1>21, <1>22, <1>23, <1>24, <1>25, <1>26,
    <1>27, <1>28, <1>29, <1>30, <1>31, <1>32, <1>33, <1>34 DEF Next, Handles, Refreshes

\* Every step keeps the verdict of the latest scan.
LEMMA KeepsVerdict ==
  ASSUME TInv, \A r \in Requests : AnswerInv(r) /\ RenderInv(r) /\ VerdictInv(r), [Next]_vars
  PROVE  (\A r \in Requests : VerdictInv(r))'
<1> SUFFICES ASSUME NEW q \in Requests PROVE VerdictInv(q)'
  OBVIOUS
<1> USE RequestsAssumption, KindsAssumption, PreferencesAssumption, BoundsAssumption
<1>1. ASSUME NEW r \in Requests, Submit(r) PROVE VerdictInv(q)'
  <2>1. VerdictSame(q)
    BY <1>1 DEF Submit, requests, screen, refresh, effects, VerdictSame, TInv, RequestTypes,
        EffectTypes, AnswerInv, Early, Rendering
  <2> QED BY <2>1, VerdictKept
<1>2. ASSUME NEW r \in Requests, Build(r) PROVE VerdictInv(q)'
  <2>1. VerdictSame(q)
    BY <1>2 DEF Build, Goes, requests, screen, refresh, effects, VerdictSame, TInv, RequestTypes,
        EffectTypes, AnswerInv, Early, Rendering
  <2> QED BY <2>1, VerdictKept
<1>3. ASSUME NEW r \in Requests, Load(r) PROVE VerdictInv(q)'
  <2>1. VerdictSame(q)
    BY <1>3 DEF Load, Goes, requests, screen, refresh, effects, VerdictSame, TInv, RequestTypes,
        EffectTypes, AnswerInv, Early, Rendering
  <2> QED BY <2>1, VerdictKept
<1>4. ASSUME NEW r \in Requests, AddTransaction(r) PROVE VerdictInv(q)'
  <2>1. VerdictSame(q)
    BY <1>4 DEF AddTransaction, Goes, requests, screen, refresh, effects, VerdictSame, TInv,
        RequestTypes, EffectTypes, AnswerInv, Early, Rendering
  <2> QED BY <2>1, VerdictKept
<1>5. ASSUME NEW r \in Requests, Extract(r) PROVE VerdictInv(q)'
  <2>1. VerdictSame(q)
    BY <1>5 DEF Extract, Goes, requests, screen, refresh, effects, VerdictSame, TInv,
        RequestTypes, EffectTypes, AnswerInv, Early, Rendering
  <2> QED BY <2>1, VerdictKept
<1>6. ASSUME NEW r \in Requests, CreateInterface(r) PROVE VerdictInv(q)'
  <2>1. /\ at[r] = "creating"
        /\ \A p \in Requests : at'[p] = IF p = r THEN at'[r] ELSE at[p]
    BY <1>6, GoesDoes DEF CreateInterface
  <2>2. \A p \in Requests : p # r => ui'[p] = ui[p] /\ dialog'[p] = dialog[p]
    BY <1>6 DEF CreateInterface, TInv, ScreenTypes
  <2>3. UNCHANGED <<excuse, latest>>
    BY <1>6 DEF CreateInterface
  <2>4. CASE q = r
    <3>1. ~latest[q]
      BY <2>1, <2>4 DEF VerdictInv, Early
    <3> QED BY <2>3, <3>1 DEF VerdictInv
  <2>5. CASE q # r
    <3>1. VerdictSame(q)
      BY <2>1, <2>2, <2>3, <2>5 DEF VerdictSame
    <3> QED BY <3>1, VerdictKept
  <2> QED BY <2>4, <2>5
<1>7. ASSUME NEW r \in Requests, RenderPrices(r) PROVE VerdictInv(q)'
  <2>1. /\ at[r] = "pricing"
        /\ \A p \in Requests : at'[p] = IF p = r THEN "scanning" ELSE at[p]
    BY <1>7, GoesDoes DEF RenderPrices
  <2>2. \A p \in Requests : p # r => ui'[p] = ui[p]
    BY <1>7, ShowsDoes DEF RenderPrices
  <2>3. UNCHANGED <<dialog, excuse, latest>>
    BY <1>7 DEF RenderPrices
  <2>4. CASE q = r
    <3>1. ~latest[q]
      BY <2>1, <2>4 DEF VerdictInv, Rendering
    <3> QED BY <2>3, <3>1 DEF VerdictInv
  <2>5. CASE q # r
    <3>1. VerdictSame(q)
      BY <2>1, <2>2, <2>3, <2>5 DEF VerdictSame
    <3> QED BY <3>1, VerdictKept
  <2> QED BY <2>4, <2>5
<1>8. ASSUME NEW r \in Requests, RenderScan(r) PROVE VerdictInv(q)'
  <2>1. \A p \in Requests : at'[p] = IF p = r THEN "naming" ELSE at[p]
    BY <1>8, GoesDoes DEF RenderScan
  <2>2. PICK error \in BOOLEAN : Shows(r, Scanned(error)) /\ latest' = [latest EXCEPT ![r] = error]
    BY <1>8 DEF RenderScan
  <2>3. \A p \in Requests : ui'[p] = IF p = r THEN Scanned(error) ELSE ui[p]
    BY <2>2, ShowsDoes
  <2>4. \A p \in Requests : latest'[p] = IF p = r THEN error ELSE latest[p]
    BY <2>2 DEF TInv, EffectTypes
  <2>5. UNCHANGED <<dialog, excuse>>
    BY <1>8 DEF RenderScan
  <2>6. CASE q = r
    <3>1. Scanned(error).error = error
      BY DEF Scanned
    <3> QED BY <2>1, <2>3, <2>4, <2>6, <3>1 DEF VerdictInv, Early, Rendering
  <2>7. CASE q # r
    <3>1. VerdictSame(q)
      BY <2>1, <2>3, <2>4, <2>5, <2>7 DEF VerdictSame
    <3> QED BY <3>1, VerdictKept
  <2> QED BY <2>6, <2>7
<1>9. ASSUME NEW r \in Requests, RenderClosed(r) PROVE VerdictInv(q)'
  <2>1. VerdictSame(q)
    BY <1>9 DEF RenderClosed, Answers, requests, screen, refresh, effects, VerdictSame, TInv,
        RequestTypes, EffectTypes, AnswerInv, Early, Rendering, Excuse
  <2> QED BY <2>1, VerdictKept
<1>10. ASSUME NEW r \in Requests, SetName(r) PROVE VerdictInv(q)'
  <2>1. VerdictSame(q)
    BY <1>10 DEF SetName, Goes, requests, screen, refresh, effects, VerdictSame, TInv,
        RequestTypes, EffectTypes, AnswerInv, Early, Rendering
  <2> QED BY <2>1, VerdictKept
<1>11. ASSUME NEW r \in Requests, ScheduleRefresh(r) PROVE VerdictInv(q)'
  <2>1. VerdictSame(q)
    BY <1>11 DEF ScheduleRefresh, Goes, requests, screen, refresh, effects, VerdictSame, TInv,
        RequestTypes, EffectTypes, AnswerInv, Early, Rendering
  <2> QED BY <2>1, VerdictKept
<1>12. ASSUME NEW r \in Requests, Decide(r) PROVE VerdictInv(q)'
  <2>1. VerdictSame(q)
    BY <1>12 DEF Decide, Goes, Answers, requests, screen, refresh, effects, VerdictSame, TInv,
        RequestTypes, EffectTypes, AnswerInv, Early, Rendering
  <2> QED BY <2>1, VerdictKept
<1>13. ASSUME NEW r \in Requests, Approve(r) PROVE VerdictInv(q)'
  <2>1. VerdictSame(q)
    BY <1>13 DEF Approve, Goes, requests, screen, refresh, effects, VerdictSame, TInv,
        RequestTypes, EffectTypes, AnswerInv, Early, Rendering
  <2> QED BY <2>1, VerdictKept
<1>14. ASSUME NEW r \in Requests, Reject(r) PROVE VerdictInv(q)'
  <2>1. VerdictSame(q)
    BY <1>14 DEF Reject, Answers, requests, screen, refresh, effects, VerdictSame, TInv,
        RequestTypes, EffectTypes, AnswerInv, Early, Rendering
  <2> QED BY <2>1, VerdictKept
<1>15. ASSUME NEW r \in Requests, Sign(r) PROVE VerdictInv(q)'
  <2>1. VerdictSame(q)
    BY <1>15 DEF Sign, Goes, Answers, requests, screen, refresh, effects, VerdictSame, TInv,
        RequestTypes, EffectTypes, AnswerInv, Early, Rendering
  <2> QED BY <2>1, VerdictKept
<1>16. ASSUME NEW r \in Requests, Send(r) PROVE VerdictInv(q)'
  <2>1. VerdictSame(q)
    BY <1>16 DEF Send, Goes, requests, screen, refresh, effects, VerdictSame, TInv, RequestTypes,
        EffectTypes, AnswerInv, Early, Rendering
  <2> QED BY <2>1, VerdictKept
<1>17. ASSUME NEW r \in Requests, Monitor(r) PROVE VerdictInv(q)'
  <2>1. VerdictSame(q)
    BY <1>17 DEF Monitor, Answers, requests, screen, refresh, effects, VerdictSame, TInv,
        RequestTypes, EffectTypes, AnswerInv, Early, Rendering
  <2> QED BY <2>1, VerdictKept
<1>18. ASSUME NEW r \in Requests, Fail(r) PROVE VerdictInv(q)'
  <2>1. VerdictSame(q)
    BY <1>18 DEF Fail, Answers, Disturb, requests, screen, refresh, effects, VerdictSame, TInv,
        RequestTypes, EffectTypes, AnswerInv, Early, Rendering, Excuse
  <2> QED BY <2>1, VerdictKept
<1>19. ASSUME NEW r \in Requests, NEW result \in {"yes", "no"}, Resolve(r, result) PROVE VerdictInv(q)'
  <2>1. /\ \A p \in Requests : dialog'[p] = IF p = r THEN result ELSE dialog[p]
        /\ \A p \in Requests : p # r => ui'[p] = ui[p] /\ excuse'[p] = excuse[p]
        /\ \A p \in Requests : latest'[p] = IF p = r THEN FALSE ELSE latest[p]
    BY <1>19 DEF Resolve, TInv, ScreenTypes, EffectTypes
  <2>2. UNCHANGED requests
    BY <1>19 DEF Resolve
  <2>3. VerdictSame(q)
    BY <1>19, <2>1, <2>2 DEF VerdictSame, requests
  <2> QED BY <2>3, VerdictKept
<1>20. ASSUME NEW r \in Requests, ClickAdvanced(r) PROVE VerdictInv(q)'
  <2>1. VerdictSame(q)
    BY <1>20 DEF ClickAdvanced, Disturb, requests, screen, refresh, effects, VerdictSame, TInv,
        RequestTypes, EffectTypes, AnswerInv, Early, Rendering
  <2> QED BY <2>1, VerdictKept
<1>21. ASSUME ShowAdvanced PROVE VerdictInv(q)'
  <2>1. PICK t \in toggles : ShowsBack(t)
    BY <1>21, ShowAdvancedDoes
  <2>2. UNCHANGED <<requests, dialog, latest>>
    BY <2>1 DEF ShowsBack
  <2>3. dialog[q] = "open" => "overwritten" \in excuse'[q] \/ (ui'[q] = ui[q] /\ excuse'[q] = excuse[q])
    BY <2>1 DEF ShowsBack
  <2> QED BY <2>2, <2>3 DEF VerdictInv, requests
<1>22. ASSUME Switch PROVE VerdictInv(q)'
  <2>1. VerdictSame(q)
    BY <1>22 DEF Switch, Disturb, requests, screen, refresh, effects, VerdictSame, TInv,
        LoopTypes, ScreenTypes, EffectTypes, AnswerInv, Early, Rendering
  <2> QED BY <2>1, VerdictKept
<1>23. ASSUME NEW l \in Requests, Due(l) PROVE VerdictInv(q)'
  <2>1. VerdictSame(q)
    BY <1>23 DEF Due, Turns, requests, screen, refresh, effects, VerdictSame, TInv, LoopTypes,
        ScreenTypes, EffectTypes, AnswerInv, Early, Rendering
  <2> QED BY <2>1, VerdictKept
<1>24. ASSUME NEW l \in Requests, Dropped(l) PROVE VerdictInv(q)'
  <2>1. VerdictSame(q)
    BY <1>24 DEF Dropped, Turns, requests, screen, refresh, effects, VerdictSame, TInv, LoopTypes,
        ScreenTypes, EffectTypes, AnswerInv, Early, Rendering
  <2> QED BY <2>1, VerdictKept
<1>25. ASSUME NEW l \in Requests, Ends(l) PROVE VerdictInv(q)'
  <2>1. VerdictSame(q)
    BY <1>25 DEF Ends, Open, Leaves, Drops, Unread, requests, screen, refresh, effects,
        VerdictSame, TInv, LoopTypes, ScreenTypes, EffectTypes, AnswerInv, Early, Rendering
  <2> QED BY <2>1, VerdictKept
<1>26. ASSUME NEW l \in Requests, ReadContext(l) PROVE VerdictInv(q)'
  <2>1. VerdictSame(q)
    BY <1>26 DEF ReadContext, Turns, Open, Holds, requests, screen, refresh, effects, VerdictSame,
        TInv, LoopTypes, ScreenTypes, EffectTypes, AnswerInv, Early, Rendering
  <2> QED BY <2>1, VerdictKept
<1>27. ASSUME NEW l \in Requests, MarkFetching(l) PROVE VerdictInv(q)'
  <2>1. Writes(l, [held[l] EXCEPT !.fetching = TRUE])
    BY <1>27 DEF MarkFetching
  <2>2. loop[l] \notin {"none", "scheduled"}
    BY <1>27 DEF MarkFetching, Turns
  <2> DEFINE context == [held[l] EXCEPT !.fetching = TRUE]
  <2>3. /\ target[l] \in Requests /\ dialog[target[l]] = "open"
        /\ \A p \in Requests : ui'[p] = IF p = target[l] THEN context ELSE ui[p]
        /\ \A p \in Requests : excuse[p] \subseteq excuse'[p]
        /\ ui[target[l]] # held[l] => "overwritten" \in excuse'[target[l]]
    BY <2>1, <2>2, WritesDoes
  <2>4. UNCHANGED <<requests, dialog, latest>>
    BY <1>27 DEF MarkFetching
  <2>5. \A p \in Requests : latest'[p] = latest[p]
    BY <2>1, <2>3, <2>4 DEF TInv, EffectTypes
  <2>6. CASE q # target[l]
    <3>1. VerdictSame(q)
      BY <2>3, <2>4, <2>5, <2>6 DEF VerdictSame, requests
    <3> QED BY <3>1, VerdictKept
  <2>7. CASE q = target[l]
    <3>1. context.error = held[l].error
      BY DEF TInv, ScreenTypes, Contexts
    <3>2. at[q] \in Named
      BY <2>7 DEF RenderInv
    <3> QED BY <2>3, <2>4, <2>5, <2>7, <3>1, <3>2 DEF VerdictInv, requests, Early, Rendering, Named
  <2> QED BY <2>6, <2>7
<1>28. ASSUME NEW l \in Requests, RereadContext(l) PROVE VerdictInv(q)'
  <2>1. VerdictSame(q)
    BY <1>28 DEF RereadContext, Turns, Open, Holds, requests, screen, refresh, effects,
        VerdictSame, TInv, LoopTypes, ScreenTypes, EffectTypes, AnswerInv, Early, Rendering
  <2> QED BY <2>1, VerdictKept
<1>29. ASSUME NEW l \in Requests, Rescan(l) PROVE VerdictInv(q)'
  <2>1. PICK error \in BOOLEAN : Writes(l, [held[l] EXCEPT !.fetching = FALSE, !.error = error]) /\ latest' = [latest EXCEPT ![target[l]] = error]
    BY <1>29 DEF Rescan
  <2>2. loop[l] \notin {"none", "scheduled"}
    BY <1>29 DEF Rescan, Turns
  <2> DEFINE context == [held[l] EXCEPT !.fetching = FALSE, !.error = error]
  <2>3. /\ target[l] \in Requests /\ dialog[target[l]] = "open"
        /\ \A p \in Requests : ui'[p] = IF p = target[l] THEN context ELSE ui[p]
        /\ \A p \in Requests : excuse[p] \subseteq excuse'[p]
        /\ ui[target[l]] # held[l] => "overwritten" \in excuse'[target[l]]
    BY <2>1, <2>2, WritesDoes
  <2>4. UNCHANGED <<requests, dialog>>
    BY <1>29 DEF Rescan
  <2>5. \A p \in Requests : latest'[p] = IF p = target[l] THEN error ELSE latest[p]
    BY <2>1, <2>3, <2>4 DEF TInv, EffectTypes
  <2>6. CASE q # target[l]
    <3>1. VerdictSame(q)
      BY <2>3, <2>4, <2>5, <2>6 DEF VerdictSame, requests
    <3> QED BY <3>1, VerdictKept
  <2>7. CASE q = target[l]
    <3>1. context.error = error
      BY DEF TInv, ScreenTypes, Contexts
    <3>2. at[q] \in Named
      BY <2>7 DEF RenderInv
    <3> QED BY <2>3, <2>4, <2>5, <2>7, <3>1, <3>2 DEF VerdictInv, requests, Early, Rendering, Named
  <2> QED BY <2>6, <2>7
<1>30. ASSUME NEW l \in Requests, Reschedule(l) PROVE VerdictInv(q)'
  <2>1. VerdictSame(q)
    BY <1>30 DEF Reschedule, Turns, Leaves, Drops, Unread, requests, screen, refresh, effects,
        VerdictSame, TInv, LoopTypes, ScreenTypes, EffectTypes, AnswerInv, Early, Rendering
  <2> QED BY <2>1, VerdictKept
<1>31. ASSUME NEW l \in Requests, Restore(l) PROVE VerdictInv(q)'
  <2>1. VerdictSame(q)
    BY <1>31 DEF Restore, Turns, Open, Holds, requests, screen, refresh, effects, VerdictSame,
        TInv, LoopTypes, ScreenTypes, EffectTypes, AnswerInv, Early, Rendering
  <2> QED BY <2>1, VerdictKept
<1>32. ASSUME NEW l \in Requests, RollBack(l) PROVE VerdictInv(q)'
  <2>1. Writes(l, [held[l] EXCEPT !.fetching = FALSE])
    BY <1>32 DEF RollBack
  <2>2. loop[l] \notin {"none", "scheduled"}
    BY <1>32 DEF RollBack, Turns
  <2> DEFINE context == [held[l] EXCEPT !.fetching = FALSE]
  <2>3. /\ target[l] \in Requests /\ dialog[target[l]] = "open"
        /\ \A p \in Requests : ui'[p] = IF p = target[l] THEN context ELSE ui[p]
        /\ \A p \in Requests : excuse[p] \subseteq excuse'[p]
        /\ ui[target[l]] # held[l] => "overwritten" \in excuse'[target[l]]
    BY <2>1, <2>2, WritesDoes
  <2>4. UNCHANGED <<requests, dialog, latest>>
    BY <1>32 DEF RollBack
  <2>5. \A p \in Requests : latest'[p] = latest[p]
    BY <2>1, <2>3, <2>4 DEF TInv, EffectTypes
  <2>6. CASE q # target[l]
    <3>1. VerdictSame(q)
      BY <2>3, <2>4, <2>5, <2>6 DEF VerdictSame, requests
    <3> QED BY <3>1, VerdictKept
  <2>7. CASE q = target[l]
    <3>1. context.error = held[l].error
      BY DEF TInv, ScreenTypes, Contexts
    <3>2. at[q] \in Named
      BY <2>7 DEF RenderInv
    <3> QED BY <2>3, <2>4, <2>5, <2>7, <3>1, <3>2 DEF VerdictInv, requests, Early, Rendering, Named
  <2> QED BY <2>6, <2>7
<1>33. ASSUME NEW l \in Requests, RefreshFails(l) PROVE VerdictInv(q)'
  <2>0. UNCHANGED <<requests, screen, latest>>
    BY <1>33 DEF RefreshFails
  <2>1. \A p \in Requests : excuse[p] \subseteq excuse'[p]
    BY <1>33, FailureDoes
  <2>2. VerdictSame(q)
    BY <2>0, <2>1 DEF VerdictSame, requests, screen
  <2> QED BY <2>2, VerdictKept
<1>34. CASE UNCHANGED vars
  BY <1>34 DEF VerdictInv, vars, requests, screen, refresh, effects
<1> QED BY <1>1, <1>2, <1>3, <1>4, <1>5, <1>6, <1>7, <1>8, <1>9, <1>10, <1>11, <1>12, <1>13,
    <1>14, <1>15, <1>16, <1>17, <1>18, <1>19, <1>20, <1>21, <1>22, <1>23, <1>24, <1>25, <1>26,
    <1>27, <1>28, <1>29, <1>30, <1>31, <1>32, <1>33, <1>34 DEF Next, Handles, Refreshes

\* Every step keeps the refreshes of open dialogs.
LEMMA KeepsRefreshed ==
  ASSUME TInv, \A r \in Requests : AnswerInv(r) /\ RenderInv(r) /\ RefreshInv(r), [Next]_vars
  PROVE  (\A r \in Requests : RefreshInv(r))'
<1> SUFFICES ASSUME NEW q \in Requests PROVE RefreshInv(q)'
  OBVIOUS
<1> USE RequestsAssumption, KindsAssumption, PreferencesAssumption, BoundsAssumption
<1>1. ASSUME NEW r \in Requests, Submit(r) PROVE RefreshInv(q)'
  <2>1. dialog[r] # "open"
    BY <1>1 DEF Submit, AnswerInv, Early
  <2>2. \A p \in Requests : p # r => at'[p] = at[p] /\ kind'[p] = kind[p] /\ prefs'[p] = prefs[p]
    BY <1>1 DEF Submit, TInv, RequestTypes
  <2>3. UNCHANGED <<screen, refresh, excuse>>
    BY <1>1 DEF Submit
  <2>4. RefreshSame(q)
    BY <2>1, <2>2, <2>3 DEF RefreshSame, screen
  <2> QED BY <2>3, <2>4, RefreshKept DEF refresh
<1>2. ASSUME NEW r \in Requests, Build(r) PROVE RefreshInv(q)'
  <2>1. RefreshSame(q)
    BY <1>2 DEF Build, Goes, requests, screen, refresh, effects, RefreshSame, TInv, RequestTypes,
        EffectTypes, Rendering
  <2> QED BY <2>1, RefreshKept, <1>2 DEF Build, refresh, Turns
<1>3. ASSUME NEW r \in Requests, Load(r) PROVE RefreshInv(q)'
  <2>1. RefreshSame(q)
    BY <1>3 DEF Load, Goes, requests, screen, refresh, effects, RefreshSame, TInv, RequestTypes,
        EffectTypes, Rendering
  <2> QED BY <2>1, RefreshKept, <1>3 DEF Load, refresh, Turns
<1>4. ASSUME NEW r \in Requests, AddTransaction(r) PROVE RefreshInv(q)'
  <2>1. RefreshSame(q)
    BY <1>4 DEF AddTransaction, Goes, requests, screen, refresh, effects, RefreshSame, TInv,
        RequestTypes, EffectTypes, Rendering
  <2> QED BY <2>1, RefreshKept, <1>4 DEF AddTransaction, refresh, Turns
<1>5. ASSUME NEW r \in Requests, Extract(r) PROVE RefreshInv(q)'
  <2>1. RefreshSame(q)
    BY <1>5 DEF Extract, Goes, requests, screen, refresh, effects, RefreshSame, TInv,
        RequestTypes, EffectTypes, Rendering
  <2> QED BY <2>1, RefreshKept, <1>5 DEF Extract, refresh, Turns
<1>6. ASSUME NEW r \in Requests, CreateInterface(r) PROVE RefreshInv(q)'
  <2>1. /\ at[r] = "creating" /\ kind' = kind /\ prefs' = prefs
        /\ \A p \in Requests : at'[p] = IF p = r THEN IF kind[r] = "message" THEN "waiting" ELSE "pricing" ELSE at[p]
    BY <1>6, GoesDoes DEF CreateInterface
  <2>2. \A p \in Requests : p # r => ui'[p] = ui[p] /\ dialog'[p] = dialog[p]
    BY <1>6 DEF CreateInterface, TInv, ScreenTypes
  <2>3. UNCHANGED <<refresh, excuse>>
    BY <1>6 DEF CreateInterface
  <2>4. CASE q = r
    <3>1. \A l \in Requests : target[l] # q
      BY <2>1, <2>4 DEF RenderInv, Named
    <3>2. kind[q] \in Transactions => at'[q] = "pricing"
      BY <2>1, <2>4 DEF Transactions
    <3> QED BY <2>1, <2>3, <2>4, <3>1, <3>2 DEF RefreshInv, Rendering, refresh
  <2>5. CASE q # r
    <3>1. RefreshSame(q)
      BY <2>1, <2>2, <2>3, <2>5 DEF RefreshSame
    <3> QED BY <2>3, <3>1, RefreshKept DEF refresh
  <2> QED BY <2>4, <2>5
<1>7. ASSUME NEW r \in Requests, RenderPrices(r) PROVE RefreshInv(q)'
  <2>1. /\ at[r] = "pricing" /\ kind' = kind /\ prefs' = prefs
        /\ \A p \in Requests : at'[p] = IF p = r THEN "scanning" ELSE at[p]
    BY <1>7, GoesDoes DEF RenderPrices
  <2>2. dialog[r] = "open" /\ \A p \in Requests : p # r => ui'[p] = ui[p]
    BY <1>7, ShowsDoes DEF RenderPrices
  <2>3. UNCHANGED <<dialog, refresh, excuse>>
    BY <1>7 DEF RenderPrices
  <2>4. q = r => ui[q].fetching
    BY <2>1, <2>2 DEF RenderInv, Rendering
  <2>5. RefreshSame(q)
    BY <2>1, <2>2, <2>3, <2>4 DEF RefreshSame, Rendering
  <2> QED BY <2>3, <2>5, RefreshKept DEF refresh
<1>8. ASSUME NEW r \in Requests, RenderScan(r) PROVE RefreshInv(q)'
  <2>1. /\ at[r] = "scanning" /\ kind' = kind /\ prefs' = prefs
        /\ \A p \in Requests : at'[p] = IF p = r THEN "naming" ELSE at[p]
    BY <1>8, GoesDoes DEF RenderScan
  <2>2. PICK error \in BOOLEAN : Shows(r, Scanned(error))
    BY <1>8 DEF RenderScan
  <2>3. \A p \in Requests : ui'[p] = IF p = r THEN Scanned(error) ELSE ui[p]
    BY <2>2, ShowsDoes
  <2>4. UNCHANGED <<dialog, refresh, excuse>>
    BY <1>8 DEF RenderScan
  <2>5. ~Scanned(error).fetching
    BY DEF Scanned
  <2>6. RefreshSame(q)
    BY <2>1, <2>3, <2>4, <2>5 DEF RefreshSame, Rendering
  <2> QED BY <2>4, <2>6, RefreshKept DEF refresh
<1>9. ASSUME NEW r \in Requests, RenderClosed(r) PROVE RefreshInv(q)'
  <2>1. RefreshSame(q)
    BY <1>9 DEF RenderClosed, Answers, requests, screen, refresh, effects, RefreshSame, TInv,
        RequestTypes, EffectTypes, Rendering, Excuse
  <2> QED BY <2>1, RefreshKept, <1>9 DEF RenderClosed, refresh, Turns
<1>10. ASSUME NEW r \in Requests, SetName(r) PROVE RefreshInv(q)'
  <2>1. /\ at[r] = "naming" /\ kind' = kind /\ prefs' = prefs
        /\ \A p \in Requests : at'[p] = IF p = r THEN "scheduling" ELSE at[p]
    BY <1>10, GoesDoes DEF SetName
  <2>2. nameToId' = r /\ UNCHANGED <<screen, loop, target, excuse>>
    BY <1>10 DEF SetName
  <2> QED BY <2>1, <2>2 DEF RefreshInv, Rendering, Working, screen
<1>11. ASSUME NEW r \in Requests, ScheduleRefresh(r) PROVE RefreshInv(q)'
  <2>1. /\ at[r] = "scheduling" /\ kind' = kind /\ prefs' = prefs
        /\ \A p \in Requests : at'[p] = IF p = r THEN "waiting" ELSE at[p]
    BY <1>11, GoesDoes DEF ScheduleRefresh
  <2>2. \A l \in Requests : loop'[l] = IF l = r THEN "scheduled" ELSE loop[l]
    BY <1>11 DEF ScheduleRefresh, TInv, LoopTypes
  <2>3. loop[r] = "none"
    BY <2>1 DEF TInv, NameInv
  <2>4. UNCHANGED <<screen, nameToId, target, excuse>>
    BY <1>11 DEF ScheduleRefresh
  <2> QED BY <2>1, <2>2, <2>3, <2>4 DEF RefreshInv, Rendering, Working, screen
<1>12. ASSUME NEW r \in Requests, Decide(r) PROVE RefreshInv(q)'
  <2>1. RefreshSame(q)
    BY <1>12 DEF Decide, Goes, Answers, requests, screen, refresh, effects, RefreshSame, TInv,
        RequestTypes, EffectTypes, Rendering
  <2> QED BY <2>1, RefreshKept, <1>12 DEF Decide, refresh, Turns
<1>13. ASSUME NEW r \in Requests, Approve(r) PROVE RefreshInv(q)'
  <2>1. RefreshSame(q)
    BY <1>13 DEF Approve, Goes, requests, screen, refresh, effects, RefreshSame, TInv,
        RequestTypes, EffectTypes, Rendering
  <2> QED BY <2>1, RefreshKept, <1>13 DEF Approve, refresh, Turns
<1>14. ASSUME NEW r \in Requests, Reject(r) PROVE RefreshInv(q)'
  <2>1. RefreshSame(q)
    BY <1>14 DEF Reject, Answers, requests, screen, refresh, effects, RefreshSame, TInv,
        RequestTypes, EffectTypes, Rendering
  <2> QED BY <2>1, RefreshKept, <1>14 DEF Reject, refresh, Turns
<1>15. ASSUME NEW r \in Requests, Sign(r) PROVE RefreshInv(q)'
  <2>1. RefreshSame(q)
    BY <1>15 DEF Sign, Goes, Answers, requests, screen, refresh, effects, RefreshSame, TInv,
        RequestTypes, EffectTypes, Rendering
  <2> QED BY <2>1, RefreshKept, <1>15 DEF Sign, refresh, Turns
<1>16. ASSUME NEW r \in Requests, Send(r) PROVE RefreshInv(q)'
  <2>1. RefreshSame(q)
    BY <1>16 DEF Send, Goes, requests, screen, refresh, effects, RefreshSame, TInv, RequestTypes,
        EffectTypes, Rendering
  <2> QED BY <2>1, RefreshKept, <1>16 DEF Send, refresh, Turns
<1>17. ASSUME NEW r \in Requests, Monitor(r) PROVE RefreshInv(q)'
  <2>1. RefreshSame(q)
    BY <1>17 DEF Monitor, Answers, requests, screen, refresh, effects, RefreshSame, TInv,
        RequestTypes, EffectTypes, Rendering
  <2> QED BY <2>1, RefreshKept, <1>17 DEF Monitor, refresh, Turns
<1>18. ASSUME NEW r \in Requests, Fail(r) PROVE RefreshInv(q)'
  <2>1. RefreshSame(q)
    BY <1>18 DEF Fail, Answers, Disturb, requests, screen, refresh, effects, RefreshSame, TInv,
        RequestTypes, EffectTypes, Rendering, Excuse
  <2> QED BY <2>1, RefreshKept, <1>18 DEF Fail, refresh, Turns
<1>19. ASSUME NEW r \in Requests, NEW result \in {"yes", "no"}, Resolve(r, result) PROVE RefreshInv(q)'
  <2>1. /\ \A p \in Requests : dialog'[p] = IF p = r THEN result ELSE dialog[p]
        /\ \A p \in Requests : p # r => ui'[p] = ui[p] /\ excuse'[p] = excuse[p]
    BY <1>19 DEF Resolve, TInv, ScreenTypes
  <2>2. UNCHANGED <<requests, refresh>>
    BY <1>19 DEF Resolve
  <2>3. RefreshSame(q)
    BY <1>19, <2>1, <2>2 DEF RefreshSame, requests
  <2> QED BY <2>2, <2>3, RefreshKept DEF refresh
<1>20. ASSUME NEW r \in Requests, ClickAdvanced(r) PROVE RefreshInv(q)'
  <2>1. RefreshSame(q)
    BY <1>20 DEF ClickAdvanced, Disturb, requests, screen, refresh, effects, RefreshSame, TInv,
        RequestTypes, EffectTypes, Rendering
  <2> QED BY <2>1, RefreshKept, <1>20 DEF ClickAdvanced, refresh, Turns
<1>21. ASSUME ShowAdvanced PROVE RefreshInv(q)'
  <2>1. PICK t \in toggles : ShowsBack(t)
    BY <1>21, ShowAdvancedDoes
  <2>2. UNCHANGED <<requests, dialog, refresh>>
    BY <2>1 DEF ShowsBack
  <2>3. excuse[q] \subseteq excuse'[q]
    BY <2>1 DEF ShowsBack
  <2>4. dialog[q] = "open" => "overwritten" \in excuse'[q] \/ ui'[q] = ui[q]
    BY <2>1 DEF ShowsBack
  <2> QED BY <2>2, <2>3, <2>4 DEF RefreshInv, Working, requests, refresh
<1>22. ASSUME Switch PROVE RefreshInv(q)'
  <2>1. RefreshSame(q)
    BY <1>22 DEF Switch, Disturb, requests, screen, refresh, effects, RefreshSame, TInv,
        LoopTypes, ScreenTypes, EffectTypes, Rendering
  <2> QED BY <2>1, RefreshKept, <1>22 DEF Switch, refresh, Turns
<1>23. ASSUME NEW l \in Requests, Due(l) PROVE RefreshInv(q)'
  <2>1. loop[l] = "scheduled" /\ \A k \in Requests : loop'[k] = IF k = l THEN "reading" ELSE loop[k]
    BY <1>23, TurnsDoes DEF Due
  <2>2. \A k \in Requests : target'[k] = IF k = l THEN nameToId ELSE target[k]
    BY <1>23 DEF Due, TInv, LoopTypes
  <2>3. UNCHANGED <<requests, screen, nameToId, excuse>>
    BY <1>23 DEF Due
  <2>4. target[l] \notin Requests
    BY <2>1, RequestsAssumption DEF TInv, LoopTypes
  <2> QED BY <2>1, <2>2, <2>3, <2>4 DEF RefreshInv, Working, requests, screen
<1>24. ASSUME NEW l \in Requests, Dropped(l) PROVE RefreshInv(q)'
  <2>1. loop[l] = "scheduled" /\ \A k \in Requests : loop'[k] = IF k = l THEN "none" ELSE loop[k]
    BY <1>24, TurnsDoes DEF Dropped
  <2>2. UNCHANGED <<requests, screen, nameToId, target>>
    BY <1>24 DEF Dropped
  <2>3. excuse[q] \subseteq excuse'[q] /\ (dialog[q] = "open" => "inactive" \in excuse'[q])
    BY <1>24 DEF Dropped, TInv, EffectTypes
  <2> QED BY <2>1, <2>2, <2>3 DEF RefreshInv, Working, requests, screen
<1>25. ASSUME NEW l \in Requests, Ends(l) PROVE RefreshInv(q)'
  <2>1. loop' = [loop EXCEPT ![l] = "none"] /\ Leaves(l)
    BY <1>25 DEF Ends
  <2>2. \A k \in Requests : loop'[k] = IF k = l THEN "none" ELSE loop[k]
    BY <2>1 DEF TInv, LoopTypes
  <2>3. \A k \in Requests : target'[k] = IF k = l THEN None ELSE target[k]
    BY <2>1, LeavesDoes
  <2>4. UNCHANGED <<requests, screen, nameToId, excuse>>
    BY <1>25 DEF Ends
  <2>5. dialog[q] = "open" /\ target[l] = q => loop[l] = "reading" /\ "simulation" \notin prefs[q]
    BY <1>25 DEF Ends, Open
  <2>6. loop[l] \notin {"none", "scheduled"} /\ None \notin Requests
    BY <1>25, RequestsAssumption DEF Ends
  <2> QED BY <2>2, <2>3, <2>4, <2>5, <2>6 DEF RefreshInv, Working, requests, screen
<1>26. ASSUME NEW l \in Requests, ReadContext(l) PROVE RefreshInv(q)'
  <2>1. loop[l] = "reading" /\ \A k \in Requests : loop'[k] = IF k = l THEN "marking" ELSE loop[k]
    BY <1>26, TurnsDoes DEF ReadContext
  <2>2. UNCHANGED <<requests, screen, nameToId, target, excuse>>
    BY <1>26 DEF ReadContext
  <2> QED BY <2>1, <2>2 DEF RefreshInv, Working, requests, screen
<1>27. ASSUME NEW l \in Requests, MarkFetching(l) PROVE RefreshInv(q)'
  <2>1. loop[l] = "marking" /\ \A k \in Requests : loop'[k] = IF k = l THEN "rereading" ELSE loop[k]
    BY <1>27, TurnsDoes DEF MarkFetching
  <2>2. Writes(l, [held[l] EXCEPT !.fetching = TRUE])
    BY <1>27 DEF MarkFetching
  <2> DEFINE context == [held[l] EXCEPT !.fetching = TRUE]
  <2>3. /\ target[l] \in Requests /\ dialog[target[l]] = "open"
        /\ \A p \in Requests : ui'[p] = IF p = target[l] THEN context ELSE ui[p]
        /\ \A p \in Requests : excuse[p] \subseteq excuse'[p]
    <3>1. loop[l] \notin {"none", "scheduled"}
      BY <2>1
    <3> QED BY <2>2, <3>1, WritesDoes
  <2>4. UNCHANGED <<requests, dialog, nameToId, target>>
    BY <1>27 DEF MarkFetching
  <2>5. context.fetching = TRUE
    BY DEF TInv, ScreenTypes, Contexts
  <2>6. q # target[l] => ui'[q] = ui[q]
    BY <2>3
  <2>7. q = target[l] => ui'[q].fetching = TRUE
    BY <2>3, <2>5
  <2> HIDE DEF context
  <2>8. /\ kind'[q] = kind[q] /\ at'[q] = at[q] /\ prefs'[q] = prefs[q] /\ dialog'[q] = dialog[q]
        /\ nameToId' = nameToId /\ excuse[q] \subseteq excuse'[q]
    BY <2>3, <2>4 DEF requests
  <2>9. ASSUME dialog[q] = "open", NEW k \in Requests, target'[k] = q, loop'[k] \in {"restoring", "rolling back"}
        PROVE  "rejected" \in excuse'[q]
    BY <2>1, <2>4, <2>8, <2>9 DEF RefreshInv
  <2>10. ASSUME dialog[q] = "open", kind[q] \in Transactions, ui'[q].fetching, at[q] \notin Rendering
        PROVE  \/ \E k \in Requests : target'[k] = q /\ loop'[k] \in {"rereading", "scanning"}
               \/ excuse'[q] \cap {"overwritten", "rejected", "failed"} # {}
    <3>1. CASE q = target[l]
      BY <2>1, <2>7, <2>4, <2>8, <2>10, <3>1
    <3>2. CASE q # target[l]
      <4>1. \/ \E k \in Requests : target[k] = q /\ loop[k] \in {"rereading", "scanning"}
            \/ excuse[q] \cap {"overwritten", "rejected", "failed"} # {}
        BY <2>6, <2>10, <3>2 DEF RefreshInv
      <4>2. ASSUME NEW k \in Requests, target[k] = q PROVE target'[k] = q /\ loop'[k] = loop[k]
        BY <2>1, <2>4, <3>2, <4>2
      <4> QED BY <2>8, <4>1, <4>2
    <3> QED BY <3>1, <3>2
  <2>11. ASSUME dialog[q] = "open", at[q] = "waiting", "simulation" \in prefs[q], kind[q] \in Transactions
        PROVE  \/ \E k \in Requests : target'[k] = q \/ (loop'[k] = "scheduled" /\ nameToId = q)
               \/ nameToId # q \/ excuse'[q] \cap {"inactive", "rejected"} # {}
    <3>1. ASSUME NEW k \in Requests, Working(k, q)
          PROVE  target'[k] = q \/ (loop'[k] = "scheduled" /\ nameToId = q) \/ "rejected" \in excuse[q]
      BY <2>1, <2>4, <2>11, <3>1 DEF Working
    <3>2. \/ \E k \in Requests : Working(k, q)
          \/ nameToId # q \/ excuse[q] \cap {"inactive", "rejected"} # {}
      BY <2>11 DEF RefreshInv
    <3> QED BY <2>8, <3>1, <3>2
  <2> QED BY <2>8, <2>9, <2>10, <2>11 DEF RefreshInv, Working
<1>28. ASSUME NEW l \in Requests, RereadContext(l) PROVE RefreshInv(q)'
  <2>1. loop[l] = "rereading" /\ \A k \in Requests : loop'[k] = IF k = l THEN "scanning" ELSE loop[k]
    BY <1>28, TurnsDoes DEF RereadContext
  <2>2. UNCHANGED <<requests, screen, nameToId, target, excuse>>
    BY <1>28 DEF RereadContext
  <2> QED BY <2>1, <2>2 DEF RefreshInv, Working, requests, screen
<1>29. ASSUME NEW l \in Requests, Rescan(l) PROVE RefreshInv(q)'
  <2>1. loop[l] = "scanning" /\ \A k \in Requests : loop'[k] = IF k = l THEN "scheduling" ELSE loop[k]
    BY <1>29, TurnsDoes DEF Rescan
  <2>2. PICK error \in BOOLEAN : Writes(l, [held[l] EXCEPT !.fetching = FALSE, !.error = error])
    BY <1>29 DEF Rescan
  <2> DEFINE context == [held[l] EXCEPT !.fetching = FALSE, !.error = error]
  <2>3. /\ target[l] \in Requests /\ dialog[target[l]] = "open"
        /\ \A p \in Requests : ui'[p] = IF p = target[l] THEN context ELSE ui[p]
        /\ \A p \in Requests : excuse[p] \subseteq excuse'[p]
    <3>1. loop[l] \notin {"none", "scheduled"}
      BY <2>1
    <3> QED BY <2>2, <3>1, WritesDoes
  <2>4. UNCHANGED <<requests, dialog, nameToId, target>>
    BY <1>29 DEF Rescan
  <2>5. context.fetching = FALSE
    BY DEF TInv, ScreenTypes, Contexts
  <2>6. q # target[l] => ui'[q] = ui[q]
    BY <2>3
  <2>7. q = target[l] => ui'[q].fetching = FALSE
    BY <2>3, <2>5
  <2> HIDE DEF context
  <2>8. /\ kind'[q] = kind[q] /\ at'[q] = at[q] /\ prefs'[q] = prefs[q] /\ dialog'[q] = dialog[q]
        /\ nameToId' = nameToId /\ excuse[q] \subseteq excuse'[q]
    BY <2>3, <2>4 DEF requests
  <2>9. ASSUME dialog[q] = "open", NEW k \in Requests, target'[k] = q, loop'[k] \in {"restoring", "rolling back"}
        PROVE  "rejected" \in excuse'[q]
    BY <2>1, <2>4, <2>8, <2>9 DEF RefreshInv
  <2>10. ASSUME dialog[q] = "open", kind[q] \in Transactions, ui'[q].fetching, at[q] \notin Rendering
        PROVE  \/ \E k \in Requests : target'[k] = q /\ loop'[k] \in {"rereading", "scanning"}
               \/ excuse'[q] \cap {"overwritten", "rejected", "failed"} # {}
    <3>1. CASE q = target[l]
      BY <2>1, <2>7, <2>4, <2>8, <2>10, <3>1
    <3>2. CASE q # target[l]
      <4>1. \/ \E k \in Requests : target[k] = q /\ loop[k] \in {"rereading", "scanning"}
            \/ excuse[q] \cap {"overwritten", "rejected", "failed"} # {}
        BY <2>6, <2>10, <3>2 DEF RefreshInv
      <4>2. ASSUME NEW k \in Requests, target[k] = q PROVE target'[k] = q /\ loop'[k] = loop[k]
        BY <2>1, <2>4, <3>2, <4>2
      <4> QED BY <2>8, <4>1, <4>2
    <3> QED BY <3>1, <3>2
  <2>11. ASSUME dialog[q] = "open", at[q] = "waiting", "simulation" \in prefs[q], kind[q] \in Transactions
        PROVE  \/ \E k \in Requests : target'[k] = q \/ (loop'[k] = "scheduled" /\ nameToId = q)
               \/ nameToId # q \/ excuse'[q] \cap {"inactive", "rejected"} # {}
    <3>1. ASSUME NEW k \in Requests, Working(k, q)
          PROVE  target'[k] = q \/ (loop'[k] = "scheduled" /\ nameToId = q) \/ "rejected" \in excuse[q]
      BY <2>1, <2>4, <2>11, <3>1 DEF Working
    <3>2. \/ \E k \in Requests : Working(k, q)
          \/ nameToId # q \/ excuse[q] \cap {"inactive", "rejected"} # {}
      BY <2>11 DEF RefreshInv
    <3> QED BY <2>8, <3>1, <3>2
  <2> QED BY <2>8, <2>9, <2>10, <2>11 DEF RefreshInv, Working
<1>30. ASSUME NEW l \in Requests, Reschedule(l) PROVE RefreshInv(q)'
  <2>1. loop[l] = "scheduling" /\ \A k \in Requests : loop'[k] = IF k = l THEN "scheduled" ELSE loop[k]
    BY <1>30, TurnsDoes DEF Reschedule
  <2>2. \A k \in Requests : target'[k] = IF k = l THEN None ELSE target[k]
    BY <1>30, LeavesDoes DEF Reschedule
  <2>3. UNCHANGED <<requests, screen, nameToId, excuse>>
    BY <1>30 DEF Reschedule
  <2>4. None \notin Requests
    BY RequestsAssumption
  <2> QED BY <2>1, <2>2, <2>3, <2>4 DEF RefreshInv, Working, requests, screen
<1>31. ASSUME NEW l \in Requests, Restore(l) PROVE RefreshInv(q)'
  <2>1. loop[l] = "restoring" /\ \A k \in Requests : loop'[k] = IF k = l THEN "rolling back" ELSE loop[k]
    BY <1>31, TurnsDoes DEF Restore
  <2>2. UNCHANGED <<requests, screen, nameToId, target, excuse>>
    BY <1>31 DEF Restore
  <2> QED BY <2>1, <2>2 DEF RefreshInv, Working, requests, screen
<1>32. ASSUME NEW l \in Requests, RollBack(l) PROVE RefreshInv(q)'
  <2>1. loop[l] = "rolling back" /\ \A k \in Requests : loop'[k] = IF k = l THEN "none" ELSE loop[k]
    BY <1>32, TurnsDoes DEF RollBack
  <2>2. Writes(l, [held[l] EXCEPT !.fetching = FALSE])
    BY <1>32 DEF RollBack
  <2> DEFINE context == [held[l] EXCEPT !.fetching = FALSE]
  <2>3. /\ target[l] \in Requests /\ dialog[target[l]] = "open"
        /\ \A p \in Requests : ui'[p] = IF p = target[l] THEN context ELSE ui[p]
        /\ \A p \in Requests : excuse[p] \subseteq excuse'[p]
    <3>1. loop[l] \notin {"none", "scheduled"}
      BY <2>1
    <3> QED BY <2>2, <3>1, WritesDoes
  <2>4. UNCHANGED <<requests, dialog, nameToId>> /\ target' = [target EXCEPT ![l] = None]
    BY <1>32 DEF RollBack
  <2>5. context.fetching = FALSE
    BY DEF TInv, ScreenTypes, Contexts
  <2>6. q # target[l] => ui'[q] = ui[q]
    BY <2>3
  <2>7. q = target[l] => ui'[q].fetching = FALSE
    BY <2>3, <2>5
  <2>8. \A k \in Requests : target'[k] = IF k = l THEN None ELSE target[k]
    BY <2>4 DEF TInv, LoopTypes
  <2>9. dialog[q] = "open" /\ q = target[l] => "rejected" \in excuse[q]
    BY <2>1, <2>3 DEF RefreshInv
  <2>10. None \notin Requests
    BY RequestsAssumption
  <2> HIDE DEF context
  <2>11. /\ kind'[q] = kind[q] /\ at'[q] = at[q] /\ prefs'[q] = prefs[q] /\ dialog'[q] = dialog[q]
        /\ nameToId' = nameToId /\ excuse[q] \subseteq excuse'[q]
    BY <2>3, <2>4 DEF requests
  <2>12. ASSUME dialog[q] = "open", NEW k \in Requests, target'[k] = q, loop'[k] \in {"restoring", "rolling back"}
        PROVE  "rejected" \in excuse'[q]
    BY <2>1, <2>8, <2>9, <2>10, <2>11, <2>12 DEF RefreshInv
  <2>13. ASSUME dialog[q] = "open", kind[q] \in Transactions, ui'[q].fetching, at[q] \notin Rendering
        PROVE  \/ \E k \in Requests : target'[k] = q /\ loop'[k] \in {"rereading", "scanning"}
               \/ excuse'[q] \cap {"overwritten", "rejected", "failed"} # {}
    <3>1. CASE q = target[l]
      BY <2>1, <2>7, <2>8, <2>9, <2>10, <2>11, <2>13, <3>1
    <3>2. CASE q # target[l]
      <4>1. \/ \E k \in Requests : target[k] = q /\ loop[k] \in {"rereading", "scanning"}
            \/ excuse[q] \cap {"overwritten", "rejected", "failed"} # {}
        BY <2>6, <2>13, <3>2 DEF RefreshInv
      <4>2. ASSUME NEW k \in Requests, target[k] = q PROVE target'[k] = q /\ loop'[k] = loop[k]
        BY <2>1, <2>8, <2>9, <2>10, <3>2, <4>2
      <4> QED BY <2>11, <4>1, <4>2
    <3> QED BY <3>1, <3>2
  <2>14. ASSUME dialog[q] = "open", at[q] = "waiting", "simulation" \in prefs[q], kind[q] \in Transactions
        PROVE  \/ \E k \in Requests : target'[k] = q \/ (loop'[k] = "scheduled" /\ nameToId = q)
               \/ nameToId # q \/ excuse'[q] \cap {"inactive", "rejected"} # {}
    <3>1. ASSUME NEW k \in Requests, Working(k, q)
          PROVE  target'[k] = q \/ (loop'[k] = "scheduled" /\ nameToId = q) \/ "rejected" \in excuse[q]
      BY <2>1, <2>8, <2>9, <2>10, <2>14, <3>1 DEF Working
    <3>2. \/ \E k \in Requests : Working(k, q)
          \/ nameToId # q \/ excuse[q] \cap {"inactive", "rejected"} # {}
      BY <2>14 DEF RefreshInv
    <3> QED BY <2>11, <3>1, <3>2
  <2> QED BY <2>11, <2>12, <2>13, <2>14 DEF RefreshInv, Working
<1>33. ASSUME NEW l \in Requests, RefreshFails(l) PROVE RefreshInv(q)'
  <2>1. UNCHANGED <<requests, screen, nameToId>>
    BY <1>33 DEF RefreshFails
  <2>2. /\ excuse[q] \subseteq excuse'[q]
        /\ dialog[q] = "open" /\ target[l] = q => "rejected" \in excuse'[q]
    BY <1>33, FailureDoes
  <2>3. \A k \in Requests : k # l => loop'[k] = loop[k] /\ target'[k] = target[k]
    BY <1>33, FailureDoes
  <2>4. \/ loop'[l] = "none" /\ target'[l] = None
        \/ loop'[l] = "restoring" /\ target'[l] = target[l]
    BY <1>33, FailureDoes
  <2>5. target[l] \in Requests /\ None \notin Requests /\ loop[l] # "scheduled"
    BY <1>33, RequestsAssumption DEF RefreshFails, TInv, LoopTypes
  <2>6. CASE q = target[l]
    BY <2>1, <2>2, <2>3, <2>4, <2>5, <2>6 DEF RefreshInv, Working, screen
  <2>7. CASE q # target[l]
    <3>1. \A k \in Requests : target[k] = q => target'[k] = q /\ loop'[k] = loop[k]
      BY <2>3, <2>7
    <3>2. \A k \in Requests : target'[k] = q => target[k] = q /\ loop'[k] = loop[k]
      BY <2>3, <2>4, <2>5, <2>7
    <3>3. \A k \in Requests : loop[k] = "scheduled" => loop'[k] = "scheduled"
      BY <2>3, <2>5
    <3> QED BY <2>1, <2>2, <3>1, <3>2, <3>3 DEF RefreshInv, Working, requests, screen
  <2> QED BY <2>6, <2>7
<1>34. CASE UNCHANGED vars
  BY <1>34 DEF RefreshInv, Working, vars, requests, screen, refresh, effects
<1> QED BY <1>1, <1>2, <1>3, <1>4, <1>5, <1>6, <1>7, <1>8, <1>9, <1>10, <1>11, <1>12, <1>13,
    <1>14, <1>15, <1>16, <1>17, <1>18, <1>19, <1>20, <1>21, <1>22, <1>23, <1>24, <1>25, <1>26,
    <1>27, <1>28, <1>29, <1>30, <1>31, <1>32, <1>33, <1>34 DEF Next, Handles, Refreshes

\* Every step keeps the answers true.
LEMMA KeepsTrue ==
  ASSUME TInv, \A r \in Requests : AnswerInv(r) /\ RenderInv(r) /\ AnswerTrue(r), [Next]_vars
  PROVE  (\A r \in Requests : AnswerTrue(r))'
<1> SUFFICES ASSUME NEW q \in Requests PROVE AnswerTrue(q)'
  OBVIOUS
<1> USE RequestsAssumption, KindsAssumption, PreferencesAssumption, BoundsAssumption
<1>1. ASSUME NEW r \in Requests, Submit(r) PROVE AnswerTrue(q)'
  BY <1>1 DEF Submit, AnswerInv, AnswerTrue, screen, effects
<1>2. ASSUME NEW r \in Requests, Build(r) PROVE AnswerTrue(q)'
  BY <1>2 DEF Build, Goes, AnswerTrue, screen, effects
<1>3. ASSUME NEW r \in Requests, Load(r) PROVE AnswerTrue(q)'
  BY <1>3 DEF Load, Goes, AnswerTrue, screen, effects
<1>4. ASSUME NEW r \in Requests, AddTransaction(r) PROVE AnswerTrue(q)'
  BY <1>4 DEF AddTransaction, Goes, AnswerTrue, screen, effects
<1>5. ASSUME NEW r \in Requests, Extract(r) PROVE AnswerTrue(q)'
  BY <1>5 DEF Extract, Goes, AnswerTrue, screen, effects
<1>6. ASSUME NEW r \in Requests, CreateInterface(r) PROVE AnswerTrue(q)'
  BY <1>6 DEF CreateInterface, Goes, AnswerInv, AnswerTrue, effects
<1>7. ASSUME NEW r \in Requests, RenderPrices(r) PROVE AnswerTrue(q)'
  BY <1>7 DEF RenderPrices, Goes, AnswerTrue, effects
<1>8. ASSUME NEW r \in Requests, RenderScan(r) PROVE AnswerTrue(q)'
  BY <1>8 DEF RenderScan, Goes, AnswerTrue, effects
<1>9. ASSUME NEW r \in Requests, RenderClosed(r) PROVE AnswerTrue(q)'
  BY <1>9 DEF RenderClosed, Answers, TInv, EffectTypes, AnswerInv, AnswerTrue, RenderInv,
      Rendering, screen, effects, Excuse
<1>10. ASSUME NEW r \in Requests, SetName(r) PROVE AnswerTrue(q)'
  BY <1>10 DEF SetName, Goes, AnswerTrue, screen, effects
<1>11. ASSUME NEW r \in Requests, ScheduleRefresh(r) PROVE AnswerTrue(q)'
  BY <1>11 DEF ScheduleRefresh, Goes, AnswerTrue, screen, effects
<1>12. ASSUME NEW r \in Requests, Decide(r) PROVE AnswerTrue(q)'
  BY <1>12 DEF Decide, Goes, Answers, TInv, RequestTypes, AnswerTrue, screen, effects
<1>13. ASSUME NEW r \in Requests, Approve(r) PROVE AnswerTrue(q)'
  BY <1>13 DEF Approve, Goes, AnswerTrue, screen, effects
<1>14. ASSUME NEW r \in Requests, Reject(r) PROVE AnswerTrue(q)'
  BY <1>14 DEF Reject, Answers, AnswerInv, AnswerTrue, screen, effects
<1>15. ASSUME NEW r \in Requests, Sign(r) PROVE AnswerTrue(q)'
  BY <1>15 DEF Sign, Goes, Answers, TInv, RequestTypes, AnswerInv, AnswerTrue, Sending, screen
<1>16. ASSUME NEW r \in Requests, Send(r) PROVE AnswerTrue(q)'
  BY <1>16 DEF Send, Goes, AnswerInv, AnswerTrue, screen
<1>17. ASSUME NEW r \in Requests, Monitor(r) PROVE AnswerTrue(q)'
  BY <1>17 DEF Monitor, Answers, AnswerInv, AnswerTrue, screen, effects
<1>18. ASSUME NEW r \in Requests, Fail(r) PROVE AnswerTrue(q)'
  <2>1. CASE q # r
    BY <1>18, <2>1 DEF Fail, Answers, AnswerTrue, EffectTypes, screen, TInv, Excuse
  <2>2. CASE q = r /\ at[r] = "sending"
    BY <1>18, <2>2 DEF Fail, Answers, AnswerInv, AnswerTrue, RequestTypes, EffectTypes, screen,
        TInv, Excuse
  <2>3. CASE q = r /\ at[r] = "monitoring"
    BY <1>18, <2>3 DEF Fail, Answers, AnswerInv, AnswerTrue, EffectTypes, screen, TInv, Excuse
  <2>4. CASE q = r /\ at[r] \notin {"sending", "monitoring"}
    BY <1>18, <2>4 DEF Fail, Answers, AnswerInv, AnswerTrue, RequestTypes, EffectTypes, screen,
        TInv, Early, Excuse
  <2> QED BY <2>1, <2>2, <2>3, <2>4
<1>19. ASSUME NEW r \in Requests, NEW result \in {"yes", "no"}, Resolve(r, result) PROVE AnswerTrue(q)'
  BY <1>19 DEF Resolve, OfTheScreen, AnswerInv, AnswerTrue, vars, requests, effects
<1>20. ASSUME NEW r \in Requests, ClickAdvanced(r) PROVE AnswerTrue(q)'
  BY <1>20 DEF ClickAdvanced, AnswerTrue, requests, effects
<1>21. ASSUME ShowAdvanced PROVE AnswerTrue(q)'
  BY <1>21 DEF ShowAdvanced, TInv, EffectTypes, AnswerTrue, requests, effects, Excuse
<1>22. ASSUME Switch PROVE AnswerTrue(q)'
  BY <1>22 DEF Switch, AnswerTrue, requests, screen, effects
<1>23. ASSUME NEW l \in Requests, Due(l) PROVE AnswerTrue(q)'
  BY <1>23 DEF Due, AnswerTrue, requests, screen, effects
<1>24. ASSUME NEW l \in Requests, Dropped(l) PROVE AnswerTrue(q)'
  BY <1>24 DEF Dropped, AnswerTrue, requests, screen, effects
<1>25. ASSUME NEW l \in Requests, Ends(l) PROVE AnswerTrue(q)'
  BY <1>25 DEF Ends, AnswerTrue, requests, screen, effects
<1>26. ASSUME NEW l \in Requests, ReadContext(l) PROVE AnswerTrue(q)'
  BY <1>26 DEF ReadContext, AnswerTrue, requests, screen, effects
<1>27. ASSUME NEW l \in Requests, MarkFetching(l) PROVE AnswerTrue(q)'
  BY <1>27 DEF MarkFetching, Writes, AnswerTrue, requests, effects
<1>28. ASSUME NEW l \in Requests, RereadContext(l) PROVE AnswerTrue(q)'
  BY <1>28 DEF RereadContext, AnswerTrue, requests, screen, effects
<1>29. ASSUME NEW l \in Requests, Rescan(l) PROVE AnswerTrue(q)'
  BY <1>29 DEF Rescan, Writes, AnswerTrue, requests, effects
<1>30. ASSUME NEW l \in Requests, Reschedule(l) PROVE AnswerTrue(q)'
  BY <1>30 DEF Reschedule, AnswerTrue, requests, screen, effects
<1>31. ASSUME NEW l \in Requests, Restore(l) PROVE AnswerTrue(q)'
  BY <1>31 DEF Restore, AnswerTrue, requests, screen, effects
<1>32. ASSUME NEW l \in Requests, RollBack(l) PROVE AnswerTrue(q)'
  <2>1. excuse[q] \subseteq excuse'[q] /\ excuse'[q] \subseteq excuse[q] \cup {"overwritten"}
    <3>1. Writes(l, [held[l] EXCEPT !.fetching = FALSE]) /\ loop[l] \notin {"none", "scheduled"}
      BY <1>32 DEF RollBack, Turns
    <3> QED BY <3>1, WritesDoes
  <2>2. \A why : why # "overwritten" => (why \in excuse'[q] <=> why \in excuse[q])
    BY <2>1
  <2>3. UNCHANGED <<requests, dialog, effects>>
    BY <1>32 DEF RollBack
  <2> QED BY <2>2, <2>3 DEF AnswerTrue, requests, effects
<1>33. ASSUME NEW l \in Requests, RefreshFails(l) PROVE AnswerTrue(q)'
  <2>1. excuse[q] \subseteq excuse'[q] /\ excuse'[q] \subseteq excuse[q] \cup {"rejected"}
    BY <1>33, FailureDoes
  <2>2. \A why : why # "rejected" => (why \in excuse'[q] <=> why \in excuse[q])
    BY <2>1
  <2>3. UNCHANGED <<requests, screen, effects>>
    BY <1>33 DEF RefreshFails
  <2> QED BY <2>2, <2>3 DEF AnswerTrue, requests, screen, effects
<1>34. CASE UNCHANGED vars
  BY <1>34 DEF TInv, RequestTypes, ScreenTypes, EffectTypes, AnswerInv, AnswerTrue, RenderInv,
      Early, Rendering, Sending, Transactions, vars, requests, screen, refresh, effects
<1> QED BY <1>1, <1>2, <1>3, <1>4, <1>5, <1>6, <1>7, <1>8, <1>9, <1>10, <1>11, <1>12, <1>13,
    <1>14, <1>15, <1>16, <1>17, <1>18, <1>19, <1>20, <1>21, <1>22, <1>23, <1>24, <1>25, <1>26,
    <1>27, <1>28, <1>29, <1>30, <1>31, <1>32, <1>33, <1>34 DEF Next, Handles, Refreshes

------------------------------------------------------------------------------
(* The theorems.                                                           *)

AllInv ==
  /\ TInv
  /\ \A r \in Requests : AnswerInv(r) /\ RenderInv(r)
  /\ \A r \in Requests : AnswerTrue(r)
  /\ \A r \in Requests : ListInv(r)
  /\ \A r \in Requests : VerdictInv(r)
  /\ \A r \in Requests : RefreshInv(r)

\* Nothing has been asked at first.
LEMMA InitAllInv == Init => AllInv
<1> SUFFICES ASSUME Init PROVE AllInv
  OBVIOUS
<1> USE RequestsAssumption, KindsAssumption, BoundsAssumption
<1>1. Unread \in Contexts
  BY DEF Unread, Contexts
<1>2. RequestTypes /\ ScreenTypes
  BY <1>1 DEF Init, RequestTypes, ScreenTypes, Steps
<1>3. LoopTypes /\ NameInv
  BY DEF Init, LoopTypes, NameInv, LoopSteps
<1>4. EffectTypes
  BY DEF Init, EffectTypes
<1>5. ASSUME NEW r \in Requests
      PROVE  AnswerInv(r) /\ RenderInv(r) /\ AnswerTrue(r) /\ ListInv(r) /\ VerdictInv(r) /\ RefreshInv(r)
  <2>1. AnswerInv(r)
    BY DEF Init, AnswerInv, AllKinds
  <2>2. RenderInv(r)
    BY DEF Init, RenderInv, Rendering
  <2>3. AnswerTrue(r)
    BY DEF Init, AnswerTrue
  <2>4. ListInv(r) /\ VerdictInv(r) /\ RefreshInv(r)
    BY DEF Init, ListInv, VerdictInv, RefreshInv, Transactions
  <2> QED BY <2>1, <2>2, <2>3, <2>4
<1> QED BY <1>2, <1>3, <1>4, <1>5 DEF AllInv, TInv

\* Each step keeps all of it.
LEMMA StepAllInv == AllInv /\ [Next]_vars => AllInv'
<1> SUFFICES ASSUME AllInv, [Next]_vars PROVE AllInv'
  OBVIOUS
<1>1. TInv'
  BY KeepsRequestTypes, KeepsLoopTypes, KeepsNames, KeepsScreenTypes, KeepsEffectTypes DEF AllInv,
      TInv
<1>2. (\A r \in Requests : AnswerInv(r))' /\ (\A r \in Requests : RenderInv(r))'
  BY KeepsAnswers, KeepsRender DEF AllInv
<1>3. (\A r \in Requests : AnswerTrue(r))'
  BY KeepsTrue DEF AllInv
<1>4. (\A r \in Requests : ListInv(r))'
  BY KeepsListed DEF AllInv
<1>5. (\A r \in Requests : VerdictInv(r))'
  BY KeepsVerdict DEF AllInv
<1>6. (\A r \in Requests : RefreshInv(r))'
  BY KeepsRefreshed DEF AllInv
<1> QED BY <1>1, <1>2, <1>3, <1>4, <1>5, <1>6 DEF AllInv

\* All of it holds always.
LEMMA AlwaysAllInv == Spec => []AllInv
BY InitAllInv, StepAllInv, PTL DEF Spec

\* Type correctness: variables hold what the code's declarations say; nothing is sent that is
\* not signed, and a refresh has an interface exactly while it runs.
THEOREM TypeCorrect == Spec => []TypeOK
<1>1. AllInv => TypeOK
  BY TypesInGroups DEF AllInv
<1> QED BY <1>1, AlwaysAllInv, PTL

\* What submitRequest and onClientRequest answer is what was confirmed, signed and sent, but
\* for the reasons that the property lists.
THEOREM AnswersTrue == Spec => []AnswersTrueUnlessExcused
<1>1. AllInv => AnswersTrueUnlessExcused
  BY DEF AllInv, AnswerTrue, AnswersTrueUnlessExcused
<1> QED BY <1>1, AlwaysAllInv, PTL

\* An open dialog of ConfirmationHandler lists the instructions of its own transaction and
\* cannot be confirmed over an error of the latest scan, but for the reasons that the
\* property lists.
THEOREM DialogsShowTruth == Spec => []ShownUnlessExcused
<1>1. AllInv => ShownUnlessExcused
  BY DEF AllInv, ListInv, Lists, VerdictInv, ShownUnlessExcused, CanConfirm
<1> QED BY <1>1, AlwaysAllInv, PTL

\* refreshConfirmationEstimation goes on for an open dialog, and does not leave it marked as
\* fetching, but for the reasons that the property lists.
THEOREM DialogsRefreshed == Spec => []RefreshedUnlessExcused
<1>1. AllInv => RefreshedUnlessExcused
  BY DEF AllInv, RefreshInv, RefreshedUnlessExcused, Rendering
<1> QED BY <1>1, AlwaysAllInv, PTL
================================================================================
