------------------------------- MODULE SendFlow --------------------------------
(***************************************************************************)
(* The send screens: the event handlers of SendForm and of                 *)
(* TransactionConfirmation, the debounced build of the transaction message *)
(* and the background event refreshSend.                                   *)
(*                                                                         *)
(* An event comes with the context the interface had when the user acted.  *)
(* Handlers, builds and the refresh run side by side, and each writes a    *)
(* whole context, made from one it was given or read before.  Account,     *)
(* asset and amount of the form are one field here, `amount`.              *)
(***************************************************************************)
EXTENDS Naturals, FiniteSets, Sequences

CONSTANTS
  Jobs,          \* handlers that can be waiting for an answer at the same time
  Builds,        \* builds of a message that can
  Recipients,    \* addresses and domains that can be typed
  Domains,       \* those of them that have to be resolved first
  Amounts,       \* valid amounts that can be typed
  Prices,        \* of the token, in the user's currency
  None,
  FirstPrice,    \* the one that renderSend got
  MaxEvents, MaxWaiting,
  MaxDisturbances \* bounds: of events, of those on their way, and of refreshes, failures and new prices

Stages == {"form", "confirmation", "pending", "success", "failure"}

\* A message, and the context of the interface.
Messages == [to : Recipients, tokens : Nat, number : Nat]
Contexts ==
  [text : Recipients \cup {None}, to : Recipients \cup {None}, amount : Nat, fiat : BOOLEAN,
   price : Prices, message : Messages \cup {None}, building : BOOLEAN, loading : BOOLEAN, stage : Stages]

ASSUME RecipientsAssumption == Domains \subseteq Recipients
ASSUME NoneAssumption == None \notin Recipients /\ None \notin Messages /\ None \notin Contexts
ASSUME AmountsAssumption == Amounts \cup Prices \subseteq Nat \ {0} /\ FirstPrice \in Prices
ASSUME SendBoundsAssumption == {MaxEvents, MaxWaiting, MaxDisturbances} \subseteq Nat

VARIABLES
  ui,       \* the context of the interface
  open,     \* the interface is on the screen
  key,      \* mapInterfaceNameToId has its name
  inbox,    \* events on their way: the kind, the context of the moment and the input
  job,      \* handlers that wait for an answer, with the context they hold
  timer,    \* the context of the build that is debounced, or None
  build,    \* of the builds
  refresh,  \* the context that refreshSend holds, or None
  sent,     \* the messages that were signed and sent
  typed,    \* what the inputs of the form show
  built,    \* history: builds begun
  amiss,    \* history: a message was signed that is not the one confirmed
  mishaps,  \* history: what happened
  allowance \* what is left of the bounds

screen == <<ui, open, typed>>
building == <<timer, build, built>>
events == <<inbox, job>>
sendVars == <<screen, key, events, building, refresh, sent, amiss, mishaps, allowance>>

Reasons ==
  {"early",     \* the user continued before the message for what was typed last was built
   \* An older context was written over a newer one:
   "event",     \* the one that came with an event
   "answer",    \* the one a handler held while it waited for an answer
   "build",     \* the one a build was begun with
   "merge",     \* the one a build merges its result into
   "refresh",   \* the one of the refresh
   "disorder",  \* a build ended after one that was begun later
   "repriced",  \* the price changed of an amount that was given in the user's currency
   "failed",    \* a domain was not resolved or a message not built
   "lost"}      \* the sending was reported as failed and had happened

\* Sums of the user's currency are multiples of the price, in the smallest unit of the token.
Tokens(context) == IF context.fiat THEN context.amount \div context.price ELSE context.amount

\* What the confirmation shows, and what a message does.
Shown(context) == <<context.to, Tokens(context)>>
Does(message) == <<message.to, message.tokens>>

\* sendFieldsAreValid.  Nothing typed, or nothing valid, is None or 0.
Valid(context) == context.to # None /\ context.amount # 0

IsContext(c) ==
  /\ c \in Contexts
  /\ c.message # None => c.message.number <= built
  /\ c.building => c.message = None

Inputs == Recipients \cup {None} \cup Nat
EventKinds == {"recipient", "amount", "swap", "send", "back", "confirm", "cancel"}
JobKinds == {"idle", "resolving", "pricing", "approving", "signing", "sent", "not sent"}
BuildKinds == {"idle", "building", "merging"}

SendTypeOK ==
  /\ IsContext(ui)
  /\ {open, key, amiss} \subseteq BOOLEAN
  /\ inbox \in Seq([at : EventKinds, context : Contexts, input : Inputs])
  /\ job \in [Jobs -> [at : JobKinds, context : Contexts \cup {None}, input : Inputs]]
  /\ {timer, refresh} \subseteq Contexts \cup {None}
  /\ build \in [Builds -> [at : BuildKinds, context : Contexts \cup {None},
                           message : Messages \cup {None}, number : Nat]]
  /\ sent \subseteq Messages
  /\ typed \in [text : Recipients \cup {None}, amount : Nat]
  /\ built \in Nat
  /\ mishaps \subseteq Reasons
  /\ allowance \in [events : Nat, disturbances : Nat]
  /\ key => open

Idle == [at |-> "idle", context |-> None, input |-> None]
NoBuild == [at |-> "idle", context |-> None, message |-> None, number |-> 0]

\* renderSend has shown the form, with the key and without a recipient; or the user has
\* filled it in, one field after the other. An amount is first one of the token.
SendInit ==
  /\ \E r \in (Recipients \ Domains) \cup {None}, a \in Amounts :
       LET form == [text |-> r, to |-> r, amount |-> IF r = None THEN 0 ELSE a, fiat |-> FALSE, price |-> FirstPrice,
                    message |-> None, building |-> FALSE, loading |-> FALSE, stage |-> "form"]
       IN /\ ui = IF r = None THEN form
                  ELSE [form EXCEPT !.message = [to |-> r, tokens |-> Tokens(form), number |-> 0]]
          /\ typed = [text |-> r, amount |-> form.amount]
  /\ open = TRUE /\ key = TRUE
  /\ inbox = <<>>
  /\ job = [j \in Jobs |-> Idle]
  /\ timer = None
  /\ build = [b \in Builds |-> NoBuild]
  /\ refresh = None
  /\ sent = {} /\ built = 0 /\ amiss = FALSE /\ mishaps = {}
  /\ allowance = [events |-> MaxEvents, disturbances |-> MaxDisturbances]

Use(what) == allowance[what] > 0 /\ allowance' = [allowance EXCEPT ![what] = @ - 1]

\* snap_updateInterface: `who` writes `context`, made from `old`.
Writes(who, old, context, why) ==
  /\ ui' = context
  /\ mishaps' = UNION {mishaps, why, IF ui = old THEN {} ELSE {who},
                      IF context.fiat /\ context.price # ui.price THEN {"repriced"} ELSE {}}

Finishes(j) == job' = [job EXCEPT ![j] = Idle]
Starts(at, context, new) ==
  \E j \in Jobs : /\ job[j] = Idle
                  /\ job' = [job EXCEPT ![j] = [at |-> at, context |-> context, input |-> new]]

\* buildTransactionMessageAndUpdateInterface: lodash keeps the context of the last call.
Debounces(context) == timer' = context

------------------------------------------------------------------------------
(* The user.                                                               *)

\* An event, dispatched with the context of the moment.
Dispatch(at, input) ==
  /\ open /\ Use("events") /\ Len(inbox) < MaxWaiting
  /\ inbox' = Append(inbox, [at |-> at, context |-> ui, input |-> input])
  /\ UNCHANGED <<ui, open, key, job, building, refresh, sent, amiss>>

TypeRecipient ==
  /\ ui.stage = "form"
  /\ \E r \in Recipients \cup {None} : Dispatch("recipient", r) /\ typed' = [typed EXCEPT !.text = r]
  /\ UNCHANGED mishaps

TypeAmount ==
  /\ ui.stage = "form" /\ ui.text # None
  /\ \E a \in Amounts \cup {0} : Dispatch("amount", a) /\ typed' = [typed EXCEPT !.amount = a]
  /\ UNCHANGED mishaps

ClickSwap == ui.stage = "form" /\ ui.text # None /\ Dispatch("swap", None) /\ UNCHANGED <<typed, mishaps>>

CanReview == ui.text # None /\ ui.amount # 0 /\ ~ui.building /\ ui.message # None

StillBuilding == timer # None \/ \E b \in Builds : build[b] # NoBuild

ClickSend ==
  /\ ui.stage = "form" /\ CanReview
  /\ Dispatch("send", None)
  /\ mishaps' = IF StillBuilding THEN mishaps \cup {"early"} ELSE mishaps
  /\ UNCHANGED typed

ClickBack == ui.stage = "confirmation" /\ Dispatch("back", None) /\ UNCHANGED <<typed, mishaps>>
ClickConfirm ==
  ui.stage = "confirmation" /\ ~ui.loading /\ Dispatch("confirm", None) /\ UNCHANGED <<typed, mishaps>>

\* Cancel on both screens, and back on the form.
ClickCancel ==
  ui.stage \in {"form", "confirmation"} /\ Dispatch("cancel", None) /\ UNCHANGED <<typed, mishaps>>

------------------------------------------------------------------------------
(* The handlers of the form.                                               *)

\* Events are taken up in their order; up to its first request a handler is not interrupted.
Takes(at) == inbox # <<>> /\ Head(inbox).at = at /\ inbox' = Tail(inbox)
base == Head(inbox).context
input == Head(inbox).input

\* A domain is resolved first: until then toAddress is the one before.
OnDestinationChange ==
  /\ Takes("recipient")
  /\ \/ /\ input \in Domains
        /\ LET context == [base EXCEPT !.text = input] IN
           Writes("event", base, context, {}) /\ Starts("resolving", context, input)
        /\ UNCHANGED timer
     \/ /\ input \notin Domains
        /\ LET context == [base EXCEPT !.text = input, !.to = input] IN
           /\ Writes("event", base, context, {})
           /\ IF input = None THEN UNCHANGED timer ELSE Debounces(context)
        /\ UNCHANGED job
  /\ UNCHANGED <<open, typed, key, build, built, refresh, sent, amiss, allowance>>

\* Account, asset, amount and max.  What makes the amount invalid is written, unless it was
\* before; another asset or the maximum of nothing asks for a build that will not be made.
OnAmountChange ==
  LET context == [base EXCEPT !.amount = input] IN
  /\ Takes("amount")
  /\ \/ Writes("event", base, context, {}) /\ Debounces(context)
     \/ input = 0 /\ base.amount # 0 /\ Writes("event", base, context, {}) /\ UNCHANGED timer
     \/ /\ input = 0 /\ base.amount = 0
        /\ mishaps' = IF ui = base THEN mishaps ELSE mishaps \cup {"event"}
        /\ UNCHANGED <<ui, timer>>
  /\ UNCHANGED <<open, typed, key, job, build, built, refresh, sent, amiss, allowance>>

\* Mutant of OnSwapCurrency: the amount stays what it was in the other currency.
OnSwapCurrencyKeepingAmount ==
  /\ Takes("swap")
  /\ Writes("event", base, [base EXCEPT !.fiat = ~@], {})
  /\ UNCHANGED <<open, typed, key, job, building, refresh, sent, amiss, allowance>>

\* The amount is converted, and nothing built.
OnSwapCurrency ==
  LET context == [base EXCEPT !.fiat = ~@,
                              !.amount = IF base.fiat THEN @ \div base.price ELSE @ * base.price] IN
  /\ Takes("swap")
  /\ Writes("event", base, context, {})
  /\ typed' = [typed EXCEPT !.amount = context.amount]
  /\ UNCHANGED <<open, key, job, building, refresh, sent, amiss, allowance>>

OnSend ==
  LET context == [base EXCEPT !.stage = "confirmation", !.loading = TRUE] IN
  /\ Takes("send")
  /\ IF Valid(base) THEN Writes("event", base, context, {}) /\ Starts("pricing", context, None)
                    ELSE UNCHANGED <<ui, job, mishaps>>
  /\ UNCHANGED <<open, typed, key, building, refresh, sent, amiss, allowance>>

OnBack ==
  /\ Takes("back")
  /\ Writes("event", base, [base EXCEPT !.stage = "form"], {})
  /\ typed' = [text |-> base.text, amount |-> base.amount]
  /\ UNCHANGED <<open, key, job, building, refresh, sent, amiss, allowance>>

\* The interface is resolved and its name deleted.  All that is on its way finds it gone, and
\* has no effect any more, but a transaction that is being signed.
OnCancel ==
  /\ inbox # <<>> /\ Head(inbox).at = "cancel"
  /\ open' = FALSE /\ key' = FALSE
  /\ inbox' = <<>> /\ timer' = None /\ refresh' = None
  /\ job' = [j \in Jobs |-> IF job[j].at \in {"resolving", "pricing", "approving"} THEN Idle ELSE job[j]]
  /\ build' = [b \in Builds |-> NoBuild]
  /\ UNCHANGED <<ui, typed, built, sent, amiss, mishaps, allowance>>

\* What an approval starts is scheduled before anything is shown.
OnConfirm ==
  /\ Takes("confirm")
  /\ IF base.message = None
       THEN Writes("event", base, [base EXCEPT !.stage = "form"], {}) /\ UNCHANGED job
       ELSE Starts("approving", base, None) /\ UNCHANGED <<ui, mishaps>>
  /\ UNCHANGED <<open, typed, key, building, refresh, sent, amiss, allowance>>

------------------------------------------------------------------------------
(* What they do with the answers.                                          *)

At(j, at) == job[j].at = at
held(j) == job[j].context

\* Mutant of OnDomainResolved: the message is not built again for the address.
OnDomainResolvedWithoutBuild(j) ==
  /\ At(j, "resolving")
  /\ Writes("answer", held(j), [held(j) EXCEPT !.to = job[j].input], {})
  /\ Finishes(j)
  /\ UNCHANGED <<open, typed, key, inbox, building, refresh, sent, amiss, allowance>>

\* An address that was not found makes the field invalid; the build is asked for all the same.
OnDomainResolved(j) ==
  /\ At(j, "resolving")
  /\ \E r \in {job[j].input, None} :
       LET context == [held(j) EXCEPT !.text = r, !.to = r] IN
       /\ IF r = None THEN Use("disturbances") ELSE UNCHANGED allowance
       /\ Writes("answer", held(j), context, IF r = None THEN {"failed"} ELSE {})
       /\ Debounces(context)
  /\ Finishes(j)
  /\ UNCHANGED <<open, typed, key, inbox, build, built, refresh, sent, amiss>>

\* Domains, prices and image are there; the prices may have been refused.
OnPriced(j) ==
  /\ At(j, "pricing")
  /\ \E p \in Prices :
       /\ IF p = held(j).price THEN UNCHANGED allowance ELSE Use("disturbances")
       /\ Writes("answer", held(j), [held(j) EXCEPT !.loading = FALSE, !.price = p], {})
  /\ Finishes(j)
  /\ UNCHANGED <<open, typed, key, inbox, building, refresh, sent, amiss>>

OnApproved(j) ==
  LET context == [held(j) EXCEPT !.stage = "pending"] IN
  /\ At(j, "approving")
  /\ Writes("answer", held(j), context, {})
  /\ job' = [job EXCEPT ![j].at = "signing", ![j].context = context]
  /\ UNCHANGED <<open, typed, key, inbox, building, refresh, sent, amiss, allowance>>

\* Mutant of SignAndSend: what it throws is taken for an answer.
SignAndSendIgnoringErrors(j) ==
  /\ At(j, "signing")
  /\ \/ sent' = sent \cup {held(j).message} /\ UNCHANGED allowance
     \/ Use("disturbances") /\ UNCHANGED sent
  /\ job' = [job EXCEPT ![j].at = "sent"]
  /\ UNCHANGED <<screen, key, inbox, building, refresh, amiss, mishaps>>

\* signAndSendTransaction answers, or throws; it may throw when all is done.
SignAndSend(j) ==
  /\ At(j, "signing")
  /\ amiss' = (amiss \/ Shown(held(j)) # Does(held(j).message))
  /\ \/ /\ sent' = sent \cup {held(j).message}
        /\ job' = [job EXCEPT ![j].at = "sent"]
        /\ UNCHANGED <<mishaps, allowance>>
     \/ /\ Use("disturbances")
        /\ job' = [job EXCEPT ![j].at = "not sent"]
        /\ \/ UNCHANGED <<sent, mishaps>>
           \/ sent' = sent \cup {held(j).message} /\ mishaps' = mishaps \cup {"lost"}
  /\ UNCHANGED <<screen, key, inbox, building, refresh>>

\* The context of the event becomes that of success or failure.
Report(j) ==
  /\ job[j].at \in {"sent", "not sent"}
  /\ IF open THEN Writes("answer", held(j),
                         [held(j) EXCEPT !.stage = IF At(j, "sent") THEN "success" ELSE "failure"], {})
             ELSE UNCHANGED <<ui, mishaps>>
  /\ key' = FALSE
  /\ Finishes(j)
  /\ UNCHANGED <<open, typed, inbox, building, refresh, sent, amiss, allowance>>

------------------------------------------------------------------------------
(* The build: a later call cancels the promise of an earlier one, which    *)
(* nobody needs, and not its work.                                         *)

BuildStarts(b) ==
  /\ timer # None /\ build[b] = NoBuild
  /\ timer' = None
  /\ IF Valid(timer)
       THEN /\ Writes("build", timer, [timer EXCEPT !.building = TRUE, !.message = None], {})
            /\ built' = built + 1
            /\ build' = [build EXCEPT ![b] =
                 [at |-> "building", context |-> None, number |-> built',
                  message |-> [to |-> timer.to, tokens |-> Tokens(timer), number |-> built']]]
       ELSE UNCHANGED <<ui, mishaps, build, built>>
  /\ UNCHANGED <<open, typed, key, events, refresh, sent, amiss, allowance>>

\* Whether it succeeded or not, the interface's context is read then.
BuildEnds(b) ==
  /\ build[b].at = "building"
  /\ \/ /\ build' = [build EXCEPT ![b].at = "merging", ![b].context = ui]
        /\ UNCHANGED <<mishaps, allowance>>
     \/ /\ Use("disturbances")
        /\ build' = [build EXCEPT ![b].at = "merging", ![b].context = ui, ![b].message = None]
        /\ mishaps' = mishaps \cup {"failed"}
  /\ UNCHANGED <<screen, key, events, timer, built, refresh, sent, amiss>>

BuildMerges(b) ==
  /\ build[b].at = "merging"
  /\ Writes("merge", build[b].context, [build[b].context EXCEPT !.message = build[b].message, !.building = FALSE],
            IF build[b].number < built THEN {"disorder"} ELSE {})
  /\ build' = [build EXCEPT ![b] = NoBuild]
  /\ UNCHANGED <<open, typed, key, events, timer, built, refresh, sent, amiss, allowance>>

------------------------------------------------------------------------------
(* refreshSend, every 30 seconds while the form has its name.              *)

RefreshReads ==
  /\ refresh = None /\ key
  /\ Use("disturbances")
  /\ refresh' = ui
  /\ UNCHANGED <<screen, key, events, building, sent, amiss, mishaps>>

RefreshWrites ==
  /\ refresh # None
  /\ \E p \in Prices : Writes("refresh", refresh, [refresh EXCEPT !.price = p], {})
  /\ refresh' = None
  /\ UNCHANGED <<open, typed, key, events, building, sent, amiss, allowance>>

------------------------------------------------------------------------------
Handles(j) ==
  OnDomainResolved(j) \/ OnPriced(j) \/ OnApproved(j) \/ SignAndSend(j) \/ Report(j)

TakesUp ==
  OnDestinationChange \/ OnAmountChange \/ OnSwapCurrency \/ OnSend \/ OnBack \/ OnCancel \/ OnConfirm

BuildsOn(b) == BuildStarts(b) \/ BuildEnds(b) \/ BuildMerges(b)

SendNext ==
  \/ TypeRecipient \/ TypeAmount \/ ClickSwap \/ ClickSend \/ ClickBack \/ ClickConfirm \/ ClickCancel
  \/ TakesUp
  \/ \E j \in Jobs : Handles(j)
  \/ \E b \in Builds : BuildsOn(b)
  \/ RefreshReads \/ RefreshWrites

SendSpec ==
  /\ SendInit /\ [][SendNext]_sendVars /\ WF_sendVars(TakesUp)
  /\ \A j \in Jobs : WF_sendVars(Handles(j))
  /\ \A b \in Builds : WF_sendVars(BuildsOn(b))
  /\ WF_sendVars(RefreshWrites)
------------------------------------------------------------------------------
(* Properties.                                                             *)

\* What is signed is what the confirmation showed when it was confirmed, recipient and amount;
\* but when the user went on before the new message was built, an older context was written
\* over a newer one, an older build ended last, or the price of an amount in the user's
\* currency changed.  This is about onConfirmButtonClick, and all that writes the context.
SignedAsShownUnlessExcused ==
  amiss => mishaps \cap {"early", "event", "answer", "merge", "refresh", "disorder", "repriced"} # {}

\* Success is shown of what was sent only; and unless an older context was written over a newer
\* one, one message is sent at most, none while the form or the confirmation is shown, and none
\* when failure is, but for a sending that failed after it had happened.
SentAsToldUnlessExcused ==
  /\ ui.stage = "success" => sent # {}
  /\ \/ mishaps \cap {"event", "answer", "build", "merge", "refresh"} # {}
     \/ /\ Cardinality(sent) <= 1
        /\ ui.stage \in {"form", "confirmation"} => sent = {}
        /\ ui.stage = "failure" => sent = {} \/ "lost" \in mishaps

Settled == ~StillBuilding /\ inbox = <<>> /\ refresh = None /\ \A j \in Jobs : job[j] = Idle

\* When all that was on its way is done, the form holds what its inputs show, is not building,
\* and has the message of that when it is complete (which enables its button); unless an older
\* context was written over a newer one, an older build ended last, the price changed, or a
\* domain or a message failed.
FilledUnlessExcused ==
  open /\ Settled /\ ui.stage = "form" =>
    \/ mishaps \cap {"event", "answer", "build", "merge", "refresh", "disorder", "repriced", "failed"} # {}
    \/ /\ ui.text = typed.text /\ ui.amount = typed.amount /\ ~ui.building
       /\ typed.text # None /\ typed.amount # 0 => ui.message # None /\ Does(ui.message) = Shown(ui)
================================================================================
