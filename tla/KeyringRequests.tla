---------------------------- MODULE KeyringRequests ----------------------------
(***************************************************************************)
(* Keyring.submitRequest and the signing requests of ClientRequestHandler: *)
(* the dialog that asks the user (ConfirmationHandler, render.tsx,         *)
(* events.tsx), the background event that refreshes it                     *)
(* (refreshConfirmationEstimation) and what WalletService does then.       *)
(*                                                                         *)
(* The dialog is on the screen while render still waits for prices and for *)
(* the scan: the user may answer, toggle the details or be refreshed       *)
(* between any two of its steps.  Each writer of the interface writes the  *)
(* whole context it holds.  All dialogs share the key of the refresh, and  *)
(* the object `advanced` of DEFAULT_CONFIRMATION_CONTEXT.                   *)
(***************************************************************************)
EXTENDS Naturals, FiniteSets

CONSTANTS
  Requests, None,
  Kinds,          \* a subset of AllKinds
  Preferences,    \* sets of "simulation" and "validation", as the user may have them
  MaxDisturbances \* bound: rejections, switches of the client, clicks on the details

AllKinds ==
  {"signAndSend", "send",  \* signAndSendTransaction, from a dapp or by confirmSend
   "direct",               \* by the client, which has asked the user itself
   "sign", "message"}      \* signTransaction; signMessage and signIn

ASSUME RequestsAssumption == None \notin Requests \cup AllKinds
ASSUME KindsAssumption == Kinds \subseteq AllKinds
ASSUME PreferencesAssumption == Preferences \subseteq SUBSET {"simulation", "validation"}
ASSUME BoundsAssumption == MaxDisturbances \in Nat

VARIABLES
  kind,         \* of a request
  prefs,        \* the preferences its dialog was created with
  at,           \* the await at which its handler stands
  answer,       \* what was answered
  instructions, \* whose instructions the shared object `advanced` lists
  dialog,       \* "none", "open", or what the user answered
  ui,           \* the context of the interface of a dialog
  toggles,      \* clicks on the details on their way, with the context the host sent along
  nameToId,     \* mapInterfaceNameToId, the key of the confirmation
  loop,         \* the refresh that a dialog's render scheduled: its await
  target,       \* the interface it refreshes
  held,         \* the context it read
  active,       \* the client is unlocked and active
  signed, sent, \* requests whose transaction or message was signed, or sent
  latest,       \* history: the latest scan of a dialog
  excuse,       \* history: what happened to a request
  budget        \* what is left of the bound

requests == <<kind, prefs, at, answer>>
screen == <<dialog, ui, toggles>>
refresh == <<nameToId, loop, target, held>>
effects == <<signed, sent>>
vars == <<requests, instructions, screen, refresh, active, effects, latest, excuse, budget>>

Transactions == {"signAndSend", "send", "sign"}
Sending == {"signAndSend", "send", "direct"}
Contexts == [fetching : BOOLEAN, error : BOOLEAN, instructions : Requests \cup {None}]
Unread == [fetching |-> FALSE, error |-> FALSE, instructions |-> None]

Steps == {"idle", "building", "loading", "adding", "extracting", "creating", "pricing",
          "scanning", "naming", "scheduling", "waiting", "approving", "rejecting",
          "signing", "sending", "monitoring", "answered"}
LoopSteps == {"none", "scheduled", "reading", "marking", "rereading", "scanning",
              "scheduling", "restoring", "rolling back"}
Reasons == {"failed",      \* a request of the handler to the host or the network was rejected
            "closed",      \* the user answered before render had finished with the interface
            "unmonitored", \* the signature monitor failed after the sending
            "lost",        \* the sending was rejected and had happened
            "shared",      \* another dialog extracted its instructions before this one was complete
            "overwritten", \* the interface was written with an older context
            "inactive",    \* a refresh fell due while the client was locked or inactive
            "rejected"}    \* a request of the refresh was rejected

\* Those that are about a dialog that is open.
OfTheScreen == {"shared", "overwritten", "inactive", "rejected"}

TypeOK ==
  /\ kind \in [Requests -> Kinds \cup {None}]
  /\ prefs \in [Requests -> Preferences \cup {{}}]
  /\ at \in [Requests -> Steps]
  /\ answer \in [Requests -> {"none", "ok", "rejected", "failed"}]
  /\ instructions \in Requests \cup {None}
  /\ dialog \in [Requests -> {"none", "open", "yes", "no"}]
  /\ ui \in [Requests -> Contexts]
  /\ toggles \subseteq Requests \X Contexts
  /\ nameToId \in Requests \cup {None}
  /\ loop \in [Requests -> LoopSteps]
  /\ target \in [Requests -> Requests \cup {None}]
  /\ held \in [Requests -> Contexts]
  /\ active \in BOOLEAN
  /\ signed \subseteq Requests
  /\ sent \subseteq signed
  /\ latest \in [Requests -> BOOLEAN]
  /\ excuse \in [Requests -> SUBSET Reasons]
  /\ budget \in 0..MaxDisturbances
  /\ \A r \in Requests : (target[r] = None) = (loop[r] \in {"none", "scheduled"})

Init ==
  /\ kind = [r \in Requests |-> None]
  /\ prefs = [r \in Requests |-> {}]
  /\ at = [r \in Requests |-> "idle"]
  /\ answer = [r \in Requests |-> "none"]
  /\ instructions = None
  /\ dialog = [r \in Requests |-> "none"]
  /\ ui = [r \in Requests |-> Unread]
  /\ toggles = {}
  /\ nameToId = None
  /\ loop = [r \in Requests |-> "none"]
  /\ target = [r \in Requests |-> None]
  /\ held = [r \in Requests |-> Unread]
  /\ active = TRUE
  /\ signed = {} /\ sent = {}
  /\ latest = [r \in Requests |-> FALSE]
  /\ excuse = [r \in Requests |-> {}]
  /\ budget = MaxDisturbances

Disturb == budget > 0 /\ budget' = budget - 1

\* The handler of r goes from one await to the next.
Goes(r, from, to) == at[r] = from /\ at' = [at EXCEPT ![r] = to] /\ UNCHANGED <<kind, prefs, answer>>

\* The handler of r ends, whatever it stands at.
Answers(r, result) ==
  /\ at' = [at EXCEPT ![r] = "answered"]
  /\ answer' = [answer EXCEPT ![r] = result]
  /\ UNCHANGED <<kind, prefs>>

Excuse(r, why) == excuse' = [excuse EXCEPT ![r] = @ \cup {why}]

\* snap_updateInterface: the interface of a dialog that was answered is gone.
Shows(r, context) == dialog[r] = "open" /\ ui' = [ui EXCEPT ![r] = context]

------------------------------------------------------------------------------
(* A request, up to its dialog.                                            *)

Submit(r) ==
  /\ at[r] = "idle"
  /\ \E k \in Kinds, p \in Preferences :
       /\ kind' = [kind EXCEPT ![r] = k]
       /\ prefs' = [prefs EXCEPT ![r] = IF k \in Transactions THEN p ELSE {}]
       /\ at' = [at EXCEPT ![r] = IF k = "send" THEN "building" ELSE "loading"]
  /\ UNCHANGED <<answer, instructions, screen, refresh, active, effects, latest, excuse, budget>>

\* confirmSend builds the transaction and submits the request itself.
Build(r) ==
  /\ Goes(r, "building", "loading")
  /\ UNCHANGED <<instructions, screen, refresh, active, effects, latest, excuse, budget>>

\* The account is there, and the request in order for it.
Load(r) ==
  /\ Goes(r, "loading", CASE kind[r] = "direct" -> "signing"
                          [] kind[r] = "message" -> "creating"
                          [] OTHER -> "adding")
  /\ UNCHANGED <<instructions, screen, refresh, active, effects, latest, excuse, budget>>

AddTransaction(r) ==
  /\ Goes(r, "adding", "extracting")
  /\ UNCHANGED <<instructions, screen, refresh, active, effects, latest, excuse, budget>>

\* Extraction may fail, and leaves the list empty then.  The preferences are still to come.
Extract(r) ==
  /\ Goes(r, "extracting", "creating")
  /\ instructions' \in {r, None}
  /\ excuse' = [q \in Requests |-> IF q # r /\ at[q] \in {"creating", "pricing", "scanning"}
                                     THEN excuse[q] \cup {"shared"} ELSE excuse[q]]
  /\ UNCHANGED <<screen, refresh, active, effects, latest, budget>>

\* What render knows before the scan.
Fetching == [fetching |-> TRUE, error |-> FALSE, instructions |-> instructions]
Scanned(error) == [fetching |-> FALSE, error |-> error, instructions |-> instructions]

CreateInterface(r) ==
  /\ dialog' = [dialog EXCEPT ![r] = "open"]
  /\ IF kind[r] = "message"
       THEN Goes(r, "creating", "waiting") /\ ui' = [ui EXCEPT ![r] = Unread]
       ELSE Goes(r, "creating", "pricing") /\ ui' = [ui EXCEPT ![r] = Fetching]
  /\ UNCHANGED <<instructions, toggles, refresh, active, effects, latest, excuse, budget>>

\* Prices and fee, which may fail each without consequences.
RenderPrices(r) ==
  /\ Goes(r, "pricing", "scanning")
  /\ Shows(r, Fetching)
  /\ UNCHANGED <<instructions, dialog, toggles, refresh, active, effects, latest, excuse, budget>>

RenderScan(r) ==
  /\ Goes(r, "scanning", "naming")
  /\ \E error \in IF prefs[r] = {} THEN {FALSE} ELSE BOOLEAN :
       Shows(r, Scanned(error)) /\ latest' = [latest EXCEPT ![r] = error]
  /\ UNCHANGED <<instructions, dialog, toggles, refresh, active, effects, excuse, budget>>

\* The user has closed the dialog: render fails, whatever the answer was.
RenderClosed(r) ==
  /\ at[r] \in {"pricing", "scanning"} /\ dialog[r] # "open"
  /\ Answers(r, "failed")
  /\ Excuse(r, "closed")
  /\ UNCHANGED <<instructions, screen, refresh, active, effects, latest, budget>>

SetName(r) ==
  /\ Goes(r, "naming", "scheduling")
  /\ nameToId' = r
  /\ UNCHANGED <<instructions, screen, loop, target, held, active, effects, latest, excuse, budget>>

\* Mutant of ScheduleRefresh: the first refresh is left to the dialog that is open already.
ScheduleFirstRefresh(r) ==
  /\ Goes(r, "scheduling", "waiting")
  /\ loop' = [loop EXCEPT ![r] = IF \E q \in Requests : loop[q] # "none" THEN "none" ELSE "scheduled"]
  /\ UNCHANGED <<instructions, screen, nameToId, target, held, active, effects, latest, excuse, budget>>

ScheduleRefresh(r) ==
  /\ Goes(r, "scheduling", "waiting")
  /\ loop' = [loop EXCEPT ![r] = "scheduled"]
  /\ UNCHANGED <<instructions, screen, nameToId, target, held, active, effects, latest, excuse, budget>>

------------------------------------------------------------------------------
(* The user.                                                               *)

CanConfirm(r) == ~ui[r].fetching /\ ~ui[r].error

Resolve(r, result) ==
  /\ dialog[r] = "open"
  /\ result = "yes" => CanConfirm(r)
  /\ dialog' = [dialog EXCEPT ![r] = result]
  /\ ui' = [ui EXCEPT ![r] = Unread]
  /\ toggles' = {t \in toggles : t[1] # r}
  /\ latest' = [latest EXCEPT ![r] = FALSE]
  /\ excuse' = [excuse EXCEPT ![r] = @ \ OfTheScreen]
  /\ UNCHANGED <<requests, instructions, refresh, active, effects, budget>>

ClickAdvanced(r) ==
  /\ dialog[r] = "open" /\ kind[r] \in Transactions
  /\ Disturb
  /\ toggles' = toggles \cup {<<r, ui[r]>>}
  /\ UNCHANGED <<requests, instructions, dialog, ui, refresh, active, effects, latest, excuse>>

\* The context goes back as it came, with the details shown or hidden.
ShowAdvanced ==
  \E t \in toggles :
    LET r == t[1] IN
    /\ toggles' = toggles \ {t}
    /\ IF dialog[r] = "open" /\ ui[r] # t[2]
         THEN ui' = [ui EXCEPT ![r] = t[2]] /\ Excuse(r, "overwritten")
         ELSE UNCHANGED <<ui, excuse>>
    /\ UNCHANGED <<requests, instructions, dialog, refresh, active, effects, latest, budget>>

Switch ==
  /\ Disturb
  /\ active' = ~active
  /\ UNCHANGED <<requests, instructions, screen, refresh, effects, latest, excuse>>

------------------------------------------------------------------------------
(* What follows the answer.                                                *)

\* Mutant of Decide: any answer is a confirmation.
DecideOnAnswer(r) ==
  /\ at[r] = "waiting" /\ dialog[r] # "open"
  /\ Goes(r, "waiting", IF kind[r] = "message" THEN "signing" ELSE "approving")
  /\ UNCHANGED <<instructions, screen, refresh, active, effects, latest, excuse, budget>>

Decide(r) ==
  /\ at[r] = "waiting"
  /\ \/ dialog[r] = "yes" /\ Goes(r, "waiting", IF kind[r] = "message" THEN "signing" ELSE "approving")
     \/ dialog[r] = "no" /\ kind[r] # "message" /\ Goes(r, "waiting", "rejecting")
     \/ dialog[r] = "no" /\ kind[r] = "message" /\ Answers(r, "rejected")
  /\ UNCHANGED <<instructions, screen, refresh, active, effects, latest, excuse, budget>>

Approve(r) ==
  /\ Goes(r, "approving", "signing")
  /\ UNCHANGED <<instructions, screen, refresh, active, effects, latest, excuse, budget>>

Reject(r) ==
  /\ at[r] = "rejecting"
  /\ Answers(r, "rejected")
  /\ UNCHANGED <<instructions, screen, refresh, active, effects, latest, excuse, budget>>

Sign(r) ==
  /\ at[r] = "signing"
  /\ signed' = signed \cup {r}
  /\ IF kind[r] = "message" THEN Answers(r, "ok")
     ELSE Goes(r, "signing", IF kind[r] = "sign" THEN "monitoring" ELSE "sending")
  /\ UNCHANGED <<instructions, screen, refresh, active, sent, latest, excuse, budget>>

Send(r) ==
  /\ Goes(r, "sending", "monitoring")
  /\ sent' = sent \cup {r}
  /\ UNCHANGED <<instructions, screen, refresh, active, signed, latest, excuse, budget>>

Monitor(r) ==
  /\ at[r] = "monitoring"
  /\ Answers(r, "ok")
  /\ UNCHANGED <<instructions, screen, refresh, active, effects, latest, excuse, budget>>

\* A check that does not hold, or a rejection.  What render catches is in the steps above.
Fail(r) ==
  /\ at[r] \notin {"idle", "extracting", "waiting", "answered"}
  /\ Disturb
  /\ Answers(r, "failed")
  /\ CASE at[r] = "sending" -> \/ Excuse(r, "lost") /\ sent' = sent \cup {r}
                               \/ Excuse(r, "failed") /\ UNCHANGED sent
       [] at[r] = "monitoring" -> Excuse(r, "unmonitored") /\ UNCHANGED sent
       [] OTHER -> Excuse(r, "failed") /\ UNCHANGED sent
  /\ UNCHANGED <<instructions, screen, refresh, active, signed, latest>>

------------------------------------------------------------------------------
(* refreshConfirmationEstimation; l is the request whose render began it.  *)

Turns(l, from, to) == loop[l] = from /\ loop' = [loop EXCEPT ![l] = to]
Open(l) == dialog[target[l]] = "open"
Holds(l) == held' = [held EXCEPT ![l] = ui[target[l]]]
Drops(l) == held' = [held EXCEPT ![l] = Unread]
Leaves(l) == Drops(l) /\ target' = [target EXCEPT ![l] = None]

\* Writes a context that it made from the one it holds.
Writes(l, context) ==
  LET r == target[l] IN
  /\ Shows(r, context)
  /\ Drops(l)
  /\ excuse' = [excuse EXCEPT ![r] = IF ui[r] = held[l] THEN @ ELSE @ \cup {"overwritten"}]

Due(l) ==
  /\ active
  /\ Turns(l, "scheduled", "reading")
  /\ target' = [target EXCEPT ![l] = nameToId]
  /\ UNCHANGED <<requests, instructions, screen, nameToId, held, active, effects, latest, excuse, budget>>

\* onCronjob drops what falls due while the client is locked or inactive.
Dropped(l) ==
  /\ ~active
  /\ Turns(l, "scheduled", "none")
  /\ excuse' = [r \in Requests |-> IF dialog[r] = "open" THEN excuse[r] \cup {"inactive"} ELSE excuse[r]]
  /\ UNCHANGED <<requests, instructions, screen, nameToId, target, held, active, effects, latest, budget>>

\* The interface is gone, or there is nothing to simulate: this was the last run.
Ends(l) ==
  /\ \/ loop[l] \notin {"none", "scheduled", "scheduling"} /\ ~Open(l)
     \/ loop[l] = "reading" /\ "simulation" \notin prefs[target[l]]
  /\ loop' = [loop EXCEPT ![l] = "none"]
  /\ Leaves(l)
  /\ UNCHANGED <<requests, instructions, screen, nameToId, active, effects, latest, excuse, budget>>

ReadContext(l) ==
  /\ Turns(l, "reading", "marking")
  /\ Open(l) /\ "simulation" \in prefs[target[l]]
  /\ Holds(l)
  /\ UNCHANGED <<requests, instructions, screen, nameToId, target, active, effects, latest, excuse, budget>>

MarkFetching(l) ==
  /\ Turns(l, "marking", "rereading")
  /\ Writes(l, [held[l] EXCEPT !.fetching = TRUE])
  /\ UNCHANGED <<requests, instructions, dialog, toggles, nameToId, target, active, effects, latest, budget>>

\* While the scan runs.
RereadContext(l) ==
  /\ Turns(l, "rereading", "scanning")
  /\ Open(l) /\ Holds(l)
  /\ UNCHANGED <<requests, instructions, screen, nameToId, target, active, effects, latest, excuse, budget>>

\* Mutant of Rescan: the scan is not put into the context.
RescanForgettingScan(l) ==
  /\ Turns(l, "scanning", "scheduling")
  /\ Writes(l, [held[l] EXCEPT !.fetching = FALSE])
  /\ \E error \in BOOLEAN : latest' = [latest EXCEPT ![target[l]] = error]
  /\ UNCHANGED <<requests, instructions, dialog, toggles, nameToId, target, active, effects, budget>>

Rescan(l) ==
  /\ Turns(l, "scanning", "scheduling")
  /\ \E error \in BOOLEAN :
       /\ Writes(l, [held[l] EXCEPT !.fetching = FALSE, !.error = error])
       /\ latest' = [latest EXCEPT ![target[l]] = error]
  /\ UNCHANGED <<requests, instructions, dialog, toggles, nameToId, target, active, effects, budget>>

Reschedule(l) ==
  /\ Turns(l, "scheduling", "scheduled")
  /\ Leaves(l)
  /\ UNCHANGED <<requests, instructions, screen, nameToId, active, effects, latest, excuse, budget>>

Restore(l) ==
  /\ Turns(l, "restoring", "rolling back")
  /\ Open(l) /\ Holds(l)
  /\ UNCHANGED <<requests, instructions, screen, nameToId, target, active, effects, latest, excuse, budget>>

RollBack(l) ==
  /\ Turns(l, "rolling back", "none")
  /\ Writes(l, [held[l] EXCEPT !.fetching = FALSE])
  /\ target' = [target EXCEPT ![l] = None]
  /\ UNCHANGED <<requests, instructions, dialog, toggles, nameToId, active, effects, latest, budget>>

RefreshFails(l) ==
  /\ Disturb
  /\ \/ loop[l] \in {"reading", "restoring", "rolling back"}
        /\ loop' = [loop EXCEPT ![l] = "none"] /\ Leaves(l)
     \/ loop[l] \in {"marking", "rereading", "scanning", "scheduling"}
        /\ loop' = [loop EXCEPT ![l] = "restoring"] /\ Drops(l) /\ UNCHANGED target
  /\ IF Open(l) THEN Excuse(target[l], "rejected") ELSE UNCHANGED excuse
  /\ UNCHANGED <<requests, instructions, screen, nameToId, active, effects, latest>>

------------------------------------------------------------------------------
Handles(r) ==
  Build(r) \/ Load(r) \/ AddTransaction(r) \/ Extract(r) \/ CreateInterface(r) \/ RenderPrices(r)
  \/ RenderScan(r) \/ RenderClosed(r) \/ SetName(r) \/ ScheduleRefresh(r) \/ Decide(r)
  \/ Approve(r) \/ Reject(r) \/ Sign(r) \/ Send(r) \/ Monitor(r)

Refreshes(l) ==
  Due(l) \/ Dropped(l) \/ Ends(l) \/ ReadContext(l) \/ MarkFetching(l) \/ RereadContext(l) \/ Rescan(l)
  \/ Reschedule(l) \/ Restore(l) \/ RollBack(l)

Next ==
  \/ \E r \in Requests : Submit(r) \/ Handles(r) \/ Fail(r)
  \/ \E r \in Requests : Resolve(r, "yes") \/ Resolve(r, "no") \/ ClickAdvanced(r)
  \/ ShowAdvanced \/ Switch
  \/ \E l \in Requests : Refreshes(l) \/ RefreshFails(l)

Spec ==
  /\ Init /\ [][Next]_vars
  /\ \A r \in Requests : WF_vars(Handles(r)) /\ WF_vars(Refreshes(r))
------------------------------------------------------------------------------
(* Properties.                                                             *)

\* Nothing is signed that was not confirmed (or asked for by the client itself), and the
\* answer tells what was done: "ok" when it was signed, and sent where that was asked for; a
\* confirmed request fails, and a failed one was not sent, but for a reason that Reasons
\* names; a cancelled one is answered as rejected by the user, but when the user was faster
\* than render.  This is about submitRequest with everything it awaits.
AnswersTrueUnlessExcused ==
  \A r \in Requests :
    /\ r \in signed => kind[r] = "direct" \/ dialog[r] = "yes"
    /\ answer[r] = "ok" => r \in signed /\ (kind[r] \in Sending => r \in sent)
    /\ answer[r] = "rejected" => dialog[r] = "no" /\ r \notin signed
    /\ answer[r] = "failed" /\ r \in sent => excuse[r] \cap {"unmonitored", "lost"} # {}
    /\ answer[r] = "failed" /\ dialog[r] = "yes" => excuse[r] \cap {"failed", "unmonitored", "lost"} # {}
    /\ answer[r] = "failed" /\ dialog[r] = "no" => excuse[r] \cap {"failed", "closed"} # {}

\* A dialog lists the instructions of its own transaction, unless another dialog was
\* prepared at the same time; and it cannot be confirmed when the last scan of the
\* transaction ended in an error, unless an older context was written over the new one.
ShownUnlessExcused ==
  \A r \in Requests : dialog[r] = "open" /\ kind[r] \in Transactions =>
    /\ ui[r].instructions \in {r, None} \/ "shared" \in excuse[r]
    /\ latest[r] => ~CanConfirm(r) \/ "overwritten" \in excuse[r]

Working(l, r) == target[l] = r \/ (loop[l] = "scheduled" /\ nameToId = r)

\* An open dialog whose transaction can be simulated goes on being refreshed, unless another
\* dialog has taken its name, a refresh fell due while the client was inactive, or one was
\* rejected; and when neither render nor a refresh is at work on it, it does not pretend to
\* be fetching (which disables its button), unless an older context was written or a request
\* was rejected.
RefreshedUnlessExcused ==
  \A r \in Requests : dialog[r] = "open" /\ kind[r] \in Transactions =>
    /\ at[r] = "waiting" /\ "simulation" \in prefs[r] =>
         (\E l \in Requests : Working(l, r)) \/ nameToId # r \/ excuse[r] \cap {"inactive", "rejected"} # {}
    /\ ui[r].fetching =>
         \/ at[r] \in {"creating", "pricing", "scanning"}
         \/ \E l \in Requests : target[l] = r
         \/ excuse[r] \cap {"overwritten", "rejected", "failed"} # {}
================================================================================
