--------------------------- MODULE KeyringAccounts ---------------------------
(***************************************************************************)
(* The accounts of the Solana keyring: createAccount and deleteAccount of  *)
(* SolanaKeyring over the persisted store, and the extension, which keeps  *)
(* its own list of them and is told by events.                             *)
(*                                                                         *)
(* Of the store only the slice `keyringAccounts` is kept, as the function  *)
(* accounts.  Updates of the other slices are kept as updates of nothing:  *)
(* they rewrite the whole document all the same (SnapState).  A call is    *)
(* cut at its awaits; awaits between which nothing is read or written are  *)
(* one.                                                                    *)
(***************************************************************************)
EXTENDS Naturals, FiniteSets

CONSTANTS
  Ids,         \* the random ids that calls of createAccount pick
  Sources,     \* entropy sources, that is, recovery phrases
  MaxIndex,    \* bound: largest index named by a derivation path
  MaxCalls,    \* bound: calls of createAccount and deleteAccount
  OtherSlices, \* `transactions` and `assets`, which erasing an account unsets
  NoAccount    \* "no such path" in the store, "none" as a request

ASSUME BoundsAssumption == MaxIndex \in Nat /\ MaxCalls \in Nat /\ IsFiniteSet(Ids)

VARIABLES
  accounts,     \* the slice `keyringAccounts`, each reduced to its path
  update,       \* whole-state updates between their two requests
  creating,     \* how far createAccount got with its id
  request,      \* the entropy source and derivation path it was given
  path,         \* the path it has chosen
  deleting,     \* how far deleteAccount got
  erase,        \* deleteKey calls that have not read the state yet
  extension,    \* the accounts the extension lists
  calls,        \* how many calls have begun
  stale,        \* history: ids chosen from a list that a save has outdated
  clobbered,    \* history: ids whose record an update of others rewrote
  excused       \* history: ids whose creation failed after its announcement,
                \* or that the host did not let the snap erase

stored == <<accounts, update>>
creation == <<creating, request, path>>
deletion == <<deleting, erase>>
history == <<stale, clobbered, excused>>
vars == <<stored, creation, deletion, extension, calls, history>>

\* A derivation path names an index at its third level.  It may differ from
\* the default path of that index in the others.
Paths == [source : Sources, index : 0..(MaxIndex + Cardinality(Ids)),
          shape : {"default", "other"}]
Named == {p \in Paths : p.index <= MaxIndex}

ASSUME NoAccountAssumption == NoAccount \notin Paths

Slices == {"keyringAccounts"} \cup OtherSlices
Calls == Ids \X {"create", "delete"} \X Slices

\* The update that saves the assets is over before any call erases.
SavesAssets(id) == <<id, "create", "keyringAccounts">>

Store == INSTANCE SnapState WITH
           Keys <- Ids, LegacyKeys <- {}, Values <- Paths, Absent <- NoAccount,
           store <- accounts, call <- update, migrate <- FALSE,
           overwritten <- {}

CreateSteps == {"none", "list", "save", "fetch", "writeState",
                "announce", "schedule", "cleanUp"}
CreateEnds == {"created", "failed", "duplicate", "skipped"}
DeleteSteps == {"none", "load", "announce", "erase"}
DeleteEnds == {"deleted", "missing", "refused"}

TypeOK ==
  /\ Store!StoreTypeOK
  /\ creating \in [Ids -> CreateSteps \cup CreateEnds]
  /\ request \in [Ids -> [source : Sources, path : Named \cup {NoAccount}]]
  /\ path \in [Ids -> Paths \cup {NoAccount}]
  /\ deleting \in [Ids -> DeleteSteps \cup DeleteEnds]
  /\ erase \subseteq Calls
  /\ extension \subseteq Ids
  /\ calls \in 0..MaxCalls
  /\ stale \subseteq Ids
  /\ clobbered \subseteq Ids
  /\ excused \subseteq Ids

Stored == {id \in Ids : accounts[id] # NoAccount}

\* What earlier runs left: accounts of different paths, known to the extension.
Init ==
  /\ accounts \in [Ids -> Named \cup {NoAccount}]
  /\ \A a, b \in Stored : a # b => accounts[a] # accounts[b]
  /\ update = [c \in Calls |-> Store!Idle]
  /\ creating = [id \in Ids |-> IF id \in Stored THEN "created" ELSE "none"]
  /\ request \in [Ids -> {[source |-> s, path |-> NoAccount] : s \in Sources}]
  /\ \A a, b \in Ids : request[a] = request[b]
  /\ path = accounts
  /\ deleting = [id \in Ids |-> "none"]
  /\ erase = {}
  /\ extension = Stored
  /\ calls = 0
  /\ stale = {}
  /\ clobbered = {}
  /\ excused = {}

Creates(id, step) == creating' = [creating EXCEPT ![id] = step]
Begin == calls < MaxCalls /\ calls' = calls + 1
Deletes(id, step) == deleting' = [deleting EXCEPT ![id] = step]

------------------------------------------------------------------------------
(* createAccount.                                                          *)

\* createAccount, up to the await of listAccounts.
CreateAccount(id, source, derivationPath) ==
  /\ creating[id] = "none"
  /\ derivationPath # NoAccount => derivationPath.source = source
  /\ Creates(id, "list")
  /\ request' = [request EXCEPT ![id] =
                   [source |-> source, path |-> derivationPath]]
  /\ Begin
  /\ UNCHANGED <<stored, path, deletion, extension, history>>

\* Mutant of LowestUnusedIndex: the number of accounts is the next index.
NextIndex(ids) == Cardinality(ids)

\* These accounts, each once, by ascending index.
IsSorted(list) ==
  \A i, j \in DOMAIN list :
    i < j => /\ list[i] # list[j]
             /\ accounts[list[i]].index <= accounts[list[j]].index

SortedByIndex(ids) == CHOOSE list \in [1..Cardinality(ids) -> ids] : IsSorted(list)

\* getLowestUnusedIndex: the loop over the sorted indices counts as long as
\* they match, and stops at the first that does not.
LowestUnusedIndex(ids) ==
  LET used == SortedByIndex(ids)
      Matches(n) == \A i \in 1..n : accounts[used[i]].index = i - 1
  IN CHOOSE n \in 0..Cardinality(ids) :
       Matches(n) /\ (n = Cardinality(ids) \/ ~Matches(n + 1))

\* The path that a request gets when these are the accounts.
PathFor(asked) ==
  IF asked.path # NoAccount THEN asked.path
  ELSE [source |-> asked.source,
        index |-> LowestUnusedIndex(
                    {id \in Stored : accounts[id].source = asked.source}),
        shape |-> "default"]

\* Mutant of ListAccounts: the check for the same account is gone.
ListAccountsUnchecked(id) ==
  /\ creating[id] = "list"
  /\ path' = [path EXCEPT ![id] = PathFor(request[id])]
  /\ Creates(id, "save")
  /\ UNCHANGED <<stored, request, deletion, extension, calls, history>>

\* createAccount: listAccounts answers, the path is chosen, and an account that
\* has it already is returned instead.
ListAccounts(id) ==
  LET chosen == PathFor(request[id])
      taken == \E other \in Stored : accounts[other] = chosen
  IN /\ creating[id] = "list"
     /\ path' = [path EXCEPT ![id] = chosen]
     /\ Creates(id, IF ~taken THEN "save"
                    ELSE IF request[id].path = NoAccount THEN "skipped"
                    ELSE "duplicate")
     /\ UNCHANGED <<stored, request, deletion, extension, calls, history>>

\* createAccount: the keypair is derived and the account saved.
SaveAccount(id) ==
  /\ creating[id] = "save"
  /\ Creates(id, "fetch")
  /\ Store!Write(id, path[id])
  /\ stale' = stale \cup {other \in Ids \ {id} : creating[other] = "save"}
  /\ UNCHANGED <<request, path, deletion, extension, clobbered, excused, calls>>

\* createAccount: the assets are fetched, and saved in their own slice in two
\* requests.
ReadState(id) ==
  /\ creating[id] = "fetch"
  /\ Creates(id, "writeState")
  /\ Store!BeginUpdate(SavesAssets(id), Store!Unset({}))
  /\ UNCHANGED <<request, path, deletion, extension, calls, history>>

\* Second request of an update: what it changes besides ids is clobbered.
FinishUpdate(c, ids) ==
  /\ Store!FinishUpdate(c)
  /\ clobbered' = clobbered \cup {id \in Ids \ ids : accounts'[id] # accounts[id]}

WriteState(id) ==
  /\ creating[id] = "writeState"
  /\ Creates(id, "announce")
  /\ FinishUpdate(SavesAssets(id), {})
  /\ UNCHANGED <<request, path, deletion, extension, stale, excused, calls>>

\* createAccount: the account is monitored, and AccountCreated is accepted.
AnnounceCreated(id) ==
  /\ creating[id] = "announce"
  /\ Creates(id, "schedule")
  /\ extension' = extension \cup {id}
  /\ UNCHANGED <<stored, request, path, deletion, calls, history>>

\* createAccount: the synchronisation of its transactions is scheduled.
Schedule(id) ==
  /\ creating[id] = "schedule"
  /\ Creates(id, "created")
  /\ UNCHANGED <<stored, request, path, deletion, extension, calls, history>>

\* Mutant of FailToCreate: the account is not erased again.
FailWithoutErasing(id) ==
  /\ creating[id] \in {"list", "save", "fetch", "writeState", "announce", "schedule"}
  /\ Creates(id, "cleanUp")
  /\ update' = [update EXCEPT ![SavesAssets(id)] = Store!Idle]
  /\ excused' = IF creating[id] = "schedule" THEN excused \cup {id} ELSE excused
  /\ UNCHANGED <<accounts, request, path, deletion, extension, stale, clobbered, calls>>

\* createAccount: the await it stands at is rejected, and the account is erased
\* again.
FailToCreate(id) ==
  /\ creating[id] \in {"list", "save", "fetch", "writeState", "announce", "schedule"}
  /\ Creates(id, "cleanUp")
  /\ update' = [update EXCEPT ![SavesAssets(id)] = Store!Idle]
  /\ erase' = erase \cup {<<id, "create", s>> : s \in Slices}
  /\ excused' = IF creating[id] = "schedule" THEN excused \cup {id} ELSE excused
  /\ UNCHANGED <<accounts, request, path, deleting, extension, stale, clobbered, calls>>

------------------------------------------------------------------------------
(* deleteAccount, and #deleteAccountFromState for both.                    *)

\* The user removes an account that the extension lists.
DeleteAccount(id) ==
  /\ deleting[id] = "none"
  /\ id \in extension
  /\ Deletes(id, "load")
  /\ Begin
  /\ UNCHANGED <<stored, creation, erase, extension, history>>

\* deleteAccount: getAccountOrThrow answers.
LoadAccount(id) ==
  /\ deleting[id] = "load"
  /\ Deletes(id, IF id \in Stored THEN "announce" ELSE "missing")
  /\ UNCHANGED <<stored, creation, erase, extension, calls, history>>

\* deleteAccount: AccountDeleted is accepted, and the account is erased.
AnnounceDeleted(id) ==
  /\ deleting[id] = "announce"
  /\ Deletes(id, "erase")
  /\ extension' = extension \ {id}
  /\ erase' = erase \cup {<<id, "delete", s>> : s \in Slices}
  /\ UNCHANGED <<stored, creation, calls, history>>

\* deleteAccount: AccountDeleted is rejected, so nothing is erased.
RefuseDeleted(id) ==
  /\ deleting[id] = "announce"
  /\ Deletes(id, "refused")
  /\ UNCHANGED <<stored, creation, erase, extension, calls, history>>

\* What the updates of #deleteAccountFromState unset in keyringAccounts.
Erased(id, slice) == IF slice = "keyringAccounts" THEN {id} ELSE {}

\* #deleteAccountFromState: one of the three deleteKey calls reads the state.
EraseRead(id, op, slice) ==
  /\ <<id, op, slice>> \in erase
  /\ erase' = erase \ {<<id, op, slice>>}
  /\ Store!BeginUpdate(<<id, op, slice>>, Store!Unset(Erased(id, slice)))
  /\ UNCHANGED <<creation, deleting, extension, calls, history>>

IsErasing(id, op) ==
  IF op = "create" THEN creating[id] = "cleanUp" ELSE deleting[id] = "erase"

\* #deleteAccountFromState: one of the three writes the state back.
EraseWrite(id, op, slice) ==
  /\ IsErasing(id, op)
  /\ update[<<id, op, slice>>] # Store!Idle
  /\ FinishUpdate(<<id, op, slice>>, Erased(id, slice))
  /\ UNCHANGED <<creation, deletion, extension, stale, excused, calls>>

\* #deleteAccountFromState: the host rejects a request of one of the three.
EraseFails(id, op, slice) ==
  /\ IsErasing(id, op)
  /\ \/ /\ <<id, op, slice>> \in erase
        /\ erase' = erase \ {<<id, op, slice>>}
        /\ UNCHANGED update
     \/ /\ update[<<id, op, slice>>] # Store!Idle
        /\ update' = [update EXCEPT ![<<id, op, slice>>] = Store!Idle]
        /\ UNCHANGED erase
  /\ excused' = excused \cup Erased(id, slice)
  /\ UNCHANGED <<accounts, creation, deleting, extension, stale, clobbered, calls>>

\* #deleteAccountFromState: Promise.all has all three.  That a rejection ends it
\* earlier is not visible: nothing reads the account before the call ends.
EraseEnds(id, op) ==
  /\ IsErasing(id, op)
  /\ \A s \in Slices : /\ <<id, op, s>> \notin erase
                       /\ update[<<id, op, s>>] = Store!Idle
  /\ IF op = "create"
       THEN Creates(id, "failed") /\ UNCHANGED deleting
       ELSE Deletes(id, "deleted") /\ UNCHANGED creating
  /\ UNCHANGED <<stored, request, path, erase, extension, calls, history>>

Next ==
  \E id \in Ids :
    \/ \E s \in Sources, p \in Named \cup {NoAccount} : CreateAccount(id, s, p)
    \/ ListAccounts(id)
    \/ SaveAccount(id)
    \/ ReadState(id)
    \/ WriteState(id)
    \/ AnnounceCreated(id)
    \/ Schedule(id)
    \/ FailToCreate(id)
    \/ DeleteAccount(id)
    \/ LoadAccount(id)
    \/ AnnounceDeleted(id)
    \/ RefuseDeleted(id)
    \/ \E op \in {"create", "delete"} :
         \/ \E slice \in Slices : \/ EraseRead(id, op, slice)
                                  \/ EraseWrite(id, op, slice)
                                  \/ EraseFails(id, op, slice)
         \/ EraseEnds(id, op)

Spec == Init /\ [][Next]_vars

------------------------------------------------------------------------------
(* Properties.                                                             *)

\* Two accounts have the same derivation path only if one of them was saved
\* from a list that another save had outdated, or came back by a lost update
\* (createAccount).
DistinctUnlessRaced ==
  \A a, b \in Stored :
    a # b /\ accounts[a] = accounts[b] =>
      {a, b} \cap (stale \cup clobbered) # {}

\* Nothing is under way.
Quiet ==
  \A id \in Ids : /\ creating[id] \in {"none"} \cup CreateEnds
                  /\ deleting[id] \in {"none"} \cup DeleteEnds

\* When all calls have ended the extension and the snap list the same accounts,
\* whatever failed in between, unless a lost update rewrote a record, the
\* creation failed after it was announced, or erasing it failed (createAccount,
\* deleteAccount).
Mirrored ==
  Quiet => \A id \in Ids \ (clobbered \cup excused) :
             id \in extension <=> id \in Stored

\* An account created without a derivation path takes an index below which none
\* is free (getLowestUnusedIndex).
NoGapBelow ==
  [][\A id \in Ids :
       creating[id] = "list" /\ creating'[id] = "save"
         /\ request[id].path = NoAccount =>
         \A i \in 0..(path'[id].index - 1) :
           \E other \in Stored : /\ accounts[other].source = request[id].source
                                 /\ accounts[other].index = i]_vars
==============================================================================
