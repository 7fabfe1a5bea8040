------------------------------ MODULE SnapState ------------------------------
(***************************************************************************)
(* The snap's persisted store, as seen through the class State             *)
(* (core/services/state/State.ts).  The store lives in the host; every     *)
(* call of State is one or two host requests, and the snap's JavaScript    *)
(* runs other calls while it awaits an answer.                             *)
(*                                                                         *)
(*   setKey(key, value)     one request, snap_setState: a single step.     *)
(*   getKey, get            one request that changes nothing.              *)
(*   update(f)              snap_getState, then f, then snap_manageState   *)
(*                          with the WHOLE new state: two steps.           *)
(*   deleteKey, deleteKeys  an update whose f unsets paths.                *)
(*   #migrateState          an update, run when the snap starts, that      *)
(*                          drops what an older version stored.            *)
(*                                                                         *)
(* Abstractions: a key is a leaf path of the JSON document, so unsetting a *)
(* container is unsetting the leaves below it, and the empty containers    *)
(* that get() merges in as defaults are not visible.  An updater function  *)
(* is the patch it applies to its argument.                                *)
(***************************************************************************)
EXTENDS Naturals, FiniteSets

CONSTANTS
  Calls,       \* identities of the update calls that can be in flight
  Keys,        \* leaf paths of the persisted document
  LegacyKeys,  \* the leaves under 'assets', which this version drops
  Values,      \* what a leaf can hold
  Absent       \* "no such path"

ASSUME LegacyAssumption == LegacyKeys \subseteq Keys
ASSUME AbsentAssumption == Absent \notin Values

VARIABLES
  store,       \* the document held by the host
  call,        \* the update calls: Idle, or what they hold across the await
  migrate,     \* TRUE while the start-up migration has not begun
  overwritten  \* history: keys written by others since a call's snapshot

vars == <<store, call, migrate, overwritten>>

Document == [Keys -> Values \cup {Absent}]

\* A patch gives the paths an updater writes their new contents.
Patches == UNION {[targets -> Values \cup {Absent}] : targets \in SUBSET Keys}

Idle == [phase |-> "idle"]
Pending == [phase : {"write"}, snapshot : Document, patch : Patches]

StoreTypeOK ==
  /\ store \in Document
  /\ call \in [Calls -> {Idle} \cup Pending]

TypeOK ==
  /\ StoreTypeOK
  /\ migrate \in BOOLEAN
  /\ overwritten \in [Calls -> SUBSET Keys]

\* An installed snap may find any document an earlier run left behind.
Init ==
  /\ store \in Document
  /\ call = [c \in Calls |-> Idle]
  /\ migrate = TRUE
  /\ overwritten = [c \in Calls |-> {}]

------------------------------------------------------------------------------
\* Mutant of Apply: the updater returns its own part of the state only.
ApplyForgettingTheRest(patch, document) ==
  [k \in Keys |-> IF k \in DOMAIN patch THEN patch[k] ELSE Absent]

\* What update() hands to snap_manageState: its snapshot, patched.
Apply(patch, document) ==
  [k \in Keys |-> IF k \in DOMAIN patch THEN patch[k] ELSE document[k]]

\* snap_setState: the host writes one path of the current document.
Write(k, v) ==
  /\ store' = [store EXCEPT ![k] = v]
  /\ UNCHANGED call

\* setKey: one request.
SetKey(k, v) ==
  /\ Write(k, v)
  /\ UNCHANGED migrate

\* Mutant of BeginUpdate: the empty containers of the default state win over
\* the answer of snap_getState.
BeginUpdateWithDefaults(c, patch) ==
  /\ call[c] = Idle
  /\ call' = [call EXCEPT ![c] =
                [phase |-> "write", snapshot |-> [k \in Keys |-> Absent],
                 patch |-> patch]]
  /\ UNCHANGED store

\* First request of update(): the answer of snap_getState is the snapshot.
BeginUpdate(c, patch) ==
  /\ call[c] = Idle
  /\ call' = [call EXCEPT ![c] =
                [phase |-> "write", snapshot |-> store, patch |-> patch]]
  /\ UNCHANGED store

\* Second request of update(): snap_manageState replaces the document.
FinishUpdate(c) ==
  /\ call[c] # Idle
  /\ store' = Apply(call[c].patch, call[c].snapshot)
  /\ call' = [call EXCEPT ![c] = Idle]

Put(k, v) == [j \in {k} |-> v]
Unset(ks) == [k \in ks |-> Absent]

\* update() as the repositories call it, to write one path of their slice.
Update(c, k, v) ==
  /\ BeginUpdate(c, Put(k, v))
  /\ UNCHANGED migrate

\* deleteKeys, and deleteKey when ks are the leaves under one path.
DeleteKeys(c, ks) ==
  /\ BeginUpdate(c, Unset(ks))
  /\ UNCHANGED migrate

\* #migrateState, once per onStart / onUpdate / onInstall.
MigrateState(c) ==
  /\ migrate
  /\ BeginUpdate(c, Unset(LegacyKeys))
  /\ migrate' = FALSE

\* update() ends.
Commit(c) ==
  /\ FinishUpdate(c)
  /\ UNCHANGED migrate

\* The host rejects snap_manageState: nothing of the new state is kept.
Reject(c) ==
  /\ call[c] # Idle
  /\ call' = [call EXCEPT ![c] = Idle]
  /\ UNCHANGED <<store, migrate>>

\* The host stops the snap, with calls in flight or not, and starts it again.
Restart ==
  /\ ~migrate
  /\ call' = [c \in Calls |-> Idle]
  /\ migrate' = TRUE
  /\ UNCHANGED store

Step ==
  \/ \E k \in Keys, v \in Values : SetKey(k, v)
  \/ \E c \in Calls, k \in Keys, v \in Values : Update(c, k, v)
  \/ \E c \in Calls, ks \in SUBSET Keys : DeleteKeys(c, ks)
  \/ \E c \in Calls : MigrateState(c)
  \/ \E c \in Calls : Commit(c)
  \/ \E c \in Calls : Reject(c)
  \/ Restart

\* The history: what was written while a call held its snapshot.
Overwrites ==
  overwritten' =
    [c \in Calls |-> IF call[c] = Idle \/ call'[c] = Idle THEN {}
                     ELSE overwritten[c] \cup {k \in Keys : store'[k] # store[k]}]

Next == Step /\ Overwrites

Spec == Init /\ [][Next]_vars

------------------------------------------------------------------------------
(* What the store promises to whoever composes with it, without the        *)
(* migration and the history: documents change by one path at a time, or   *)
(* by a snapshot that was taken earlier and patched, and nothing else.     *)

stored == <<store, call>>

StoreInit == store \in Document /\ call = [c \in Calls |-> Idle]

\* Calls that will not be answered: they were rejected, or the snap was stopped.
Abandon(lost) ==
  /\ call' = [c \in Calls |-> IF c \in lost THEN Idle ELSE call[c]]
  /\ UNCHANGED store

StoreNext ==
  \/ \E k \in Keys, v \in Values : Write(k, v)
  \/ \E c \in Calls, patch \in Patches : BeginUpdate(c, patch)
  \/ \E c \in Calls : FinishUpdate(c)
  \/ \E lost \in SUBSET Calls : Abandon(lost)

StoreSpec == StoreInit /\ [][StoreNext]_stored

------------------------------------------------------------------------------
(* Properties.                                                             *)

\* A snapshot held across the await of update() is out of date only on paths
\* that another call wrote in the meantime (State.ts, update).
StaleOnlyWhereOverlapped ==
  \A c \in Calls : call[c] # Idle =>
    \A k \in Keys : call[c].snapshot[k] # store[k] => k \in overwritten[c]

\* A write changes a path other than the ones it is about only by undoing a
\* write that fell between the two requests of its update(): deletions come
\* back and additions vanish for no other reason (State.ts, update, deleteKeys,
\* setKey).
CollateralOnlyOnOverlap ==
  [][\A k \in Keys : store'[k] # store[k] =>
       \/ \E c \in Calls : /\ call[c] # Idle
                           /\ call'[c] = Idle
                           /\ k \in DOMAIN call[c].patch \cup overwritten[c]
       \/ /\ call' = call
          /\ \A j \in Keys \ {k} : store'[j] = store[j]]_vars

\* What the documentation of IStateManager.update promises ("all changes are
\* applied atomically", "better state consistency"): a committed update is the
\* updater applied to the state it replaces.
UpdateIsAtomic ==
  [][\A c \in Calls : (call[c] # Idle /\ call'[c] = Idle /\ store' # store) =>
       store' = Apply(call[c].patch, store)]_vars
==============================================================================
