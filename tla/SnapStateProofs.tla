--------------------------- MODULE SnapStateProofs ---------------------------
(***************************************************************************)
(* What SnapState guarantees for any number of calls, paths and values.    *)
(*                                                                         *)
(* The inductive invariant is IInv: the type invariant together with the   *)
(* fact that a snapshot and the store differ only on paths the history     *)
(* variable has recorded.  The action property about collateral changes    *)
(* follows from it, since a commit writes back a snapshot.                 *)
(***************************************************************************)
EXTENDS SnapState, TLAPS

IInv == TypeOK /\ StaleOnlyWhereOverlapped

\* Patching a document gives a document.
LEMMA ApplyType ==
  ASSUME NEW d \in Document, NEW p \in Patches
  PROVE  Apply(p, d) \in Document
<1> SUFFICES ASSUME NEW k \in Keys
             PROVE  (IF k \in DOMAIN p THEN p[k] ELSE d[k])
                      \in Values \cup {Absent}
  BY DEF Apply, Document
<1>1. PICK targets \in SUBSET Keys : p \in [targets -> Values \cup {Absent}]
  BY DEF Patches
<1> QED
  BY <1>1 DEF Document

\* Writing one path is a patch, and so is unsetting any set of paths.
LEMMA PutType ==
  ASSUME NEW k \in Keys, NEW v \in Values
  PROVE  Put(k, v) \in Patches
<1>1. {k} \in SUBSET Keys
  OBVIOUS
<1>2. Put(k, v) \in [{k} -> Values \cup {Absent}]
  BY DEF Put
<1> QED
  BY <1>1, <1>2 DEF Patches

\* So is unsetting any set of paths.
LEMMA UnsetType ==
  ASSUME NEW ks \in SUBSET Keys
  PROVE  Unset(ks) \in Patches
<1>1. Unset(ks) \in [ks -> Values \cup {Absent}]
  BY DEF Unset
<1> QED
  BY <1>1 DEF Patches

\* A call that holds a snapshot is in its write phase.
LEMMA PendingCall ==
  ASSUME TypeOK, NEW c \in Calls, call[c] # Idle
  PROVE  /\ call[c] \in Pending
         /\ call[c].snapshot \in Document
         /\ call[c].patch \in Patches
BY DEF TypeOK, StoreTypeOK, Pending

\* What every step does to the calls: it keeps one as it is, ends it, or takes
\* its snapshot of a store that it leaves alone.
KeepsSnapshots ==
  \A c \in Calls : call'[c] # Idle =>
    \/ call[c] # Idle /\ call'[c] = call[c]
    \/ call'[c].snapshot = store /\ store' = store

\* Taking a snapshot, whatever the patch.
LEMMA BeginUpdateStep ==
  ASSUME TypeOK, NEW c \in Calls, NEW p \in Patches, BeginUpdate(c, p)
  PROVE  StoreTypeOK' /\ KeepsSnapshots
<1> DEFINE new == [phase |-> "write", snapshot |-> store, patch |-> p]
<1>1. new \in Pending
  BY DEF TypeOK, StoreTypeOK, Pending
<1>2. StoreTypeOK'
  BY <1>1 DEF TypeOK, StoreTypeOK, BeginUpdate
<1>3. ASSUME NEW d \in Calls, call'[d] # Idle
      PROVE  \/ call[d] # Idle /\ call'[d] = call[d]
             \/ call'[d].snapshot = store /\ store' = store
  <2>1. CASE d = c
    <3>1. call'[d] = new
      BY <2>1 DEF TypeOK, StoreTypeOK, BeginUpdate
    <3> QED
      BY <3>1 DEF BeginUpdate
  <2>2. CASE d # c
    BY <1>3, <2>2 DEF TypeOK, StoreTypeOK, BeginUpdate
  <2> QED
    BY <2>1, <2>2
<1> QED
  BY <1>2, <1>3 DEF KeepsSnapshots

\* A write of one path, which needs no snapshot.
LEMMA SetKeyStep ==
  ASSUME TypeOK, NEW j \in Keys, NEW v \in Values, SetKey(j, v)
  PROVE  StoreTypeOK' /\ KeepsSnapshots
<1>1. StoreTypeOK'
  BY DEF TypeOK, StoreTypeOK, SetKey, Write, Document
<1>2. KeepsSnapshots
  BY DEF SetKey, Write, KeepsSnapshots
<1> QED
  BY <1>1, <1>2

\* The second request, which writes the snapshot and the patch.
LEMMA CommitStep ==
  ASSUME TypeOK, NEW c \in Calls, Commit(c)
  PROVE  StoreTypeOK' /\ KeepsSnapshots
<1>1. store' \in Document
  BY PendingCall, ApplyType DEF Commit, FinishUpdate
<1>2. StoreTypeOK'
  BY <1>1 DEF TypeOK, StoreTypeOK, Commit, FinishUpdate
<1>3. KeepsSnapshots
  BY DEF TypeOK, StoreTypeOK, Commit, FinishUpdate, KeepsSnapshots
<1> QED
  BY <1>2, <1>3

\* A request that the client rejects ends its call.
LEMMA RejectStep ==
  ASSUME TypeOK, NEW c \in Calls, Reject(c)
  PROVE  StoreTypeOK' /\ KeepsSnapshots
<1>1. StoreTypeOK'
  BY DEF TypeOK, StoreTypeOK, Reject
<1>2. KeepsSnapshots
  BY DEF TypeOK, StoreTypeOK, Reject, KeepsSnapshots
<1> QED
  BY <1>1, <1>2

\* A restart drops all calls.
LEMMA RestartStep == TypeOK /\ Restart => StoreTypeOK' /\ KeepsSnapshots
BY DEF TypeOK, StoreTypeOK, Restart, KeepsSnapshots

\* One step per action of Step.
LEMMA StepKeepsTypes ==
  ASSUME TypeOK, Step
  PROVE  StoreTypeOK' /\ migrate' \in BOOLEAN /\ KeepsSnapshots
<1>1. ASSUME NEW k \in Keys, NEW v \in Values, SetKey(k, v)
      PROVE  StoreTypeOK' /\ migrate' \in BOOLEAN /\ KeepsSnapshots
  <2>1. migrate' \in BOOLEAN
    BY <1>1 DEF SetKey, TypeOK
  <2> QED
    BY <1>1, <2>1, SetKeyStep
<1>2. ASSUME NEW c \in Calls, NEW k \in Keys, NEW v \in Values, Update(c, k, v)
      PROVE  StoreTypeOK' /\ migrate' \in BOOLEAN /\ KeepsSnapshots
  <2>1. migrate' \in BOOLEAN /\ BeginUpdate(c, Put(k, v))
    BY <1>2 DEF Update, TypeOK
  <2> QED
    BY <2>1, PutType, BeginUpdateStep
<1>3. ASSUME NEW c \in Calls, NEW ks \in SUBSET Keys, DeleteKeys(c, ks)
      PROVE  StoreTypeOK' /\ migrate' \in BOOLEAN /\ KeepsSnapshots
  <2>1. migrate' \in BOOLEAN /\ BeginUpdate(c, Unset(ks))
    BY <1>3 DEF DeleteKeys, TypeOK
  <2> QED
    BY <2>1, UnsetType, BeginUpdateStep
<1>4. ASSUME NEW c \in Calls, MigrateState(c)
      PROVE  StoreTypeOK' /\ migrate' \in BOOLEAN /\ KeepsSnapshots
  <2>1. migrate' \in BOOLEAN /\ BeginUpdate(c, Unset(LegacyKeys))
    BY <1>4 DEF MigrateState
  <2> QED
    BY <2>1, UnsetType, BeginUpdateStep, LegacyAssumption
<1>5. ASSUME NEW c \in Calls, Commit(c)
      PROVE  StoreTypeOK' /\ migrate' \in BOOLEAN /\ KeepsSnapshots
  <2>1. migrate' \in BOOLEAN
    BY <1>5 DEF Commit, TypeOK
  <2> QED
    BY <1>5, <2>1, CommitStep
<1>6. ASSUME NEW c \in Calls, Reject(c)
      PROVE  StoreTypeOK' /\ migrate' \in BOOLEAN /\ KeepsSnapshots
  <2>1. migrate' \in BOOLEAN
    BY <1>6 DEF Reject, TypeOK
  <2> QED
    BY <1>6, <2>1, RejectStep
<1>7. CASE Restart
  <2>1. migrate' \in BOOLEAN
    BY <1>7 DEF Restart
  <2> QED
    BY <1>7, <2>1, RestartStep
<1> QED
  BY <1>1, <1>2, <1>3, <1>4, <1>5, <1>6, <1>7 DEF Step

\* The history variable records whatever a step writes under a snapshot.
LEMMA OverwritesRecords ==
  ASSUME IInv, KeepsSnapshots, Overwrites
  PROVE  StaleOnlyWhereOverlapped'
<1> SUFFICES ASSUME NEW c \in Calls, call'[c] # Idle, NEW k \in Keys,
                    call'[c].snapshot[k] # store'[k]
             PROVE  k \in overwritten'[c]
  BY DEF StaleOnlyWhereOverlapped
<1>1. call[c] # Idle /\ call'[c] = call[c]
  BY DEF KeepsSnapshots
<1>2. overwritten'[c] = overwritten[c] \cup {i \in Keys : store'[i] # store[i]}
  BY <1>1 DEF Overwrites
<1>3. CASE store'[k] # store[k]
  BY <1>2, <1>3
<1>4. CASE store'[k] = store[k]
  BY <1>1, <1>2, <1>4 DEF IInv, StaleOnlyWhereOverlapped
<1> QED
  BY <1>3, <1>4

\* Every step keeps the invariant: one case per action.
LEMMA NextPreserves == IInv /\ [Next]_vars => IInv'
<1> SUFFICES ASSUME IInv, [Next]_vars
             PROVE  IInv'
  OBVIOUS
<1>1. CASE Next
  <2>1. Step /\ Overwrites /\ TypeOK
    BY <1>1 DEF Next, IInv
  <2>2. StoreTypeOK' /\ migrate' \in BOOLEAN /\ KeepsSnapshots
    BY <2>1, StepKeepsTypes
  <2>3. overwritten' \in [Calls -> SUBSET Keys]
    BY <2>1 DEF Overwrites, TypeOK
  <2>4. TypeOK'
    BY <2>2, <2>3 DEF TypeOK
  <2>5. StaleOnlyWhereOverlapped'
    BY <2>1, <2>2, OverwritesRecords
  <2> QED
    BY <2>4, <2>5 DEF IInv
<1>2. CASE UNCHANGED vars
  BY <1>2 DEF vars, IInv, TypeOK, StoreTypeOK, StaleOnlyWhereOverlapped
<1> QED
  BY <1>1, <1>2

\* The initial state satisfies it.
LEMMA InitInvariant == Init => IInv
BY DEF Init, IInv, TypeOK, StoreTypeOK, StaleOnlyWhereOverlapped

\* It holds of every state of the specification.
LEMMA InvariantHolds == Spec => []IInv
BY InitInvariant, NextPreserves, PTL DEF Spec

\* The store always holds a document and every in-flight update of State.ts a
\* snapshot of one.
THEOREM TypeCorrect == Spec => []TypeOK
<1>1. IInv => TypeOK
  BY DEF IInv
<1> QED
  BY <1>1, InvariantHolds, PTL

\* A snapshot of State.update is stale only on paths that others wrote during
\* its await, however many calls are in flight.
THEOREM SnapshotsStaleOnlyWhereOverlapped == Spec => []StaleOnlyWhereOverlapped
<1>1. IInv => StaleOnlyWhereOverlapped
  BY DEF IInv
<1> QED
  BY <1>1, InvariantHolds, PTL

\* What one step of State may do to a path it is not about.
Collateral ==
  \A k \in Keys : store'[k] # store[k] =>
    \/ \E c \in Calls : /\ call[c] # Idle
                        /\ call'[c] = Idle
                        /\ k \in DOMAIN call[c].patch \cup overwritten[c]
    \/ /\ call' = call
       /\ \A j \in Keys \ {k} : store'[j] = store[j]

\* No step changes a path that is not its own, but for an overlap.
LEMMA NextCollateral == IInv /\ [Next]_vars => [Collateral]_vars
<1> SUFFICES ASSUME IInv, Next
             PROVE  Collateral
  OBVIOUS
<1> SUFFICES ASSUME NEW k \in Keys, store'[k] # store[k]
             PROVE
               \/ \E c \in Calls : /\ call[c] # Idle
                                   /\ call'[c] = Idle
                                   /\ k \in DOMAIN call[c].patch \cup overwritten[c]
               \/ /\ call' = call
                  /\ \A j \in Keys \ {k} : store'[j] = store[j]
  BY DEF Collateral
<1>1. ASSUME NEW i \in Keys, NEW v \in Values, SetKey(i, v)
      PROVE  call' = call /\ \A j \in Keys \ {k} : store'[j] = store[j]
  BY <1>1 DEF SetKey, Write, IInv, TypeOK, StoreTypeOK, Document
<1>2. ASSUME NEW c \in Calls, Commit(c)
      PROVE  /\ call[c] # Idle
             /\ call'[c] = Idle
             /\ k \in DOMAIN call[c].patch \cup overwritten[c]
  <2>1. call[c] # Idle /\ call'[c] = Idle
    BY <1>2 DEF Commit, FinishUpdate, IInv, TypeOK, StoreTypeOK
  <2>2. CASE k \in DOMAIN call[c].patch
    BY <2>1, <2>2
  <2>3. CASE k \notin DOMAIN call[c].patch
    <3>1. store'[k] = call[c].snapshot[k]
      BY <1>2, <2>3 DEF Commit, FinishUpdate, Apply
    <3> QED
      BY <2>1, <3>1 DEF IInv, StaleOnlyWhereOverlapped
  <2> QED
    BY <2>2, <2>3
<1>3. CASE \E c \in Calls : Commit(c)
  BY <1>2, <1>3
<1>4. CASE \E i \in Keys, v \in Values : SetKey(i, v)
  BY <1>1, <1>4
<1>5. CASE UNCHANGED store
  BY <1>5
<1> QED
  BY <1>3, <1>4, <1>5
  DEF Next, Step, Update, DeleteKeys, MigrateState, BeginUpdate, Reject, Restart

\* A write of State.ts changes a path it is not about only by undoing a write
\* that fell between the two requests of its update().
THEOREM CollateralNeedsOverlap == Spec => CollateralOnlyOnOverlap
<1>1. CollateralOnlyOnOverlap <=> [][Collateral]_vars
  BY DEF CollateralOnlyOnOverlap, Collateral
<1> QED
  BY <1>1, InvariantHolds, NextCollateral, PTL DEF Spec

\* One step per action: each is a step of the store, or leaves it alone.
LEMMA StepIsStoreStep == TypeOK /\ [Next]_vars => [StoreNext]_stored
<1> SUFFICES ASSUME TypeOK, Step PROVE [StoreNext]_stored
  BY DEF Next, vars, stored
<1>1. ASSUME NEW k \in Keys, NEW v \in Values, SetKey(k, v) PROVE StoreNext
  BY <1>1 DEF SetKey, StoreNext
<1>2. ASSUME NEW c \in Calls, NEW k \in Keys, NEW v \in Values, Update(c, k, v)
      PROVE  StoreNext
  BY <1>2, PutType DEF Update, StoreNext
<1>3. ASSUME NEW c \in Calls, NEW ks \in SUBSET Keys, DeleteKeys(c, ks)
      PROVE  StoreNext
  BY <1>3, UnsetType DEF DeleteKeys, StoreNext
<1>4. ASSUME NEW c \in Calls, MigrateState(c) PROVE StoreNext
  BY <1>4, UnsetType, LegacyAssumption DEF MigrateState, StoreNext
<1>5. ASSUME NEW c \in Calls, Commit(c) PROVE StoreNext
  BY <1>5 DEF Commit, StoreNext
<1>6. ASSUME NEW c \in Calls, Reject(c) PROVE StoreNext
  <2>1. Abandon({c})
    BY <1>6 DEF Reject, Abandon, TypeOK, StoreTypeOK
  <2> QED BY <2>1 DEF StoreNext
<1>7. ASSUME Restart PROVE StoreNext
  <2>1. Abandon(Calls)
    BY <1>7 DEF Restart, Abandon
  <2> QED BY <2>1 DEF StoreNext
<1> QED BY <1>1, <1>2, <1>3, <1>4, <1>5, <1>6, <1>7 DEF Step

\* Whatever State.ts does, its callers see only the steps that StoreSpec allows:
\* single writes, and whole documents made from an earlier snapshot and a patch.
THEOREM ImplementsStore == Spec => StoreSpec
<1>1. Init => StoreInit
  BY DEF Init, StoreInit
<1> QED BY <1>1, StepIsStoreStep, TypeCorrect, PTL DEF Spec, StoreSpec
==============================================================================
