------------------------ MODULE KeyringAccountsProofs -------------------------
(***************************************************************************)
(* Proofs about KeyringAccounts, for any number of accounts, entropy       *)
(* sources, indices and calls: its types; that it uses the store as        *)
(* SnapState describes it; that new accounts leave no gap; that derivation *)
(* paths stay distinct unless calls raced; and that the extension mirrors  *)
(* the store once all calls have ended, but for the reasons that the       *)
(* specification lists.                                                    *)
(*                                                                         *)
(* The invariant behind the paths, IInv, has three parts.  A call that is  *)
(* about to save its account holds a path that no account has, or is       *)
(* recorded as stale; the second request of an erasing update can only     *)
(* unset the account it is about, so whatever else it changes is recorded  *)
(* as clobbered; and the state has the shape that lets one speak of single *)
(* accounts and calls.  AllInStep, behind the mirror, says for each step   *)
(* of a creation and a deletion who lists the account, and that an account *)
(* that only the store still lists is about to be erased from it.          *)
(***************************************************************************)
EXTENDS KeyringAccounts, FiniteSetTheorems, WellFoundedInduction, TLAPS

\* The names of the calls.
LEMMA CallNames ==
  ASSUME NEW id \in Ids, NEW op \in {"create", "delete"}, NEW slice \in Slices
  PROVE  /\ <<id, op, slice>> \in Calls
         /\ SavesAssets(id) \in Calls
BY DEF Calls, Slices, SavesAssets

------------------------------------------------------------------------------
(* The lowest unused index.                                                *)

\* A set of natural numbers that has an element has a smallest one.
LEMMA HasSmallest ==
  ASSUME NEW T \in SUBSET Nat, T # {}
  PROVE  \E n \in T : \A m \in T : n <= m
<1> DEFINE Less == {ss \in Nat \X Nat : ss[1] < ss[2]}
<1>1. Less = OpToRel(<, Nat)
  BY DEF OpToRel
<1>2. IsWellFoundedOn(Less, Nat)
  BY <1>1, NatLessThanWellFounded
<1> HIDE DEF Less
<1>3. PICK n \in T : \A m \in T : <<m, n>> \notin Less
  BY <1>2, WFMin
<1>4. ASSUME NEW m \in T, m < n PROVE FALSE
  <2>1. <<m, n>> \in Less
    BY <1>4 DEF Less
  <2> QED BY <1>3, <2>1
<1> QED BY <1>3, <1>4

\* A set whose elements have an index can be listed by ascending index.
LEMMA CanBeSorted ==
  ASSUME NEW S, IsFiniteSet(S), S \subseteq Ids, \A x \in S : accounts[x].index \in Nat
  PROVE  \E list \in [1..Cardinality(S) -> S] : IsSorted(list)
<1> DEFINE Sortable(R) == \E list \in [1..Cardinality(R) -> R] : IsSorted(list)
           Bad == {n \in Nat : \E R \in SUBSET S : Cardinality(R) = n /\ ~Sortable(R)}
<1> SUFFICES ASSUME Bad # {} PROVE FALSE
  <2>1. Cardinality(S) \in Nat
    BY FS_CardinalityType
  <2> QED BY <2>1
<1>1. PICK n \in Bad : \A m \in Bad : n <= m
  BY HasSmallest
<1>2. PICK R \in SUBSET S : Cardinality(R) = n /\ ~Sortable(R)
  BY <1>1
<1>3. IsFiniteSet(R)
  BY FS_Subset
<1>4. R # {}
  <2> SUFFICES ASSUME R = {} PROVE FALSE
    OBVIOUS
  <2>1. n = 0
    BY <1>2, FS_EmptySet
  <2> DEFINE list == [i \in 1..0 |-> i]
  <2>2. list \in [1..Cardinality(R) -> R] /\ IsSorted(list)
    BY <1>2, <2>1 DEF IsSorted
  <2> QED BY <1>2, <2>2
<1>5. PICK x \in R : \A y \in R : accounts[x].index <= accounts[y].index
  <2> DEFINE T == {accounts[y].index : y \in R}
  <2>1. T \in SUBSET Nat /\ T # {}
    BY <1>4
  <2>2. PICK k \in T : \A m \in T : k <= m
    BY <2>1, HasSmallest
  <2> QED BY <2>2
<1>6. n \in Nat \ {0} /\ Cardinality(R \ {x}) = n - 1
  <2>1. Cardinality(R \ {x}) = Cardinality(R) - 1
    BY <1>3, FS_RemoveElement
  <2>2. n # 0
    BY <1>2, <1>3, FS_EmptySet
  <2> QED BY <1>2, <2>1, <2>2
<1>7. PICK rest \in [1..(n - 1) -> R \ {x}] : IsSorted(rest)
  <2>1. n - 1 \in Nat /\ n - 1 \notin Bad
    BY <1>1, <1>6
  <2> QED BY <1>6, <2>1
<1> DEFINE list == [i \in 1..n |-> IF i = 1 THEN x ELSE rest[i - 1]]
<1>8. list \in [1..n -> R]
  BY <1>6, <1>7
<1>9. IsSorted(list)
  <2> SUFFICES ASSUME NEW i \in 1..n, NEW j \in 1..n, i < j
               PROVE  list[i] # list[j] /\ accounts[list[i]].index <= accounts[list[j]].index
    BY DEF IsSorted
  <2>1. j - 1 \in 1..(n - 1) /\ list[j] = rest[j - 1]
    BY <1>6
  <2>2. CASE i = 1
    BY <1>5, <1>7, <2>1, <2>2
  <2>3. CASE i # 1
    <3>1. i - 1 \in 1..(n - 1) /\ list[i] = rest[i - 1] /\ i - 1 < j - 1
      BY <1>6, <2>3
    <3> QED BY <1>7, <2>1, <3>1 DEF IsSorted
  <2> QED BY <2>2, <2>3
<1> QED BY <1>2, <1>8, <1>9

\* getLowestUnusedIndex counts accounts of the list, each of which has the index it was
\* counted as.
LEMMA LowestUnusedIndexCounts ==
  ASSUME NEW ids \in SUBSET Ids, \A x \in ids : accounts[x].index \in Nat
  PROVE  /\ LowestUnusedIndex(ids) \in 0..Cardinality(Ids)
         /\ \A i \in 0..(LowestUnusedIndex(ids) - 1) :
              \E other \in ids : accounts[other].index = i
<1> DEFINE N == Cardinality(ids)
           used == SortedByIndex(ids)
           Matches(n) == \A i \in 1..n : accounts[used[i]].index = i - 1
           Stops(n) == n = N \/ ~Matches(n + 1)
           lowest == LowestUnusedIndex(ids)
<1>1. IsFiniteSet(ids) /\ N \in Nat /\ N <= Cardinality(Ids) /\ Cardinality(Ids) \in Nat
  BY BoundsAssumption, FS_Subset, FS_CardinalityType
<1>2. used \in [1..N -> ids]
  BY <1>1, CanBeSorted DEF SortedByIndex
<1>3. lowest = CHOOSE n \in 0..N : Matches(n) /\ Stops(n)
  BY DEF LowestUnusedIndex
<1> HIDE DEF N, used, lowest
<1>4. \E n \in 0..N : Matches(n) /\ Stops(n)
  <2> DEFINE T == {n \in 0..N : Stops(n)}
  <2>1. T \in SUBSET Nat /\ N \in T
    <3>1. N \in 0..N /\ T \in SUBSET (0..N)
      BY <1>1
    <3>2. 0..N \in SUBSET Nat
      BY <1>1
    <3> QED BY <3>1, <3>2
  <2>2. PICK n \in T : \A m \in T : n <= m
    <3> HIDE DEF T
    <3> QED BY <2>1, HasSmallest
  <2>3. CASE n = 0
    BY <2>2, <2>3
  <2>4. CASE n # 0
    <3>1. n - 1 \in 0..N /\ ~Stops(n - 1)
      BY <1>1, <2>2, <2>4
    <3>2. Matches(n)
      BY <1>1, <2>2, <3>1
    <3> QED BY <2>2, <3>2
  <2> QED BY <2>3, <2>4
<1>5. lowest \in 0..N /\ Matches(lowest)
  BY <1>3, <1>4
<1>6. ASSUME NEW i \in 0..(lowest - 1)
      PROVE  \E other \in ids : accounts[other].index = i
  <2>1. i + 1 \in 1..N /\ accounts[used[i + 1]].index = i
    BY <1>1, <1>5
  <2> QED BY <1>2, <2>1
<1>7. lowest \in 0..Cardinality(Ids)
  BY <1>1, <1>5
<1> QED BY <1>6, <1>7 DEF lowest

------------------------------------------------------------------------------
(* Types, and the store.                                                   *)

\* A path that a request gets is a derivation path, and what is below its index is taken.
LEMMA PathForNamesAFreeIndex ==
  ASSUME TypeOK, NEW id \in Ids
  PROVE  /\ PathFor(request[id]) \in Paths
         /\ request[id].path = NoAccount =>
              \A i \in 0..(PathFor(request[id]).index - 1) :
                \E other \in Stored : /\ accounts[other].source = request[id].source
                                      /\ accounts[other].index = i
<1> DEFINE asked == request[id]
           listed == {x \in Stored : accounts[x].source = asked.source}
<1>1. asked.source \in Sources /\ asked.path \in Named \cup {NoAccount}
  BY DEF TypeOK
<1>2. CASE asked.path # NoAccount
  BY <1>1, <1>2 DEF PathFor, Named
<1>3. CASE asked.path = NoAccount
  <2>1. listed \in SUBSET Ids
    BY DEF Stored
  <2>2. \A x \in listed : accounts[x] \in Paths
    BY DEF TypeOK, Store!StoreTypeOK, Store!Document, Stored
  <2>3. \A x \in listed : accounts[x].index \in Nat
    BY <2>2 DEF Paths
  <2>4. /\ LowestUnusedIndex(listed) \in 0..Cardinality(Ids)
        /\ \A i \in 0..(LowestUnusedIndex(listed) - 1) : \E other \in listed : accounts[other].index = i
    BY <2>1, <2>3, LowestUnusedIndexCounts
  <2>5. Cardinality(Ids) \in Nat
    BY BoundsAssumption, FS_CardinalityType
  <2>6. PathFor(asked) = [source |-> asked.source, index |-> LowestUnusedIndex(listed),
                          shape |-> "default"]
    BY <1>3 DEF PathFor
  <2>7. LowestUnusedIndex(listed) \in 0..(MaxIndex + Cardinality(Ids))
    BY <2>4, <2>5, BoundsAssumption
  <2>8. PathFor(asked) \in Paths
    BY <1>1, <2>6, <2>7 DEF Paths
  <2> QED BY <2>4, <2>6, <2>8
<1> QED BY <1>2, <1>3

\* Unsetting accounts, even none, is a patch.
LEMMA UnsetType ==
  ASSUME NEW ids \in SUBSET Ids
  PROVE  Store!Unset(ids) \in Store!Patches
<1>1. Store!Unset(ids) \in [ids -> Paths \cup {NoAccount}]
  BY DEF Store!Unset
<1> QED BY <1>1 DEF Store!Patches

\* The steps of the store keep its types.
LEMMA StoreKept == Store!StoreTypeOK /\ [Store!StoreNext]_(Store!stored) => Store!StoreTypeOK'
<1> SUFFICES ASSUME Store!StoreTypeOK, [Store!StoreNext]_(Store!stored) PROVE Store!StoreTypeOK'
  OBVIOUS
<1>1. ASSUME NEW id \in Ids, NEW p \in Paths, Store!Write(id, p)
      PROVE  Store!StoreTypeOK'
  BY <1>1 DEF Store!Write, Store!StoreTypeOK, Store!Document
<1>2. ASSUME NEW c \in Calls, NEW p \in Store!Patches, Store!BeginUpdate(c, p)
      PROVE  Store!StoreTypeOK'
  <2>1. [phase |-> "write", snapshot |-> accounts, patch |-> p] \in Store!Pending
    BY DEF Store!StoreTypeOK, Store!Pending
  <2> QED BY <1>2, <2>1 DEF Store!BeginUpdate, Store!StoreTypeOK
<1>3. ASSUME NEW c \in Calls, Store!FinishUpdate(c) PROVE Store!StoreTypeOK'
  <2>1. update[c] \in Store!Pending
    BY <1>3 DEF Store!FinishUpdate, Store!StoreTypeOK
  <2>2. update[c].snapshot \in Store!Document
    BY <2>1 DEF Store!Pending
  <2>3. PICK targets \in SUBSET Ids : update[c].patch \in [targets -> Paths \cup {NoAccount}]
    BY <2>1 DEF Store!Pending, Store!Patches
  <2>4. accounts' \in Store!Document
    BY <1>3, <2>2, <2>3 DEF Store!FinishUpdate, Store!Apply, Store!Document
  <2> QED BY <1>3, <2>4 DEF Store!FinishUpdate, Store!StoreTypeOK
<1>4. ASSUME NEW lost \in SUBSET Calls, Store!Abandon(lost) PROVE Store!StoreTypeOK'
  BY <1>4 DEF Store!Abandon, Store!StoreTypeOK
<1>5. CASE UNCHANGED Store!stored
  BY <1>5 DEF Store!stored, Store!StoreTypeOK
<1> QED BY <1>1, <1>2, <1>3, <1>4, <1>5 DEF Store!StoreNext

\* The types of everything but the store.
KeyringTypes ==
  /\ creating \in [Ids -> CreateSteps \cup CreateEnds]
  /\ request \in [Ids -> [source : Sources, path : Named \cup {NoAccount}]]
  /\ path \in [Ids -> Paths \cup {NoAccount}]
  /\ \A id \in Ids : creating[id] = "save" => path[id] \in Paths
  /\ deleting \in [Ids -> DeleteSteps \cup DeleteEnds]
  /\ erase \subseteq Calls
  /\ extension \subseteq Ids
  /\ calls \in 0..MaxCalls
  /\ stale \subseteq Ids
  /\ clobbered \subseteq Ids
  /\ excused \subseteq Ids

TypeInv == Store!StoreTypeOK /\ KeyringTypes

\* The invariant is TypeOK, and that who is about to save an account has a path for it.
LEMMA TypesByPart == TypeInv => TypeOK
BY DEF TypeInv, KeyringTypes, TypeOK

\* The initial state has the declared types, and is the store's.
LEMMA TypesInitially == Init => TypeInv /\ Store!StoreInit
<1> SUFFICES ASSUME Init PROVE TypeInv /\ Store!StoreInit
  OBVIOUS
<1>1. Named \subseteq Paths
  BY DEF Named
<1>2. Store!StoreTypeOK /\ Store!StoreInit
  BY <1>1 DEF Init, Store!StoreTypeOK, Store!StoreInit, Store!Document
<1>3. KeyringTypes
  BY <1>1, BoundsAssumption
  DEF Init, KeyringTypes, CreateSteps, CreateEnds, DeleteSteps, DeleteEnds, Stored
<1> QED BY <1>2, <1>3 DEF TypeInv

\* A step of one of the two operations leads to a state of it.
LEMMA StepNames ==
  ASSUME KeyringTypes, NEW id \in Ids
  PROVE  /\ \A step \in CreateSteps \cup CreateEnds :
              Creates(id, step) => creating' \in [Ids -> CreateSteps \cup CreateEnds]
         /\ \A step \in (CreateSteps \cup CreateEnds) \ {"save"} :
              Creates(id, step) /\ UNCHANGED path =>
                \A x \in Ids : creating'[x] = "save" => path'[x] \in Paths
         /\ \A step \in DeleteSteps \cup DeleteEnds :
              Deletes(id, step) => deleting' \in [Ids -> DeleteSteps \cup DeleteEnds]
BY DEF KeyringTypes, Creates, Deletes

\* The requests of the keyring that touch the store are steps of the store.
LEMMA StoreStep ==
  ASSUME TypeInv, [Next]_vars
  PROVE  [Store!StoreNext]_(Store!stored)
<1>1. CASE UNCHANGED vars
  BY <1>1 DEF vars, stored, Store!stored
<1>2. ASSUME NEW id \in Ids, SaveAccount(id) PROVE Store!StoreNext
  <2>1. path[id] \in Paths
    BY <1>2 DEF SaveAccount, TypeInv, KeyringTypes
  <2> QED BY <1>2, <2>1 DEF SaveAccount, Store!StoreNext
<1>3. ASSUME NEW id \in Ids, ReadState(id) PROVE Store!StoreNext
  <2>1. SavesAssets(id) \in Calls /\ Store!Unset({}) \in Store!Patches
    BY CallNames, UnsetType DEF Slices
  <2> QED BY <1>3, <2>1 DEF ReadState, Store!StoreNext
<1>4. ASSUME NEW id \in Ids, WriteState(id) PROVE Store!StoreNext
  <2>1. SavesAssets(id) \in Calls
    BY CallNames DEF Slices
  <2> QED BY <1>4, <2>1 DEF WriteState, FinishUpdate, Store!StoreNext
<1>5. ASSUME NEW id \in Ids, FailToCreate(id) PROVE Store!StoreNext
  <2>1. update' = [c \in Calls |-> IF c \in {SavesAssets(id)} THEN Store!Idle ELSE update[c]]
    BY <1>5 DEF FailToCreate, TypeInv, Store!StoreTypeOK
  <2>2. {SavesAssets(id)} \in SUBSET Calls
    BY CallNames DEF Slices
  <2>3. Store!Abandon({SavesAssets(id)})
    BY <1>5, <2>1 DEF FailToCreate, Store!Abandon
  <2> QED BY <2>2, <2>3 DEF Store!StoreNext
<1>6. ASSUME NEW id \in Ids, NEW op \in {"create", "delete"}, NEW slice \in Slices
      PROVE  /\ EraseRead(id, op, slice) => Store!StoreNext
             /\ EraseWrite(id, op, slice) => Store!StoreNext
             /\ EraseFails(id, op, slice) => Store!StoreNext \/ UNCHANGED Store!stored
  <2> DEFINE c == <<id, op, slice>>
  <2>1. c \in Calls
    BY CallNames
  <2>2. Store!Unset(Erased(id, slice)) \in Store!Patches
    <3>1. Erased(id, slice) \in SUBSET Ids
      BY DEF Erased
    <3> QED BY <3>1, UnsetType
  <2>3. EraseRead(id, op, slice) => Store!StoreNext
    BY <2>1, <2>2 DEF EraseRead, Store!StoreNext
  <2>4. EraseWrite(id, op, slice) => Store!StoreNext
    BY <2>1 DEF EraseWrite, FinishUpdate, Store!StoreNext
  <2>5. ASSUME EraseFails(id, op, slice) PROVE Store!StoreNext \/ UNCHANGED Store!stored
    <3>1. CASE UNCHANGED update
      BY <2>5, <3>1 DEF EraseFails, Store!stored
    <3>2. CASE update' = [update EXCEPT ![c] = Store!Idle]
      <4>1. update' = [d \in Calls |-> IF d \in {c} THEN Store!Idle ELSE update[d]]
        BY <2>1, <3>2 DEF TypeInv, Store!StoreTypeOK
      <4>2. Store!Abandon({c})
        BY <2>5, <4>1 DEF EraseFails, Store!Abandon
      <4>3. {c} \in SUBSET Calls
        BY <2>1
      <4> QED BY <4>2, <4>3 DEF Store!StoreNext
    <3> QED BY <2>5, <3>1, <3>2 DEF EraseFails
  <2> QED BY <2>3, <2>4, <2>5
<1>7. ASSUME NEW id \in Ids,
             \/ \E s \in Sources, p \in Named \cup {NoAccount} : CreateAccount(id, s, p)
             \/ ListAccounts(id) \/ AnnounceCreated(id) \/ Schedule(id)
             \/ DeleteAccount(id) \/ LoadAccount(id) \/ AnnounceDeleted(id) \/ RefuseDeleted(id)
             \/ \E op \in {"create", "delete"} : EraseEnds(id, op)
      PROVE  UNCHANGED Store!stored
  BY <1>7 DEF CreateAccount, ListAccounts, AnnounceCreated, Schedule, DeleteAccount, LoadAccount,
              AnnounceDeleted, RefuseDeleted, EraseEnds, stored, Store!stored
<1> QED BY <1>1, <1>2, <1>3, <1>4, <1>5, <1>6, <1>7 DEF Next

\* Every step keeps the types of what is not in the store.
LEMMA KeyringStep ==
  ASSUME TypeInv, [Next]_vars
  PROVE  KeyringTypes'
<1>1. CASE UNCHANGED vars
  BY <1>1 DEF vars, creation, deletion, history, TypeInv, KeyringTypes
<1>2. ASSUME NEW id \in Ids,
             \/ \E s \in Sources, p \in Named \cup {NoAccount} : CreateAccount(id, s, p)
             \/ DeleteAccount(id)
      PROVE  KeyringTypes'
  <2>1. calls' \in 0..MaxCalls
    BY <1>2, BoundsAssumption DEF CreateAccount, DeleteAccount, Begin, TypeInv, KeyringTypes
  <2>2. CASE DeleteAccount(id)
    BY <2>1, <2>2, StepNames DEF DeleteAccount, creation, history, TypeInv, KeyringTypes, DeleteSteps
  <2>3. ASSUME NEW s \in Sources, NEW p \in Named \cup {NoAccount}, CreateAccount(id, s, p)
        PROVE  KeyringTypes'
    <3>1. request' \in [Ids -> [source : Sources, path : Named \cup {NoAccount}]]
      BY <2>3 DEF CreateAccount, TypeInv, KeyringTypes
    <3>2. "list" \in (CreateSteps \cup CreateEnds) \ {"save"}
      BY DEF CreateSteps
    <3> QED BY <2>1, <2>3, <3>1, <3>2, StepNames DEF CreateAccount, deletion, history, TypeInv, KeyringTypes
  <2> QED BY <1>2, <2>2, <2>3
<1>3. ASSUME NEW id \in Ids, ListAccounts(id) PROVE KeyringTypes'
  <2>1. PathFor(request[id]) \in Paths
    BY TypesByPart, PathForNamesAFreeIndex
  <2>2. path' = [path EXCEPT ![id] = PathFor(request[id])]
    BY <1>3 DEF ListAccounts
  <2>3. /\ path' \in [Ids -> Paths \cup {NoAccount}]
        /\ path'[id] \in Paths
        /\ \A x \in Ids \ {id} : path'[x] = path[x]
    <3> HIDE DEF PathFor
    <3> QED BY <2>1, <2>2 DEF TypeInv, KeyringTypes
  <2>4. PICK step \in {"save", "skipped", "duplicate"} : Creates(id, step)
    BY <1>3 DEF ListAccounts
  <2>5. /\ creating' \in [Ids -> CreateSteps \cup CreateEnds]
        /\ \A x \in Ids \ {id} : creating'[x] = creating[x]
    BY <2>4 DEF Creates, TypeInv, KeyringTypes, CreateSteps, CreateEnds
  <2>6. UNCHANGED <<request, deleting, erase, extension, calls, stale, clobbered, excused>>
    BY <1>3 DEF ListAccounts, deletion, history
  <2> QED BY <2>3, <2>5, <2>6 DEF TypeInv, KeyringTypes
<1>4. ASSUME NEW id \in Ids,
             \/ SaveAccount(id) \/ ReadState(id) \/ WriteState(id)
             \/ AnnounceCreated(id) \/ Schedule(id) \/ FailToCreate(id)
      PROVE  KeyringTypes'
  <2>1. UNCHANGED <<request, path, deleting, calls>>
    BY <1>4 DEF SaveAccount, ReadState, WriteState, AnnounceCreated, Schedule, FailToCreate, deletion
  <2>2. \E step \in {"fetch", "writeState", "announce", "schedule", "created", "cleanUp"} :
          Creates(id, step)
    BY <1>4 DEF SaveAccount, ReadState, WriteState, AnnounceCreated, Schedule, FailToCreate
  <2>3. /\ creating' \in [Ids -> CreateSteps \cup CreateEnds]
        /\ \A x \in Ids : creating'[x] = "save" => path'[x] \in Paths
    BY <2>1, <2>2, StepNames DEF CreateSteps, CreateEnds, TypeInv
  <2>4. erase' \subseteq Calls
    <3>1. {<<id, "create", s>> : s \in Slices} \subseteq Calls
      BY CallNames
    <3> QED BY <1>4, <3>1 DEF SaveAccount, ReadState, WriteState, AnnounceCreated, Schedule,
                              FailToCreate, deletion, TypeInv, KeyringTypes
  <2>5. /\ extension' \subseteq Ids
        /\ stale' \subseteq Ids /\ clobbered' \subseteq Ids /\ excused' \subseteq Ids
    BY <1>4 DEF SaveAccount, ReadState, WriteState, AnnounceCreated, Schedule, FailToCreate,
                FinishUpdate, history, TypeInv, KeyringTypes
  <2> QED BY <2>1, <2>3, <2>4, <2>5 DEF TypeInv, KeyringTypes
<1>5. ASSUME NEW id \in Ids, LoadAccount(id) \/ AnnounceDeleted(id) \/ RefuseDeleted(id)
      PROVE  KeyringTypes'
  <2>1. \E step \in {"announce", "missing", "erase", "refused"} : Deletes(id, step)
    BY <1>5 DEF LoadAccount, AnnounceDeleted, RefuseDeleted
  <2>2. deleting' \in [Ids -> DeleteSteps \cup DeleteEnds]
    BY <2>1, StepNames DEF DeleteSteps, DeleteEnds, TypeInv
  <2>3. erase' \subseteq Calls
    <3>1. {<<id, "delete", s>> : s \in Slices} \subseteq Calls
      BY CallNames
    <3> QED BY <1>5, <3>1 DEF LoadAccount, AnnounceDeleted, RefuseDeleted, TypeInv, KeyringTypes
  <2> QED BY <1>5, <2>2, <2>3
      DEF LoadAccount, AnnounceDeleted, RefuseDeleted, creation, history, TypeInv, KeyringTypes
<1>6. ASSUME NEW id \in Ids, NEW op \in {"create", "delete"}, NEW slice \in Slices,
             EraseRead(id, op, slice) \/ EraseWrite(id, op, slice) \/ EraseFails(id, op, slice)
      PROVE  KeyringTypes'
  <2>1. /\ UNCHANGED <<creation, deleting, extension, calls, stale>>
        /\ erase' \subseteq erase
    BY <1>6 DEF EraseRead, EraseWrite, EraseFails, deletion, history
  <2>2. clobbered' \subseteq Ids /\ excused' \subseteq Ids
    BY <1>6 DEF EraseRead, EraseWrite, EraseFails, FinishUpdate, Erased, history, TypeInv, KeyringTypes
  <2> QED BY <2>1, <2>2 DEF creation, TypeInv, KeyringTypes
<1>7. ASSUME NEW id \in Ids, NEW op \in {"create", "delete"}, EraseEnds(id, op)
      PROVE  KeyringTypes'
  <2>1. \/ Creates(id, "failed") /\ UNCHANGED deleting
        \/ Deletes(id, "deleted") /\ UNCHANGED creating
    BY <1>7 DEF EraseEnds
  <2>2. UNCHANGED <<request, path, erase, extension, calls, stale, clobbered, excused>>
    BY <1>7 DEF EraseEnds, history
  <2>3. "failed" \in (CreateSteps \cup CreateEnds) \ {"save"} /\ "deleted" \in DeleteEnds
    BY DEF CreateEnds, DeleteEnds
  <2> QED BY <2>1, <2>2, <2>3, StepNames DEF TypeInv, KeyringTypes
<1> QED BY <1>1, <1>2, <1>3, <1>4, <1>5, <1>6, <1>7 DEF Next

\* Every step keeps the types, and is one of the store or none.
LEMMA StepTypes == TypeInv /\ [Next]_vars => TypeInv' /\ [Store!StoreNext]_(Store!stored)
BY StoreStep, StoreKept, KeyringStep DEF TypeInv

\* Accounts, requests and updates have the declared types; in particular every account
\* that is stored has a derivation path, whatever the number of accounts.
THEOREM TypeCorrect == Spec => []TypeOK
BY TypesInitially, StepTypes, TypesByPart, PTL DEF Spec

\* All that the keyring does to the persisted state are steps of the store: what
\* SnapState promises of its updates holds for the slice of the accounts.
THEOREM ImplementsStore == Spec => Store!StoreSpec
BY TypesInitially, StepTypes, PTL DEF Spec, Store!StoreSpec

\* An account that is created without a derivation path takes the lowest index that is
\* free, or a lower one that is taken twice; never one above a gap.
THEOREM NoGaps == Spec => NoGapBelow
<1>1. TypeOK /\ [Next]_vars =>
        [\A id \in Ids :
           creating[id] = "list" /\ creating'[id] = "save" /\ request[id].path = NoAccount =>
             \A i \in 0..(path'[id].index - 1) :
               \E other \in Stored : /\ accounts[other].source = request[id].source
                                     /\ accounts[other].index = i]_vars
  <2> SUFFICES ASSUME TypeOK, Next, NEW id \in Ids, creating[id] = "list", creating'[id] = "save",
                      request[id].path = NoAccount
               PROVE  \A i \in 0..(path'[id].index - 1) :
                        \E other \in Stored : /\ accounts[other].source = request[id].source
                                              /\ accounts[other].index = i
    OBVIOUS
  <2>1. ListAccounts(id)
    <3> DEFINE Others == {"list", "fetch", "writeState", "announce", "schedule", "created",
                          "cleanUp", "failed"}
    <3>1. PICK x \in Ids :
            ListAccounts(x) \/ UNCHANGED creating \/ \E step \in Others : Creates(x, step)
      <4>1. ASSUME NEW x \in Ids, NEW s \in Sources, NEW p \in Named \cup {NoAccount},
                   CreateAccount(x, s, p)
            PROVE  \E step \in Others : Creates(x, step)
        BY <4>1 DEF CreateAccount
      <4>2. ASSUME NEW x \in Ids,
                   \/ SaveAccount(x) \/ ReadState(x) \/ WriteState(x)
                   \/ AnnounceCreated(x) \/ Schedule(x) \/ FailToCreate(x)
            PROVE  \E step \in Others : Creates(x, step)
        BY <4>2 DEF SaveAccount, ReadState, WriteState, AnnounceCreated, Schedule, FailToCreate
      <4>3. ASSUME NEW x \in Ids,
                   DeleteAccount(x) \/ LoadAccount(x) \/ AnnounceDeleted(x) \/ RefuseDeleted(x)
            PROVE  UNCHANGED creating
        BY <4>3 DEF DeleteAccount, LoadAccount, AnnounceDeleted, RefuseDeleted, creation
      <4>4. ASSUME NEW x \in Ids, NEW op \in {"create", "delete"}, NEW slice \in Slices,
                   EraseRead(x, op, slice) \/ EraseWrite(x, op, slice) \/ EraseFails(x, op, slice)
            PROVE  UNCHANGED creating
        BY <4>4 DEF EraseRead, EraseWrite, EraseFails, creation
      <4>5. ASSUME NEW x \in Ids, NEW op \in {"create", "delete"}, EraseEnds(x, op)
            PROVE  UNCHANGED creating \/ \E step \in Others : Creates(x, step)
        BY <4>5 DEF EraseEnds
      <4> QED BY <4>1, <4>2, <4>3, <4>4, <4>5 DEF Next
    <3>2. ListAccounts(x)
      BY <3>1 DEF Creates, TypeOK
    <3>3. creating'[id] # creating[id] => x = id
      BY <3>2 DEF ListAccounts, Creates, TypeOK
    <3> QED BY <3>2, <3>3
  <2>2. path'[id] = PathFor(request[id])
    BY <2>1 DEF ListAccounts, TypeOK
  <2> QED BY <2>2, PathForNamesAFreeIndex
<1> QED BY <1>1, TypeCorrect, PTL DEF Spec, NoGapBelow

------------------------------------------------------------------------------
(* Derivation paths.                                                       *)

Shape ==
  /\ DOMAIN accounts = Ids
  /\ DOMAIN path = Ids
  /\ DOMAIN creating = Ids
  /\ DOMAIN update = Calls

\* An update that is under way unsets the accounts that its slice stands for.
Unsets(id, op, slice) ==
  \A k \in Erased(id, slice) :
    /\ k \in DOMAIN update[<<id, op, slice>>].patch
    /\ update[<<id, op, slice>>].patch[k] = NoAccount

\* The update that saves the assets shares its name with one that erases the account;
\* it is over by then.
ErasesOnlyItsOwn ==
  \A id \in Ids, op \in {"create", "delete"}, slice \in Slices :
    /\ update[<<id, op, slice>>] # Store!Idle
    /\ <<id, op, slice>> = SavesAssets(id) => creating[id] = "cleanUp"
    => Unsets(id, op, slice)

\* The path a call is about to save is taken only by what came back, unless the list it
\* was chosen from is out of date.
FreeUnlessRaced ==
  \A id \in Ids \ stale :
    creating[id] = "save" =>
      \A other \in Stored : accounts[other] = path[id] => other \in clobbered

IInv == Shape /\ ErasesOnlyItsOwn /\ FreeUnlessRaced /\ DistinctUnlessRaced

\* The initial state satisfies the invariant: no account has a path.
LEMMA Initially == Init => IInv
<1> SUFFICES ASSUME Init PROVE IInv
  OBVIOUS
<1>1. Shape
  BY DEF Init, Shape
<1>2. ErasesOnlyItsOwn
  BY DEF Init, ErasesOnlyItsOwn, Calls
<1>3. FreeUnlessRaced
  BY DEF Init, FreeUnlessRaced
<1>4. DistinctUnlessRaced
  BY DEF Init, DistinctUnlessRaced
<1> QED BY <1>1, <1>2, <1>3, <1>4 DEF IInv

------------------------------------------------------------------------------
(* The second request of an update.                                        *)

\* What it changes is unset, or recorded as clobbered.
LEMMA FinishChanges ==
  ASSUME Shape, NEW c \in Calls, NEW ids, FinishUpdate(c, ids),
         \A k \in ids : k \in DOMAIN update[c].patch /\ update[c].patch[k] = NoAccount
  PROVE  /\ DOMAIN accounts' = Ids
         /\ \A k \in Ids : accounts'[k] = accounts[k] \/ accounts'[k] = NoAccount \/ k \in clobbered'
         /\ clobbered \subseteq clobbered'
         /\ update' = [update EXCEPT ![c] = Store!Idle]
BY DEF FinishUpdate, Store!FinishUpdate, Store!Apply

\* Then neither distinct paths nor free ones are lost.
LEMMA FinishKeepsPaths ==
  ASSUME Shape, FreeUnlessRaced, DistinctUnlessRaced, UNCHANGED <<path, stale>>,
         DOMAIN accounts' = Ids,
         \A k \in Ids : accounts'[k] = accounts[k] \/ accounts'[k] = NoAccount \/ k \in clobbered',
         clobbered \subseteq clobbered',
         \A id \in Ids : creating'[id] = "save" => creating[id] = "save"
  PROVE  FreeUnlessRaced' /\ DistinctUnlessRaced'
<1>1. \A k \in Stored' : k \in clobbered' \/ (k \in Stored /\ accounts'[k] = accounts[k])
  BY DEF Stored
<1>2. FreeUnlessRaced'
  BY <1>1 DEF FreeUnlessRaced
<1>3. DistinctUnlessRaced'
  BY <1>1 DEF DistinctUnlessRaced
<1> QED BY <1>2, <1>3

\* A call that ends or is dropped leaves the other updates as they are.
LEMMA IdleKeepsUpdates ==
  ASSUME Shape, ErasesOnlyItsOwn, NEW c \in Calls, update' = [update EXCEPT ![c] = Store!Idle],
         \A id \in Ids : creating'[id] = "cleanUp" => creating[id] = "cleanUp" \/ c = SavesAssets(id)
  PROVE  ErasesOnlyItsOwn' /\ DOMAIN update' = Calls
<1>1. DOMAIN update' = Calls
  BY DEF Shape
<1> SUFFICES ASSUME NEW id \in Ids, NEW op \in {"create", "delete"}, NEW slice \in Slices,
                    update'[<<id, op, slice>>] # Store!Idle,
                    <<id, op, slice>> = SavesAssets(id) => creating'[id] = "cleanUp"
             PROVE  Unsets(id, op, slice)'
  BY <1>1 DEF ErasesOnlyItsOwn
<1>2. <<id, op, slice>> # c /\ update'[<<id, op, slice>>] = update[<<id, op, slice>>]
  BY CallNames DEF Shape
<1>3. Unsets(id, op, slice)
  BY <1>2 DEF ErasesOnlyItsOwn
<1> QED BY <1>2, <1>3 DEF Unsets

\* A first request takes its patch along.
LEMMA BeginKeepsUpdates ==
  ASSUME Shape, ErasesOnlyItsOwn, NEW id \in Ids, NEW op \in {"create", "delete"},
         NEW slice \in Slices, NEW ids,
         Store!BeginUpdate(<<id, op, slice>>, Store!Unset(ids)),
         ids = Erased(id, slice) \/ (<<id, op, slice>> = SavesAssets(id) /\ creating'[id] # "cleanUp"),
         \A x \in Ids : creating'[x] = "cleanUp" => creating[x] = "cleanUp"
  PROVE  ErasesOnlyItsOwn' /\ DOMAIN update' = Calls
<1> DEFINE c == <<id, op, slice>>
<1>1. /\ DOMAIN update' = Calls
      /\ update'[c].patch = Store!Unset(ids)
      /\ \A d \in Calls \ {c} : update'[d] = update[d]
  BY CallNames DEF Shape, Store!BeginUpdate
<1> SUFFICES ASSUME NEW x \in Ids, NEW o \in {"create", "delete"}, NEW s \in Slices,
                    update'[<<x, o, s>>] # Store!Idle,
                    <<x, o, s>> = SavesAssets(x) => creating'[x] = "cleanUp"
             PROVE  Unsets(x, o, s)'
  BY <1>1 DEF ErasesOnlyItsOwn
<1>2. CASE <<x, o, s>> = c
  <2>1. x = id /\ o = op /\ s = slice
    BY <1>2
  <2>2. ids = Erased(x, s)
    BY <2>1
  <2>3. update'[<<x, o, s>>].patch = Store!Unset(Erased(x, s))
    BY <1>1, <1>2, <2>2
  <2> QED BY <2>3 DEF Unsets, Store!Unset
<1>3. CASE <<x, o, s>> # c
  <2>1. update'[<<x, o, s>>] = update[<<x, o, s>>]
    BY <1>1, <1>3, CallNames
  <2>2. Unsets(x, o, s)
    BY <2>1 DEF ErasesOnlyItsOwn
  <2> QED BY <2>1, <2>2 DEF Unsets
<1> QED BY <1>2, <1>3

\* A step that leaves the updates alone, and begins no clean-up.
LEMMA UpdatesUntouched ==
  ASSUME ErasesOnlyItsOwn, UNCHANGED update,
         \A id \in Ids : creating'[id] = "cleanUp" => creating[id] = "cleanUp"
  PROVE  ErasesOnlyItsOwn'
BY DEF ErasesOnlyItsOwn, Unsets

\* A step that leaves the accounts alone, and brings no call to save its account.
LEMMA PathsUntouched ==
  ASSUME FreeUnlessRaced, DistinctUnlessRaced, UNCHANGED <<accounts, path, stale, clobbered>>,
         \A id \in Ids : creating'[id] = "save" => creating[id] = "save"
  PROVE  FreeUnlessRaced' /\ DistinctUnlessRaced'
BY DEF FreeUnlessRaced, DistinctUnlessRaced, Stored

------------------------------------------------------------------------------
(* The actions.                                                            *)

\* The update of a call of createAccount is that of its account.
LEMMA CreatesStep ==
  ASSUME Shape, NEW id \in Ids, NEW step, Creates(id, step)
  PROVE  /\ DOMAIN creating' = Ids
         /\ creating'[id] = step
         /\ \A x \in Ids \ {id} : creating'[x] = creating[x]
BY DEF Shape, Creates

\* The steps of createAccount between which nothing is saved or erased.
LEMMA QuietSteps ==
  ASSUME IInv, NEW id \in Ids,
         \/ \E s \in Sources, p \in Named \cup {NoAccount} : CreateAccount(id, s, p)
         \/ AnnounceCreated(id) \/ Schedule(id)
         \/ DeleteAccount(id) \/ LoadAccount(id) \/ AnnounceDeleted(id) \/ RefuseDeleted(id)
         \/ \E op \in {"create", "delete"} : EraseEnds(id, op)
  PROVE  IInv'
<1>1. UNCHANGED <<accounts, update, path, stale, clobbered>>
  BY DEF CreateAccount, AnnounceCreated, Schedule, DeleteAccount, LoadAccount, AnnounceDeleted,
         RefuseDeleted, EraseEnds, stored, creation, history
<1>2. (\E step \in {"list", "schedule", "created", "failed"} : Creates(id, step)) \/ UNCHANGED creating
  BY DEF CreateAccount, AnnounceCreated, Schedule, DeleteAccount, LoadAccount, AnnounceDeleted,
         RefuseDeleted, EraseEnds, creation
<1>3. /\ DOMAIN creating' = Ids
      /\ \A x \in Ids : creating'[x] \in {"save", "cleanUp"} => creating[x] = creating'[x]
  BY <1>2, CreatesStep DEF IInv, Shape
<1>4. Shape'
  BY <1>1, <1>3 DEF IInv, Shape
<1>5. ErasesOnlyItsOwn'
  BY <1>1, <1>3, UpdatesUntouched DEF IInv
<1>6. FreeUnlessRaced' /\ DistinctUnlessRaced'
  BY <1>1, <1>3, PathsUntouched DEF IInv
<1> QED BY <1>4, <1>5, <1>6 DEF IInv

\* createAccount goes on to save only a path that no account has.
LEMMA ListAccountsStep ==
  ASSUME IInv, NEW id \in Ids, ListAccounts(id)
  PROVE  IInv'
<1> DEFINE chosen == PathFor(request[id])
           taken == \E other \in Stored : accounts[other] = chosen
<1>1. UNCHANGED <<accounts, update, stale, clobbered>>
  BY DEF ListAccounts, stored, history
<1>2. path' = [path EXCEPT ![id] = chosen]
  BY DEF ListAccounts
<1>3. \E step \in {"save", "skipped", "duplicate"} :
        Creates(id, step) /\ (step = "save" => ~taken)
  BY DEF ListAccounts
<1> HIDE DEF chosen, taken
<1>4. /\ DOMAIN creating' = Ids
      /\ creating'[id] = "save" => ~taken
      /\ creating'[id] # "cleanUp"
      /\ \A x \in Ids \ {id} : creating'[x] = creating[x]
  BY <1>3, CreatesStep DEF IInv
<1>5. Shape'
  BY <1>1, <1>2, <1>4 DEF IInv, Shape
<1>6. ErasesOnlyItsOwn'
  BY <1>1, <1>4, UpdatesUntouched DEF IInv
<1>7. FreeUnlessRaced'
  <2> SUFFICES ASSUME NEW x \in Ids, x \notin stale', creating'[x] = "save",
                      NEW other \in Stored', accounts'[other] = path'[x]
               PROVE  other \in clobbered'
    BY DEF FreeUnlessRaced
  <2>1. other \in Stored /\ accounts[other] = path'[x]
    BY <1>1 DEF Stored
  <2>2. CASE x = id
    <3>1. path'[x] = chosen
      BY <1>2, <2>2 DEF IInv, Shape
    <3> QED BY <1>4, <2>1, <2>2, <3>1 DEF taken
  <2>3. CASE x # id
    <3>1. path'[x] = path[x] /\ creating[x] = "save"
      BY <1>2, <1>4, <2>3 DEF IInv, Shape
    <3> QED BY <1>1, <2>1, <3>1 DEF IInv, FreeUnlessRaced
  <2> QED BY <2>2, <2>3
<1>8. DistinctUnlessRaced'
  BY <1>1 DEF IInv, DistinctUnlessRaced, Stored
<1> QED BY <1>5, <1>6, <1>7, <1>8 DEF IInv

\* Saving an account makes every other call that is about to save one stale.
LEMMA SaveAccountStep ==
  ASSUME IInv, NEW id \in Ids, SaveAccount(id)
  PROVE  IInv'
<1>1. /\ UNCHANGED <<update, path, clobbered>>
      /\ accounts' = [accounts EXCEPT ![id] = path[id]]
      /\ stale' = stale \cup {other \in Ids \ {id} : creating[other] = "save"}
      /\ creating[id] = "save"
  BY DEF SaveAccount, Store!Write
<1>2. /\ DOMAIN creating' = Ids
      /\ creating'[id] = "fetch"
      /\ \A x \in Ids \ {id} : creating'[x] = creating[x]
  BY CreatesStep DEF SaveAccount, IInv
<1>3. Shape'
  BY <1>1, <1>2 DEF IInv, Shape
<1>4. ErasesOnlyItsOwn'
  BY <1>1, <1>2, UpdatesUntouched DEF IInv
<1>5. FreeUnlessRaced'
  BY <1>1, <1>2 DEF FreeUnlessRaced
<1>6. \A other \in Stored \ {id} :
        accounts[other] = path[id] => id \in stale \/ other \in clobbered
  BY <1>1 DEF IInv, FreeUnlessRaced
<1>7. /\ \A other \in Stored' \ {id} : other \in Stored /\ accounts'[other] = accounts[other]
      /\ accounts'[id] = path[id]
  BY <1>1 DEF IInv, Shape, Stored
<1>8. DistinctUnlessRaced'
  <2> SUFFICES ASSUME NEW a \in Stored', NEW b \in Stored', a # b, accounts'[a] = accounts'[b]
               PROVE  {a, b} \cap (stale' \cup clobbered') # {}
    BY DEF DistinctUnlessRaced
  <2>1. CASE a = id
    BY <1>1, <1>6, <1>7, <2>1
  <2>2. CASE b = id
    BY <1>1, <1>6, <1>7, <2>2
  <2>3. CASE a # id /\ b # id
    BY <1>1, <1>7, <2>3 DEF IInv, DistinctUnlessRaced
  <2> QED BY <2>1, <2>2, <2>3
<1> QED BY <1>3, <1>4, <1>5, <1>8 DEF IInv

\* The first requests of the updates.
LEMMA ReadStep ==
  ASSUME IInv, NEW id \in Ids,
         \/ ReadState(id)
         \/ \E op \in {"create", "delete"}, slice \in Slices : EraseRead(id, op, slice)
  PROVE  IInv'
<1>1. UNCHANGED <<accounts, path, stale, clobbered>>
  BY DEF ReadState, EraseRead, Store!BeginUpdate, creation, history
<1>2. /\ DOMAIN creating' = Ids
      /\ \A x \in Ids : creating'[x] \in {"save", "cleanUp"} => creating[x] = creating'[x]
  <2>1. Creates(id, "writeState") \/ UNCHANGED creating
    BY DEF ReadState, EraseRead, creation
  <2> QED BY <2>1, CreatesStep DEF IInv, Shape
<1>3. ErasesOnlyItsOwn' /\ DOMAIN update' = Calls
  <2>1. CASE ReadState(id)
    <3>1. creating'[id] # "cleanUp"
      BY <2>1, CreatesStep DEF ReadState, IInv
    <3>2. "create" \in {"create", "delete"} /\ "keyringAccounts" \in Slices
      BY DEF Slices
    <3>3. SavesAssets(id) = <<id, "create", "keyringAccounts">>
      BY DEF SavesAssets
    <3>4. Store!BeginUpdate(<<id, "create", "keyringAccounts">>, Store!Unset({}))
      BY <2>1, <3>3 DEF ReadState
    <3> QED BY <1>2, <3>1, <3>2, <3>3, <3>4, BeginKeepsUpdates DEF IInv
  <2>2. ASSUME NEW op \in {"create", "delete"}, NEW slice \in Slices, EraseRead(id, op, slice)
        PROVE  ErasesOnlyItsOwn' /\ DOMAIN update' = Calls
    <3>1. Store!BeginUpdate(<<id, op, slice>>, Store!Unset(Erased(id, slice)))
      BY <2>2 DEF EraseRead
    <3> QED BY <1>2, <3>1, BeginKeepsUpdates DEF IInv
  <2> QED BY <2>1, <2>2
<1>4. Shape'
  BY <1>1, <1>2, <1>3 DEF IInv, Shape
<1>5. FreeUnlessRaced' /\ DistinctUnlessRaced'
  BY <1>1, <1>2, PathsUntouched DEF IInv
<1> QED BY <1>3, <1>4, <1>5 DEF IInv

\* Their second requests.
LEMMA WriteStep ==
  ASSUME IInv, NEW id \in Ids,
         \/ WriteState(id)
         \/ \E op \in {"create", "delete"}, slice \in Slices : EraseWrite(id, op, slice)
  PROVE  IInv'
<1>1. UNCHANGED <<path, stale>>
  BY DEF WriteState, EraseWrite, creation
<1>2. /\ DOMAIN creating' = Ids
      /\ \A x \in Ids : creating'[x] \in {"save", "cleanUp"} => creating[x] = creating'[x]
  <2>1. Creates(id, "announce") \/ UNCHANGED creating
    BY DEF WriteState, EraseWrite, creation
  <2> QED BY <2>1, CreatesStep DEF IInv, Shape
<1>3. PICK c \in Calls, ids \in SUBSET Ids :
        /\ FinishUpdate(c, ids)
        /\ \A k \in ids : k \in DOMAIN update[c].patch /\ update[c].patch[k] = NoAccount
  <2>1. CASE WriteState(id)
    <3>1. FinishUpdate(SavesAssets(id), {})
      BY <2>1 DEF WriteState
    <3>2. SavesAssets(id) \in Calls
      BY DEF SavesAssets, Calls, Slices
    <3> QED BY <3>1, <3>2
  <2>2. ASSUME NEW op \in {"create", "delete"}, NEW slice \in Slices, EraseWrite(id, op, slice)
        PROVE  \E c \in Calls, ids \in SUBSET Ids :
                 /\ FinishUpdate(c, ids)
                 /\ \A k \in ids : k \in DOMAIN update[c].patch /\ update[c].patch[k] = NoAccount
    <3>1. /\ IsErasing(id, op)
          /\ update[<<id, op, slice>>] # Store!Idle
          /\ FinishUpdate(<<id, op, slice>>, Erased(id, slice))
      BY <2>2 DEF EraseWrite
    <3>2. <<id, op, slice>> = SavesAssets(id) => creating[id] = "cleanUp"
      BY <3>1 DEF IsErasing, SavesAssets
    <3>3. Unsets(id, op, slice)
      BY <3>1, <3>2 DEF IInv, ErasesOnlyItsOwn
    <3>4. Erased(id, slice) \in SUBSET Ids /\ <<id, op, slice>> \in Calls
      BY CallNames DEF Erased
    <3> QED BY <3>1, <3>3, <3>4 DEF Unsets
  <2> QED BY <2>1, <2>2
<1>4. /\ DOMAIN accounts' = Ids
      /\ \A k \in Ids : accounts'[k] = accounts[k] \/ accounts'[k] = NoAccount \/ k \in clobbered'
      /\ clobbered \subseteq clobbered'
      /\ update' = [update EXCEPT ![c] = Store!Idle]
  BY <1>3, FinishChanges DEF IInv
<1>5. ErasesOnlyItsOwn' /\ DOMAIN update' = Calls
  BY <1>2, <1>4, IdleKeepsUpdates DEF IInv
<1>6. FreeUnlessRaced' /\ DistinctUnlessRaced'
  BY <1>1, <1>2, <1>4, FinishKeepsPaths DEF IInv
<1>7. Shape'
  BY <1>1, <1>2, <1>4, <1>5 DEF IInv, Shape
<1> QED BY <1>5, <1>6, <1>7 DEF IInv

\* Rejections drop an update, or begin the clean-up when none is under way.
LEMMA FailStep ==
  ASSUME IInv, NEW id \in Ids,
         \/ FailToCreate(id)
         \/ \E op \in {"create", "delete"}, slice \in Slices : EraseFails(id, op, slice)
  PROVE  IInv'
<1>1. UNCHANGED <<accounts, path, stale, clobbered>>
  BY DEF FailToCreate, EraseFails, creation
<1>2. /\ DOMAIN creating' = Ids
      /\ \A x \in Ids : creating'[x] = "save" => creating[x] = "save"
      /\ \A x \in Ids \ {id} : creating'[x] = creating[x]
  <2>1. Creates(id, "cleanUp") \/ UNCHANGED creating
    BY DEF FailToCreate, EraseFails, creation
  <2> QED BY <2>1, CreatesStep DEF IInv, Shape
<1>3. ErasesOnlyItsOwn' /\ DOMAIN update' = Calls
  <2>1. CASE FailToCreate(id)
    <3>1. update' = [update EXCEPT ![SavesAssets(id)] = Store!Idle]
      BY <2>1 DEF FailToCreate
    <3>2. SavesAssets(id) \in Calls
      BY DEF SavesAssets, Calls, Slices
    <3> QED BY <1>2, <3>1, <3>2, IdleKeepsUpdates DEF IInv
  <2>2. ASSUME NEW op \in {"create", "delete"}, NEW slice \in Slices, EraseFails(id, op, slice)
        PROVE  ErasesOnlyItsOwn' /\ DOMAIN update' = Calls
    <3>1. UNCHANGED update \/ update' = [update EXCEPT ![<<id, op, slice>>] = Store!Idle]
      BY <2>2 DEF EraseFails
    <3>2. UNCHANGED creating /\ <<id, op, slice>> \in Calls
      BY <2>2, CallNames DEF EraseFails, creation
    <3> QED BY <3>1, <3>2, UpdatesUntouched, IdleKeepsUpdates DEF IInv, Shape
  <2> QED BY <2>1, <2>2
<1>4. Shape'
  BY <1>1, <1>2, <1>3 DEF IInv, Shape
<1>5. FreeUnlessRaced' /\ DistinctUnlessRaced'
  BY <1>1, <1>2, PathsUntouched DEF IInv
<1> QED BY <1>3, <1>4, <1>5 DEF IInv

\* Every step keeps the invariant: one case per action.
LEMMA NextPreserves == IInv /\ [Next]_vars => IInv'
<1> SUFFICES ASSUME IInv, [Next]_vars PROVE IInv'
  OBVIOUS
<1>1. CASE UNCHANGED vars
  <2>1. UNCHANGED <<accounts, update, path, creating, stale, clobbered>>
    BY <1>1 DEF vars, stored, creation, history
  <2>2. FreeUnlessRaced' /\ DistinctUnlessRaced'
    BY <2>1, PathsUntouched DEF IInv
  <2>3. ErasesOnlyItsOwn'
    BY <2>1, UpdatesUntouched DEF IInv
  <2> QED BY <2>1, <2>2, <2>3 DEF IInv, Shape
<1>2. ASSUME NEW id \in Ids,
             \/ \E s \in Sources, p \in Named \cup {NoAccount} : CreateAccount(id, s, p)
             \/ ListAccounts(id) \/ SaveAccount(id) \/ ReadState(id) \/ WriteState(id)
             \/ AnnounceCreated(id) \/ Schedule(id) \/ FailToCreate(id)
             \/ DeleteAccount(id) \/ LoadAccount(id) \/ AnnounceDeleted(id) \/ RefuseDeleted(id)
             \/ \E op \in {"create", "delete"}, slice \in Slices :
                  EraseRead(id, op, slice) \/ EraseWrite(id, op, slice) \/ EraseFails(id, op, slice)
             \/ \E op \in {"create", "delete"} : EraseEnds(id, op)
      PROVE  IInv'
  BY <1>2, QuietSteps, ListAccountsStep, SaveAccountStep, ReadStep, WriteStep, FailStep
<1> QED BY <1>1, <1>2 DEF Next

\* Two accounts have the same derivation path only if one was saved from a list that
\* another save had outdated, or came back by a lost update; however many accounts there
\* are and calls overlap.
THEOREM PathsDistinct == Spec => []DistinctUnlessRaced
<1>1. IInv => DistinctUnlessRaced
  BY DEF IInv
<1> QED BY <1>1, Initially, NextPreserves, PTL DEF Spec

------------------------------------------------------------------------------
(* The extension and the store.  An account that no lost update rewrote    *)
(* and no reason excuses is listed by both as far as its calls have got.   *)

\* The account is still to be erased from the slice: by a call that has not read the
\* state yet, or by one that holds the patch that unsets it.
BeingErased(id, op) ==
  \/ <<id, op, "keyringAccounts">> \in erase
  \/ update[<<id, op, "keyringAccounts">>] # Store!Idle

\* Where an account that is being created must be listed.
CreatedInStep(id) ==
  /\ creating[id] \in {"none", "list", "save", "skipped", "duplicate", "failed"} =>
       deleting[id] = "none" /\ id \notin Stored /\ id \notin extension
  /\ creating[id] \in {"fetch", "writeState", "announce"} =>
       deleting[id] = "none" /\ id \in Stored /\ id \notin extension
  /\ creating[id] = "cleanUp" =>
       /\ deleting[id] = "none" /\ id \notin extension
       /\ id \in Stored => BeingErased(id, "create")

\* Where one must be listed that was announced, and may be deleted.
DeletedInStep(id) ==
  creating[id] \in {"schedule", "created"} =>
    /\ deleting[id] \in {"none", "load", "announce", "refused"} =>
         id \in Stored /\ id \in extension
    /\ deleting[id] = "erase" =>
         /\ id \notin extension
         /\ id \in Stored => BeingErased(id, "delete")
    /\ deleting[id] = "deleted" => id \notin Stored /\ id \notin extension
    /\ deleting[id] # "missing"

Excepted(id) == id \in clobbered \cup excused

InStep(id) == Excepted(id) \/ (CreatedInStep(id) /\ DeletedInStep(id))

AllInStep == \A id \in Ids : InStep(id)

\* The reasons stay.
LEMMA ReasonsStay == [Next]_vars => clobbered \subseteq clobbered' /\ excused \subseteq excused'
<1> SUFFICES ASSUME [Next]_vars PROVE clobbered \subseteq clobbered' /\ excused \subseteq excused'
  OBVIOUS
<1>1. CASE UNCHANGED vars
  BY <1>1 DEF vars, history
<1>2. ASSUME NEW id \in Ids,
             \/ \E s \in Sources, p \in Named \cup {NoAccount} : CreateAccount(id, s, p)
             \/ ListAccounts(id) \/ AnnounceCreated(id) \/ Schedule(id) \/ ReadState(id)
             \/ DeleteAccount(id) \/ LoadAccount(id) \/ AnnounceDeleted(id) \/ RefuseDeleted(id)
             \/ \E op \in {"create", "delete"} : EraseEnds(id, op)
             \/ \E op \in {"create", "delete"}, slice \in Slices : EraseRead(id, op, slice)
      PROVE  UNCHANGED <<clobbered, excused>>
  BY <1>2 DEF CreateAccount, ListAccounts, AnnounceCreated, Schedule, ReadState, DeleteAccount,
              LoadAccount, AnnounceDeleted, RefuseDeleted, EraseEnds, EraseRead, history
<1>3. ASSUME NEW id \in Ids,
             \/ SaveAccount(id) \/ WriteState(id) \/ FailToCreate(id)
             \/ \E op \in {"create", "delete"}, slice \in Slices :
                  EraseWrite(id, op, slice) \/ EraseFails(id, op, slice)
      PROVE  clobbered \subseteq clobbered' /\ excused \subseteq excused'
  BY <1>3 DEF SaveAccount, WriteState, FailToCreate, EraseWrite, EraseFails, FinishUpdate
<1> QED BY <1>1, <1>2, <1>3 DEF Next

\* Nothing of this account changes, except that more calls may have to erase it.
Untouched(id) ==
  /\ creating'[id] = creating[id]
  /\ deleting'[id] = deleting[id]
  /\ id \in extension' <=> id \in extension
  /\ id \in Stored' <=> id \in Stored
  /\ BeingErased(id, "create") => BeingErased(id, "create")'
  /\ BeingErased(id, "delete") => BeingErased(id, "delete")'

\* Then it is as much in step as before.
LEMMA UntouchedInStep ==
  ASSUME NEW id \in Ids, InStep(id), ~Excepted(id)', Untouched(id),
         clobbered \subseteq clobbered', excused \subseteq excused'
  PROVE  InStep(id)'
BY DEF InStep, Excepted, CreatedInStep, DeletedInStep, Untouched

\* createAccount, but for its updates, concerns its own account only.
LEMMA CreationElsewhere ==
  ASSUME TypeInv, NEW x \in Ids, NEW id \in Ids \ {x},
         \/ \E s \in Sources, p \in Named \cup {NoAccount} : CreateAccount(x, s, p)
         \/ ListAccounts(x) \/ SaveAccount(x) \/ ReadState(x)
         \/ AnnounceCreated(x) \/ Schedule(x) \/ FailToCreate(x)
  PROVE  Untouched(id)
<1>1. creating'[id] = creating[id]
  BY DEF CreateAccount, ListAccounts, SaveAccount, ReadState, AnnounceCreated, Schedule, FailToCreate,
         Creates, TypeInv, KeyringTypes
<1>2. UNCHANGED deleting /\ (id \in extension' <=> id \in extension) /\ erase \subseteq erase'
  BY DEF CreateAccount, ListAccounts, SaveAccount, ReadState, AnnounceCreated, Schedule, FailToCreate,
         deletion
<1>3. UNCHANGED accounts \/ accounts' = [accounts EXCEPT ![x] = path[x]]
  BY DEF CreateAccount, ListAccounts, SaveAccount, ReadState, AnnounceCreated, Schedule, FailToCreate,
         Store!Write, Store!BeginUpdate, stored
<1>4. id \in Stored' <=> id \in Stored
  BY <1>3 DEF Stored, TypeInv, Store!StoreTypeOK, Store!Document
<1>5. UNCHANGED update \/ \E u : update' = [update EXCEPT ![SavesAssets(x)] = u]
  BY DEF CreateAccount, ListAccounts, SaveAccount, ReadState, AnnounceCreated, Schedule, FailToCreate,
         Store!Write, Store!BeginUpdate, stored
<1>6. \A op \in {"create", "delete"} : UNCHANGED update[<<id, op, "keyringAccounts">>]
  <2> SUFFICES ASSUME NEW op \in {"create", "delete"} PROVE UNCHANGED update[<<id, op, "keyringAccounts">>]
    OBVIOUS
  <2>1. <<id, op, "keyringAccounts">> \in Calls /\ <<id, op, "keyringAccounts">> # SavesAssets(x)
    BY CallNames DEF Slices, SavesAssets
  <2> QED BY <1>5, <2>1 DEF TypeInv, Store!StoreTypeOK
<1> QED BY <1>1, <1>2, <1>4, <1>6 DEF Untouched, BeingErased

\* So does deleteAccount.
LEMMA DeletionElsewhere ==
  ASSUME TypeInv, NEW x \in Ids, NEW id \in Ids \ {x},
         \/ DeleteAccount(x) \/ LoadAccount(x) \/ AnnounceDeleted(x) \/ RefuseDeleted(x)
         \/ \E op \in {"create", "delete"} : EraseEnds(x, op)
  PROVE  Untouched(id)
<1>1. creating'[id] = creating[id] /\ deleting'[id] = deleting[id]
  BY DEF DeleteAccount, LoadAccount, AnnounceDeleted, RefuseDeleted, EraseEnds, Creates, Deletes,
         creation, TypeInv, KeyringTypes
<1>2. (id \in extension' <=> id \in extension) /\ erase \subseteq erase' /\ UNCHANGED <<accounts, update>>
  BY DEF DeleteAccount, LoadAccount, AnnounceDeleted, RefuseDeleted, EraseEnds, stored
<1> QED BY <1>1, <1>2 DEF Untouched, BeingErased, Stored

\* And, unless it is clobbered, #deleteAccountFromState and the update of the assets.
LEMMA UpdatesElsewhere ==
  ASSUME TypeInv, NEW x \in Ids, NEW id \in Ids \ {x}, id \notin clobbered',
         \/ WriteState(x)
         \/ \E op \in {"create", "delete"}, slice \in Slices :
              EraseRead(x, op, slice) \/ EraseWrite(x, op, slice) \/ EraseFails(x, op, slice)
  PROVE  Untouched(id)
<1>1. creating'[id] = creating[id] /\ UNCHANGED <<deleting, extension>>
  BY DEF WriteState, EraseRead, EraseWrite, EraseFails, Creates, creation, deletion, TypeInv, KeyringTypes
<1>2. PICK op \in {"create", "delete"}, slice \in Slices :
        /\ UNCHANGED erase \/ erase' = erase \ {<<x, op, slice>>}
        /\ UNCHANGED update \/ \E u : update' = [update EXCEPT ![<<x, op, slice>>] = u]
  BY DEF WriteState, EraseRead, EraseWrite, EraseFails, FinishUpdate, Store!FinishUpdate,
         Store!BeginUpdate, SavesAssets, deletion, Slices
<1>3. ASSUME NEW o \in {"create", "delete"}, BeingErased(id, o)
      PROVE  BeingErased(id, o)'
  <2>1. <<id, o, "keyringAccounts">> \in Calls /\ <<id, o, "keyringAccounts">> # <<x, op, slice>>
    BY CallNames DEF Slices
  <2>2. update'[<<id, o, "keyringAccounts">>] = update[<<id, o, "keyringAccounts">>]
    BY <1>2, <2>1 DEF TypeInv, Store!StoreTypeOK
  <2> QED BY <1>2, <1>3, <2>1, <2>2 DEF BeingErased
<1>4. accounts'[id] = accounts[id]
  BY DEF WriteState, EraseRead, EraseWrite, EraseFails, FinishUpdate, Erased, Store!BeginUpdate
<1> QED BY <1>1, <1>3, <1>4 DEF Untouched, Stored

------------------------------------------------------------------------------
(* The account of the call itself.                                         *)

\* createAccount, up to its rejection.
LEMMA CreationInStep ==
  ASSUME TypeInv, IInv, NEW id \in Ids, InStep(id), ~Excepted(id), ~Excepted(id)',
         \/ \E s \in Sources, p \in Named \cup {NoAccount} : CreateAccount(id, s, p)
         \/ ListAccounts(id) \/ SaveAccount(id) \/ ReadState(id) \/ WriteState(id)
         \/ AnnounceCreated(id) \/ Schedule(id)
  PROVE  InStep(id)'
<1>1. CreatedInStep(id) /\ DeletedInStep(id)
  BY DEF InStep
<1>2. UNCHANGED deleting
  BY DEF CreateAccount, ListAccounts, SaveAccount, ReadState, WriteState, AnnounceCreated, Schedule, deletion
<1>3. CASE \/ \E s \in Sources, p \in Named \cup {NoAccount} : CreateAccount(id, s, p)
           \/ ListAccounts(id) \/ Schedule(id)
  <2>1. UNCHANGED <<accounts, extension>>
    BY <1>3 DEF CreateAccount, ListAccounts, Schedule, stored
  <2>2. \/ creating[id] \in {"none", "list"} /\ creating'[id] \in {"list", "save", "skipped", "duplicate"}
        \/ creating[id] = "schedule" /\ creating'[id] = "created"
    BY <1>3 DEF CreateAccount, ListAccounts, Schedule, Creates, TypeInv, KeyringTypes
  <2>3. CASE creating[id] = "schedule"
    <3>1. creating'[id] = "created" /\ DeletedInStep(id)' = DeletedInStep(id)'
      BY <2>2, <2>3
    <3>2. BeingErased(id, "delete") => BeingErased(id, "delete")'
      BY <1>3 DEF CreateAccount, ListAccounts, Schedule, stored, deletion, BeingErased
    <3> QED BY <1>1, <1>2, <2>1, <2>3, <3>1, <3>2 DEF InStep, CreatedInStep, DeletedInStep, Stored
  <2>4. CASE creating[id] # "schedule"
    BY <1>1, <1>2, <2>1, <2>2, <2>4 DEF InStep, CreatedInStep, DeletedInStep, Stored
  <2> QED BY <2>3, <2>4
<1>4. CASE SaveAccount(id)
  <2>1. creating[id] = "save" /\ creating'[id] = "fetch" /\ UNCHANGED extension
    BY <1>4 DEF SaveAccount, Creates, TypeInv, KeyringTypes
  <2>2. accounts'[id] = path[id] /\ path[id] # NoAccount
    BY <1>4, <2>1, NoAccountAssumption
    DEF SaveAccount, Store!Write, TypeInv, KeyringTypes, Store!StoreTypeOK, Store!Document
  <2> QED BY <1>1, <1>2, <2>1, <2>2 DEF InStep, CreatedInStep, DeletedInStep, Stored
<1>5. CASE ReadState(id) \/ WriteState(id)
  <2>1. /\ creating[id] \in {"fetch", "writeState"}
        /\ creating'[id] \in {"writeState", "announce"}
        /\ UNCHANGED extension
    BY <1>5 DEF ReadState, WriteState, Creates, TypeInv, KeyringTypes
  <2>2. accounts'[id] = accounts[id]
    BY <1>5 DEF ReadState, WriteState, Store!BeginUpdate, FinishUpdate, Excepted
  <2> QED BY <1>1, <1>2, <2>1, <2>2 DEF InStep, CreatedInStep, DeletedInStep, Stored
<1>6. CASE AnnounceCreated(id)
  <2>1. /\ creating[id] = "announce" /\ creating'[id] = "schedule"
        /\ id \in extension' /\ UNCHANGED accounts
    BY <1>6 DEF AnnounceCreated, Creates, stored, TypeInv, KeyringTypes
  <2> QED BY <1>1, <1>2, <2>1 DEF InStep, CreatedInStep, DeletedInStep, Stored
<1> QED BY <1>3, <1>4, <1>5, <1>6

\* Its rejection, before the account was announced.
LEMMA FailureInStep ==
  ASSUME TypeInv, IInv, NEW id \in Ids, InStep(id), ~Excepted(id), ~Excepted(id)', FailToCreate(id)
  PROVE  InStep(id)'
<1>1. CreatedInStep(id) /\ DeletedInStep(id)
  BY DEF InStep
<1>2. /\ creating[id] \in {"list", "save", "fetch", "writeState", "announce"}
      /\ creating'[id] = "cleanUp"
      /\ UNCHANGED <<accounts, extension, deleting>>
  BY DEF FailToCreate, Creates, Excepted, TypeInv, KeyringTypes
<1>3. BeingErased(id, "create")'
  BY DEF FailToCreate, BeingErased, Slices
<1> QED BY <1>1, <1>2, <1>3 DEF InStep, CreatedInStep, DeletedInStep, Stored

\* deleteAccount, up to its first request to the store.
LEMMA DeletionInStep ==
  ASSUME TypeInv, IInv, NEW id \in Ids, InStep(id), ~Excepted(id), ~Excepted(id)',
         DeleteAccount(id) \/ LoadAccount(id) \/ AnnounceDeleted(id) \/ RefuseDeleted(id)
  PROVE  InStep(id)'
<1>1. CreatedInStep(id) /\ DeletedInStep(id)
  BY DEF InStep
<1>2. UNCHANGED <<accounts, creating>>
  BY DEF DeleteAccount, LoadAccount, AnnounceDeleted, RefuseDeleted, stored, creation
<1>3. creating[id] \in CreateSteps \cup CreateEnds /\ deleting \in [Ids -> DeleteSteps \cup DeleteEnds]
  BY DEF TypeInv, KeyringTypes
<1>4. creating[id] \in {"schedule", "created"}
  <2>1. id \in extension \/ deleting[id] # "none"
    BY DEF DeleteAccount, LoadAccount, AnnounceDeleted, RefuseDeleted
  <2> QED BY <1>1, <1>3, <2>1 DEF CreatedInStep, CreateSteps, CreateEnds
<1>5. CASE DeleteAccount(id) \/ LoadAccount(id) \/ RefuseDeleted(id)
  <2>1. UNCHANGED extension
    BY <1>5 DEF DeleteAccount, LoadAccount, RefuseDeleted
  <2>2. /\ deleting[id] \in {"none", "load", "announce"}
        /\ id \in Stored => deleting'[id] \in {"load", "announce", "refused"}
    BY <1>3, <1>5 DEF DeleteAccount, LoadAccount, RefuseDeleted, Deletes
  <2> QED BY <1>1, <1>2, <1>4, <2>1, <2>2 DEF InStep, CreatedInStep, DeletedInStep, Stored
<1>6. CASE AnnounceDeleted(id)
  <2>1. /\ deleting'[id] = "erase"
        /\ id \notin extension'
        /\ <<id, "delete", "keyringAccounts">> \in erase'
    BY <1>3, <1>6 DEF AnnounceDeleted, Deletes, Slices
  <2> QED BY <1>1, <1>2, <1>4, <2>1 DEF InStep, CreatedInStep, DeletedInStep, BeingErased, Stored
<1> QED BY <1>5, <1>6

\* #deleteAccountFromState: the update of this account is read, written or refused.
LEMMA ErasingInStep ==
  ASSUME TypeInv, IInv, NEW id \in Ids, InStep(id), ~Excepted(id), ~Excepted(id)',
         NEW op \in {"create", "delete"}, NEW slice \in Slices,
         EraseRead(id, op, slice) \/ EraseWrite(id, op, slice) \/ EraseFails(id, op, slice)
  PROVE  InStep(id)'
<1> DEFINE c == <<id, op, slice>>
<1>1. CreatedInStep(id) /\ DeletedInStep(id)
  BY DEF InStep
<1>2. UNCHANGED <<creating, deleting, extension>>
  BY DEF EraseRead, EraseWrite, EraseFails, creation, deletion
<1>3. c \in Calls
  BY CallNames
<1>4. ASSUME NEW o \in {"create", "delete"}, BeingErased(id, o), id \in Stored'
      PROVE  BeingErased(id, o)'
  <2> DEFINE d == <<id, o, "keyringAccounts">>
  <2>1. d \in Calls
    BY CallNames DEF Slices
  <2>2. CASE d # c
    <3>1. d \in erase => d \in erase'
      BY <2>2 DEF EraseRead, EraseWrite, EraseFails, deletion
    <3>2. update'[d] = update[d]
      BY <1>3, <2>1, <2>2
      DEF EraseRead, EraseWrite, EraseFails, FinishUpdate, Store!BeginUpdate, Store!FinishUpdate,
          TypeInv, Store!StoreTypeOK
    <3> QED BY <1>4, <3>1, <3>2 DEF BeingErased
  <2>3. CASE d = c
    <3>1. o = op /\ slice = "keyringAccounts"
      BY <2>3
    <3>2. ~EraseFails(id, op, slice)
      BY <3>1 DEF EraseFails, Erased, Excepted
    <3>3. ASSUME EraseRead(id, op, slice) PROVE update'[c] # Store!Idle
      <4>1. update'[c] = [phase |-> "write", snapshot |-> accounts,
                          patch |-> Store!Unset(Erased(id, slice))]
        BY <1>3, <3>3 DEF EraseRead, Store!BeginUpdate, TypeInv, Store!StoreTypeOK
      <4>2. update'[c].phase = "write" /\ Store!Idle.phase = "idle"
        BY <4>1 DEF Store!Idle
      <4> QED BY <4>2
    <3>4. ASSUME EraseWrite(id, op, slice) PROVE FALSE
      <4>1. c = SavesAssets(id) => creating[id] = "cleanUp"
        BY <3>4 DEF EraseWrite, IsErasing, SavesAssets
      <4>2. Unsets(id, op, slice)
        BY <3>4, <4>1 DEF EraseWrite, IInv, ErasesOnlyItsOwn
      <4>3. id \in DOMAIN update[c].patch /\ update[c].patch[id] = NoAccount
        BY <3>1, <4>2 DEF Unsets, Erased
      <4>4. accounts'[id] = NoAccount
        BY <3>4, <4>3 DEF EraseWrite, FinishUpdate, Store!FinishUpdate, Store!Apply
      <4> QED BY <1>4, <4>4 DEF Stored
    <3> QED BY <2>3, <3>2, <3>3, <3>4 DEF BeingErased
  <2> QED BY <2>2, <2>3
<1>5. id \in Stored' => id \in Stored
  <2>1. \/ accounts'[id] = accounts[id]
        \/ EraseWrite(id, op, slice) /\ slice = "keyringAccounts"
    BY DEF EraseRead, EraseWrite, EraseFails, FinishUpdate, Store!BeginUpdate, Erased, Excepted
  <2>2. ASSUME EraseWrite(id, op, slice), slice = "keyringAccounts" PROVE accounts'[id] = NoAccount
    <3>1. c = SavesAssets(id) => creating[id] = "cleanUp"
      BY <2>2 DEF EraseWrite, IsErasing, SavesAssets
    <3>2. Unsets(id, op, slice)
      BY <2>2, <3>1 DEF EraseWrite, IInv, ErasesOnlyItsOwn
    <3>3. id \in DOMAIN update[c].patch /\ update[c].patch[id] = NoAccount
      BY <2>2, <3>2 DEF Unsets, Erased
    <3> QED BY <2>2, <3>3 DEF EraseWrite, FinishUpdate, Store!FinishUpdate, Store!Apply
  <2> QED BY <2>1, <2>2 DEF Stored
<1>6. creating[id] = "cleanUp" \/ (creating[id] \in {"schedule", "created"} /\ deleting[id] = "erase")
      \/ accounts'[id] = accounts[id]
  <2>1. EraseWrite(id, op, slice) \/ accounts'[id] = accounts[id]
    BY DEF EraseRead, EraseFails, Store!BeginUpdate
  <2>2. EraseWrite(id, op, slice) => creating[id] = "cleanUp" \/ deleting[id] = "erase"
    BY DEF EraseWrite, IsErasing
  <2>3. deleting[id] = "erase" => creating[id] \in {"schedule", "created"}
    BY <1>1 DEF CreatedInStep, TypeInv, KeyringTypes, CreateSteps, CreateEnds
  <2> QED BY <2>1, <2>2, <2>3
<1>7. CASE creating[id] = "cleanUp"
  BY <1>1, <1>2, <1>4, <1>5, <1>7 DEF InStep, CreatedInStep, DeletedInStep
<1>8. CASE creating[id] \in {"schedule", "created"} /\ deleting[id] = "erase"
  BY <1>1, <1>2, <1>4, <1>5, <1>8 DEF InStep, CreatedInStep, DeletedInStep
<1>9. CASE accounts'[id] = accounts[id]
  <2>1. id \in Stored' <=> id \in Stored
    BY <1>9 DEF Stored
  <2> QED BY <1>1, <1>2, <1>4, <2>1 DEF InStep, CreatedInStep, DeletedInStep
<1> QED BY <1>6, <1>7, <1>8, <1>9

\* #deleteAccountFromState is over: no update of the account is left.
LEMMA ErasedInStep ==
  ASSUME TypeInv, IInv, NEW id \in Ids, InStep(id), ~Excepted(id), ~Excepted(id)',
         NEW op \in {"create", "delete"}, EraseEnds(id, op)
  PROVE  InStep(id)'
<1>1. CreatedInStep(id) /\ DeletedInStep(id)
  BY DEF InStep
<1>2. ~BeingErased(id, op) /\ UNCHANGED <<accounts, extension>>
  BY DEF EraseEnds, BeingErased, Slices, stored
<1>3. CASE op = "create"
  <2>1. creating[id] = "cleanUp" /\ creating'[id] = "failed" /\ UNCHANGED deleting
    BY <1>3 DEF EraseEnds, IsErasing, Creates, TypeInv, KeyringTypes
  <2> QED BY <1>1, <1>2, <1>3, <2>1 DEF InStep, CreatedInStep, DeletedInStep, Stored
<1>4. CASE op = "delete"
  <2>1. deleting[id] = "erase" /\ deleting'[id] = "deleted" /\ UNCHANGED creating
    BY <1>4 DEF EraseEnds, IsErasing, Deletes, TypeInv, KeyringTypes
  <2>2. creating[id] \in {"schedule", "created"}
    BY <1>1, <2>1 DEF CreatedInStep, TypeInv, KeyringTypes, CreateSteps, CreateEnds
  <2> QED BY <1>1, <1>2, <1>4, <2>1, <2>2 DEF InStep, CreatedInStep, DeletedInStep, Stored
<1> QED BY <1>3, <1>4

\* One case per group of actions, for the account of the call and for the others.
LEMMA NextInStep == TypeInv /\ IInv /\ AllInStep /\ [Next]_vars => AllInStep'
<1> SUFFICES ASSUME TypeInv, IInv, AllInStep, [Next]_vars, NEW id \in Ids, ~Excepted(id)'
             PROVE  InStep(id)'
  BY DEF AllInStep, InStep
<1>1. clobbered \subseteq clobbered' /\ excused \subseteq excused'
  BY ReasonsStay
<1>2. InStep(id) /\ ~Excepted(id) /\ id \notin clobbered'
  BY <1>1 DEF AllInStep, Excepted
<1>3. CASE UNCHANGED vars
  <2>1. Untouched(id)
    BY <1>3 DEF vars, stored, creation, deletion, Untouched, Stored, BeingErased
  <2> QED BY <1>1, <1>2, <2>1, UntouchedInStep
<1>4. ASSUME NEW x \in Ids,
             \/ \E s \in Sources, p \in Named \cup {NoAccount} : CreateAccount(x, s, p)
             \/ ListAccounts(x) \/ SaveAccount(x) \/ ReadState(x)
             \/ AnnounceCreated(x) \/ Schedule(x) \/ FailToCreate(x)
      PROVE  InStep(id)'
  <2>1. CASE x = id
    BY <1>2, <1>4, <2>1, CreationInStep, FailureInStep
  <2>2. CASE x # id
    BY <1>1, <1>2, <1>4, <2>2, CreationElsewhere, UntouchedInStep
  <2> QED BY <2>1, <2>2
<1>5. ASSUME NEW x \in Ids,
             \/ DeleteAccount(x) \/ LoadAccount(x) \/ AnnounceDeleted(x) \/ RefuseDeleted(x)
             \/ \E op \in {"create", "delete"} : EraseEnds(x, op)
      PROVE  InStep(id)'
  <2>1. CASE x = id
    BY <1>2, <1>5, <2>1, DeletionInStep, ErasedInStep
  <2>2. CASE x # id
    BY <1>1, <1>2, <1>5, <2>2, DeletionElsewhere, UntouchedInStep
  <2> QED BY <2>1, <2>2
<1>6. ASSUME NEW x \in Ids,
             \/ WriteState(x)
             \/ \E op \in {"create", "delete"}, slice \in Slices :
                  EraseRead(x, op, slice) \/ EraseWrite(x, op, slice) \/ EraseFails(x, op, slice)
      PROVE  InStep(id)'
  <2>1. CASE x = id
    BY <1>2, <1>6, <2>1, CreationInStep, ErasingInStep
  <2>2. CASE x # id
    BY <1>1, <1>2, <1>6, <2>2, UpdatesElsewhere, UntouchedInStep
  <2> QED BY <2>1, <2>2
<1> QED BY <1>3, <1>4, <1>5, <1>6 DEF Next

\* At first the extension lists what is stored.
LEMMA InStepInitially == Init => AllInStep
BY DEF Init, AllInStep, InStep, CreatedInStep, DeletedInStep, Stored

\* When all calls have ended the extension and the snap list the same accounts, whatever
\* failed or overlapped, but for those that a lost update rewrote, whose creation failed
\* after it was announced, or that the host did not let the snap erase.
THEOREM ExtensionMirrors == Spec => []Mirrored
<1>1. TypeInv /\ AllInStep => Mirrored
  <2> SUFFICES ASSUME TypeInv, AllInStep, Quiet, NEW id \in Ids, ~Excepted(id)
               PROVE  id \in extension <=> id \in Stored
    BY DEF Mirrored, Excepted
  <2>1. CreatedInStep(id) /\ DeletedInStep(id)
    BY DEF AllInStep, InStep
  <2>2. creating[id] \in {"none"} \cup CreateEnds /\ deleting[id] \in {"none"} \cup DeleteEnds
    BY DEF Quiet
  <2> QED BY <2>1, <2>2 DEF CreatedInStep, DeletedInStep, CreateEnds, DeleteEnds
<1> QED BY <1>1, TypesInitially, StepTypes, Initially, NextPreserves, InStepInitially, NextInStep,
           PTL DEF Spec
===============================================================================
