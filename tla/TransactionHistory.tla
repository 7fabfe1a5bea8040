------------------------- MODULE TransactionHistory -------------------------
(***************************************************************************)
(* The transactions of an account as the wallet reads them, page by page,  *)
(* while new ones are saved: TransactionsRepository.saveMany, and          *)
(* Keyring.listAccountTransactions.                                        *)
(*                                                                         *)
(* A page starts at the signature the page before it named as the next     *)
(* one, wherever it is by then. A transaction that is saved again may have *)
(* another timestamp: its block time is not known at first, which counts   *)
(* as zero.                                                                *)
(***************************************************************************)
EXTENDS Integers, Sequences, SequencesExt, Lists

CONSTANTS
  Signatures,  \* the transactions of the account
  Limit,       \* transactions on a page
  MaxStamp,    \* bound on timestamps
  MaxSaves     \* bound on saves

VARIABLES
  saved,   \* the saved transactions, the newest first: [id, timestamp]
  cursor,  \* First, the signature the next page starts at, or Finished
  shown,   \* the signatures on the pages read so far
  wanted,  \* history: what was saved when the first page was read
  moved,   \* history: a save has reordered transactions since then
  saves

hvars == <<saved, cursor, shown, wanted, moved, saves>>

First == "first"
Finished == "finished"

ASSUME HistoryAssumption ==
  Limit \in Nat /\ MaxStamp \in Nat /\ Signatures \cap {First, Finished} = {}

HInit ==
  /\ saved = <<>> /\ cursor = First /\ shown = <<>>
  /\ wanted = <<>> /\ moved = FALSE /\ saves = 0

Ids(list) == [i \in DOMAIN list |-> list[i].id]

\* By descending timestamp; what has the same one keeps its order (lodash sorts stably).
Sorted(list) ==
  LET before(i, j) == \/ list[i].timestamp > list[j].timestamp
                      \/ (list[i].timestamp = list[j].timestamp /\ i < j)
      rank(i) == Cardinality({j \in DOMAIN list : before(j, i)})
  IN [k \in DOMAIN list |-> list[CHOOSE i \in DOMAIN list : rank(i) = k - 1]]

\* In its place when its signature is known, else at the end; then sorted.
Saved(list, tx) ==
  LET at == SelectInSeq(list, LAMBDA t : t.id = tx.id) IN
  Sorted(IF at = 0 THEN Append(list, tx) ELSE ReplaceAt(list, at, tx))

Save ==
  /\ saves < MaxSaves /\ saves' = saves + 1
  /\ \E id \in Signatures, timestamp \in 0..MaxStamp :
       saved' = Saved(saved, [id |-> id, timestamp |-> timestamp])
  /\ moved' = (cursor # First
                /\ (moved \/ Filter(Ids(saved'), Range(Ids(saved))) # Ids(saved)))
  /\ UNCHANGED <<cursor, shown, wanted>>

\* JavaScript's slice(start, end) of positions counted from 0; -1 is the last one.
Slice(list, start, end) ==
  SubSeq(list, IF start < 0 THEN Len(list) ELSE start + 1, Min({end, Len(list)}))

\* Were the page to start after the signature asked for.
StartIndexAfter(list, next) ==
  IF next = First THEN 0 ELSE SelectInSeq(Ids(list), LAMBDA id : id = next)
\* The position of the signature asked for; -1 when it is not in the list.
StartIndex(list, next) ==
  IF next = First THEN 0 ELSE SelectInSeq(Ids(list), LAMBDA id : id = next) - 1

HasMore(list, start) == start + Limit < Len(list)
NextOf(list, start) == IF HasMore(list, start) THEN list[start + Limit + 1].id ELSE Finished

ListAccountTransactions ==
  LET start == StartIndex(saved, cursor) IN
  /\ cursor # Finished
  /\ shown' = shown \o Ids(Slice(saved, start, start + Limit))
  /\ cursor' = NextOf(saved, start)
  /\ wanted' = IF cursor = First THEN Ids(saved) ELSE wanted
  /\ UNCHANGED <<saved, moved, saves>>

\* The wallet reads the list from its start again.
Reread ==
  /\ cursor = Finished
  /\ cursor' = First /\ shown' = <<>> /\ wanted' = <<>> /\ moved' = FALSE
  /\ UNCHANGED <<saved, saves>>

HNext == Save \/ ListAccountTransactions \/ Reread

\* The pages, put together, show every transaction that was there when the first was read,
\* once, in its order, whatever was saved in between: unless a save moved one that was
\* already saved, such as the one the next page starts at.
PagesCoverUnlessMoved ==
  cursor = Finished /\ ~moved =>
    Filter(shown, Range(wanted)) = wanted
=============================================================================
