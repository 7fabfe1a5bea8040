------------------------- MODULE TransactionMapping -------------------------
(***************************************************************************)
(* How a transaction read from the chain becomes a transaction of the      *)
(* keyring: mapRpcTransaction and the parsers under                        *)
(* core/services/transactions/utils.                                       *)
(*                                                                         *)
(* A transaction of the chain is a record                                  *)
(*   failed        meta.err or meta.status.Err                             *)
(*   signatures    how many it carries                                     *)
(*   fee           meta.fee, in lamports, paid by account 1                *)
(*   keys, static  the addresses by account index, those of the lookup     *)
(*                 tables after the first `static` ones                    *)
(*   pre, post     the lamports of every account index                     *)
(*   tokensPre, tokensPost  sets of [index, mint, owner, amount]           *)
(*   owners        who really owns the token account of each index         *)
(*   instructions  a sequence of [program, accounts, opcode, amount]       *)
(*                                                                         *)
(* Amounts stay in base units. The code divides them by a power of ten: an *)
(* item carries that power as its scale. from and to are lists in the code *)
(* and sets here; `at` (an account index, or the number of an instruction) *)
(* keeps two equal entries apart. A transaction always has its meta data.  *)
(***************************************************************************)
EXTENDS Integers, Sequences, FiniteSetsExt

CONSTANTS
  SOL,        \* the native asset
  NoOwner,    \* a token balance that names no owner
  BaseFee,    \* 5000 lamports per signature
  SpamLimit,  \* 0.001 SOL, in lamports
  Decimals    \* the decimals of every mint

SystemProgram == "system"
TokenProgram == "token"
TransferOpcode == 2
NativeScale == 9
SelfTransferScale == 6      \* decodeSplTransferAmount divides by 1e6 whatever the mint

Item(at, address, asset, amount, scale) ==
  [at |-> at, address |-> address, asset |-> asset, amount |-> amount, scale |-> scale]

Abs(n) == IF n < 0 THEN -n ELSE n
TotalOf(items) == MapThenSumSet(LAMBDA item : item.amount, items)
Instructions(t, program) ==
  {k \in DOMAIN t.instructions : t.instructions[k].program = program}

-----------------------------------------------------------------------------
(* Fees *)

\* The base fee is computed, and what meta.fee has beyond it is the priority fee.
Fees(t) ==
  LET base == BaseFee * t.signatures IN
  {[type |-> "base", amount |-> base]} \cup
  (IF t.fee > base THEN {[type |-> "priority", amount |-> t.fee - base]} ELSE {})

-----------------------------------------------------------------------------
(* Lamports: balance differences, or the instructions of a failed transaction *)

\* A System instruction whose two first accounts are one static key: its opcode is
\* not looked at.
NativeToSelf(t) ==
  {Item(<<"instruction", k>>, t.keys[t.instructions[k].accounts[1]], SOL,
        t.instructions[k].amount, NativeScale) :
     k \in {k \in Instructions(t, SystemProgram) :
              LET accounts == t.instructions[k].accounts IN
              /\ Len(accounts) >= 2
              /\ accounts[1] = accounts[2]
              /\ accounts[1] <= t.static}}

\* Were the payer's fee left in what it sent.
NativeTransfersWithFee(t) ==
  LET moved(S) == {Item(<<"account", i>>, t.keys[i], SOL, Abs(t.pre[i] - t.post[i]), NativeScale) :
                     i \in S}
  IN [from |-> moved({i \in DOMAIN t.pre : t.pre[i] > t.post[i]}) \cup NativeToSelf(t),
      to   |-> moved({i \in DOMAIN t.pre : t.pre[i] < t.post[i]}) \cup NativeToSelf(t)]

\* The direction is the sign of the difference, the amount what is left of it once the
\* payer's fee is taken off: nothing is said of an account for which that is zero.
NativeTransfers(t) ==
  LET diff(i) == t.pre[i] - t.post[i] - (IF i = 1 THEN t.fee ELSE 0)
      moved(S) == {Item(<<"account", i>>, t.keys[i], SOL, Abs(diff(i)), NativeScale) : i \in S}
      changed == {i \in DOMAIN t.pre : diff(i) # 0}
  IN [from |-> moved({i \in changed : t.pre[i] > t.post[i]}) \cup NativeToSelf(t),
      to   |-> moved({i \in changed : t.pre[i] < t.post[i]}) \cup NativeToSelf(t)]

\* One movement for each address and asset, with the sum of the amounts.
Aggregate(movements) ==
  {Item(<<"all">>, a, SOL, TotalOf({m \in movements : m.address = a}), NativeScale) :
     a \in {m.address : m \in movements}}

NativeTransfersV2(t) ==
  LET transfers == {k \in Instructions(t, SystemProgram) :
                      /\ Len(t.instructions[k].accounts) >= 2
                      /\ t.instructions[k].opcode = TransferOpcode}
      moved(side) == {Item(<<"instruction", k>>, t.keys[t.instructions[k].accounts[side]], SOL,
                           t.instructions[k].amount, NativeScale) : k \in transfers}
  IN [from |-> Aggregate(moved(1)), to |-> Aggregate(moved(2))]

-----------------------------------------------------------------------------
(* Tokens: balance differences of the token accounts *)

\* Three accounts are a Transfer, five a TransferChecked with the mint between source
\* and destination. The owner is the one before the transaction.
TokensToSelf(t) ==
  LET destination(accounts) == IF Len(accounts) = 5 THEN accounts[3] ELSE accounts[2]
      self == {k \in Instructions(t, TokenProgram) :
                 LET accounts == t.instructions[k].accounts IN
                 /\ Len(accounts) \in {3, 5}
                 /\ accounts[1] = destination(accounts)
                 /\ accounts[1] <= t.static}
      source(k) == {b \in t.tokensPre : b.index = t.instructions[k].accounts[1] /\ b.owner # NoOwner}
      items(k) == {Item(<<"instruction", k>>, b.owner, b.mint, t.instructions[k].amount,
                        SelfTransferScale) : b \in source(k)}
  IN UNION {items(k) : k \in self}

TokenDiff(t, i) ==
  TotalOf({b \in t.tokensPost : b.index = i}) - TotalOf({b \in t.tokensPre : b.index = i})

TokenTransfers(t) ==
  LET diff(i) == TokenDiff(t, i)
      before == {b.index : b \in t.tokensPre}
      details == t.tokensPre \cup {b \in t.tokensPost : b.index \notin before}
      moved(S) == {Item(<<"account", b.index>>, b.owner, b.mint, Abs(diff(b.index)),
                        Decimals[b.mint]) : b \in {b \in S : b.owner # NoOwner}}
  IN [from |-> moved({b \in details : diff(b.index) < 0}) \cup TokensToSelf(t),
      to   |-> moved({b \in details : diff(b.index) > 0}) \cup TokensToSelf(t)]

-----------------------------------------------------------------------------
(* The mapped transaction *)

Status(t) == IF t.failed THEN "failed" ELSE "confirmed"

Own(items, address) == {item \in items : item.address = address}

\* Every item has one of this address for the same asset on the other side.
Matched(items, others, address) ==
  \A item \in items : \E other \in Own(others, address) : other.asset = item.asset

\* Were the account looked for among the senders first.
TypeSentFirst(address, status, from, to) ==
  CASE from = {} \/ to = {} \/ status = "failed" -> "unknown"
    [] from # {} /\ to # {} /\ status # "failed" ->
         IF Own(from, address) # {} THEN "send" ELSE "receive"

Type(address, status, from, to) ==
  LET sender == Own(from, address) # {}
      receiver == Own(to, address) # {}
      toSelf == Matched(from, to, address) /\ Matched(to, from, address)
      known == from # {} /\ to # {} /\ status # "failed"
  IN CASE ~known -> "unknown"
       [] known /\ (toSelf \/ (sender /\ ~receiver)) -> "send"
       [] known /\ ~toSelf /\ sender /\ receiver -> "swap"
       [] known /\ ~toSelf /\ ~sender -> "receive"

Map(t, address) ==
  LET native == IF t.failed THEN NativeTransfersV2(t) ELSE NativeTransfers(t)
      tokens == TokenTransfers(t)
      from == tokens.from \cup native.from
      to == tokens.to \cup native.to
      type == Type(address, Status(t), from, to)
  IN [status |-> Status(t), type |-> type,
      from |-> IF type = "swap" THEN Own(from, address) ELSE from,
      to   |-> IF type \in {"swap", "receive"} THEN Own(to, address) ELSE to,
      fees |-> IF type = "receive" THEN {} ELSE Fees(t)]

\* A receipt of less than the limit in SOL, whatever else it brings.
IsSpam(m, address) ==
  LET received == {item \in Own(m.to, address) : item.asset = SOL} IN
  /\ m.type = "receive" \/ m.status = "failed"
  /\ received # {}
  /\ TotalOf(received) < SpamLimit

-----------------------------------------------------------------------------
(* What the account should see *)

\* What the chain took from the account and gave it, but for the fee it paid.
Change(t, address, asset) ==
  LET held(balances) ==
        TotalOf({b \in balances : b.mint = asset /\ t.owners[b.index] = address})
      own == {i \in DOMAIN t.pre : t.keys[i] = address}
      lamports == {[account |-> i, amount |-> t.post[i] - t.pre[i]] : i \in own}
  IN IF asset = SOL THEN TotalOf(lamports) + (IF t.keys[1] = address THEN t.fee ELSE 0)
     ELSE held(t.tokensPost) - held(t.tokensPre)

\* The payer got something, but less than the fee took.
GainBelowFee(t, address) ==
  t.keys[1] = address /\ Change(t, address, SOL) \in 1..t.fee
Ownerless(t) == \E b \in t.tokensPre \cup t.tokensPost : b.owner = NoOwner

\* A token left one account of this address and came to another.
MovedWithin(t, address) ==
  LET own == {b \in t.tokensPre \cup t.tokensPost : t.owners[b.index] = address} IN
  \E b, c \in own : b.mint = c.mint /\ TokenDiff(t, b.index) < 0 /\ TokenDiff(t, c.index) > 0

\* An instruction transfers lamports of the account to another.
PaidAnother(t, address) ==
  \E k \in Instructions(t, SystemProgram) :
    LET accounts == t.instructions[k].accounts IN
    /\ Len(accounts) >= 2 /\ t.instructions[k].opcode = TransferOpcode
    /\ t.keys[accounts[1]] = address /\ t.keys[accounts[2]] # address

\* What a confirmed transaction shows an account adds up to what the chain did to it: for
\* each asset what it received, without what it sent and the fees, is the change of its
\* balance. Unless another paid the fees that are shown, the account paid fees for a
\* receipt, which are not, what the payer gained is no more than the fee, or a balance does
\* not tell its owner. A comment says that a swap with tokens and SOL shows no SOL
\* (mapRpcTransaction.ts:89): nothing removes it, and the tests of swaps #1 and #4 expect it,
\* so it is demanded here like any other asset.
MappedTrueUnlessExcused(t, address) ==
  LET m == Map(t, address)
      of(items, asset) == {item \in Own(items, address) : item.asset = asset}
      net(asset) == TotalOf(of(m.to, asset)) - TotalOf(of(m.from, asset))
      payer == t.keys[1] = address
      sponsoredExcused == ~payer /\ m.type # "receive"
      receiptExcused == payer /\ m.type = "receive"
  IN m.status = "confirmed" =>
       /\ GainBelowFee(t, address) \/ net(SOL) = Change(t, address, SOL)
       /\ Ownerless(t) \/ \A mint \in DOMAIN Decimals : net(mint) = Change(t, address, mint)
       /\ sponsoredExcused \/ receiptExcused \/ TotalOf(m.fees) = (IF payer THEN t.fee ELSE 0)

\* The type of a confirmed transaction tells what happened to the account: a swap took one
\* asset and gave another, a send gave nothing, a receipt took nothing, and what is hidden
\* as spam took nothing and brought a little SOL (tokens may have come with it); what an
\* instruction transfers to another counts as taken. Unless it also transfers from an account
\* to itself, or between two token accounts of this address, the payer gained no more than
\* the fee, a balance does not tell its owner, or what a transfer took came back: such a swap
\* is called a receipt (mapRpcTransaction.test.ts:976, and the tests #6 and #7 it skips).
TypedTrueUnlessExcused(t, address) ==
  LET m == Map(t, address)
      assets == DOMAIN Decimals \cup {SOL}
      lost == {a \in assets : Change(t, address, a) < 0}
      gave == lost \cup IF PaidAnother(t, address) THEN {SOL} ELSE {}
      won == {a \in assets : Change(t, address, a) > 0}
      repaidExcused == PaidAnother(t, address) /\ Change(t, address, SOL) >= 0
      excused == \/ GainBelowFee(t, address) \/ Ownerless(t) \/ repaidExcused
                 \/ NativeToSelf(t) # {} \/ TokensToSelf(t) # {} \/ MovedWithin(t, address)
  IN m.status = "confirmed" /\ ~excused =>
       /\ m.type = "swap" <=> gave # {} /\ won # {}
       /\ m.type = "send" => won = {}
       /\ m.type = "receive" => gave = {}
       /\ IsSpam(m, address) => gave = {} /\ Change(t, address, SOL) \in 1..(SpamLimit - 1)
=============================================================================
