----------------------------- MODULE SendAmounts ----------------------------
(***************************************************************************)
(* The amounts of a send: the fee that is foretold, what the two           *)
(* validators accept (the form of the snap, and SendService for a form of  *)
(* the wallet), the max button, and what the builders put in the           *)
(* transaction.                                                            *)
(*                                                                         *)
(* A typed amount counts parts of 10^-9 of the asset, each divided again   *)
(* in Fine: solToLamports rounds the rest off, and is used for tokens too. *)
(* Balances count 10^-9ths. A situation is a record                        *)
(*   kind        "native" or "token"                                       *)
(*   lamports    the SOL of the sender                                     *)
(*   balance     its balance of the asset (lamports for "native")          *)
(*   unit        10^-9ths in one unit of the token; decimals are zero when *)
(*               the unit is a whole token                                 *)
(*   newcomer    the recipient has no account for the asset yet            *)
(*   feeKnown    the form has built the message and knows the fee          *)
(* The end of the module is the chain's side, which is not in this         *)
(* repository.                                                             *)
(***************************************************************************)
EXTENDS Integers

CONSTANTS
  Fine,        \* parts of a lamport that can be typed
  Whole,       \* 10^-9ths in a whole token
  SigningFee,  \* BASE_FEE, 5000 lamports
  UnitLimit,   \* compute unit limit: 450 for "native", 40000 for "token"
  UnitPrice,   \* 10000 micro-lamports per compute unit
  Micro,       \* micro-lamports per lamport
  Rent,        \* minimum balance for rent exemption of an empty account
  TokenRent    \* what creating a token account costs (the chain's side)

SolToLamports(typed) == typed \div Fine
ToTokenUnits(typed, unit) == typed \div (Fine * unit)

\* SendFeeCalculator: the priority fee is rounded down.
PriorityFee(kind) == (UnitLimit[kind] * UnitPrice) \div Micro
Fee(kind) == SigningFee + PriorityFee(kind)

-----------------------------------------------------------------------------
(* The validators *)

FormFee(s) == IF s.feeKnown THEN Fee(s.kind) ELSE 0

\* amountInput of the form. A fee not estimated yet counts as zero.
FormAccepts(s, typed) ==
  LET amount == SolToLamports(typed) IN
  /\ amount <= s.balance
  /\ IF s.kind = "native"
     THEN amount >= Rent /\ amount + FormFee(s) + Rent <= s.balance
     ELSE FormFee(s) + Rent <= s.lamports
  /\ amount # 0
  /\ s.lamports # 0

\* onAmountInput, were the fee forgotten
ServiceAcceptsIgnoringFee(s, typed) ==
  LET amount == SolToLamports(typed) IN
  /\ s.lamports # 0
  /\ IF s.kind = "native" THEN amount + Rent <= s.lamports
     ELSE amount <= s.balance /\ Rent <= s.lamports

\* onAmountInput of SendService
ServiceAccepts(s, typed) ==
  LET amount == SolToLamports(typed) IN
  /\ s.lamports # 0
  /\ IF s.kind = "native"
     THEN amount <= s.lamports /\ amount + Fee("native") + Rent <= s.lamports
     ELSE amount <= s.balance /\ Fee("token") + Rent <= s.lamports

\* onMaxAmountButtonClick: "subtract 1 extra lamport to compensate for rounding". When
\* nothing is left after the costs, the whole balance is offered.
MaxAmount(s) ==
  LET left == s.balance - Fee("native") - Rent - 1 IN
  CASE s.kind = "token" -> s.balance * Fine
    [] s.kind = "native" /\ left < 0 -> s.balance * Fine
    [] s.kind = "native" /\ left >= 0 -> left * Fine

-----------------------------------------------------------------------------
(* The builders *)

Failed == -1

\* SendSolBuilder
BuildSol(s, typed) == SolToLamports(typed)

\* SendSplTokenBuilder: decimals of zero are taken for decimals not found.
BuildSpl(s, typed) == IF s.unit = Whole THEN Failed ELSE ToTokenUnits(typed, s.unit)

Build(s, typed) == IF s.kind = "native" THEN BuildSol(s, typed) ELSE BuildSpl(s, typed)

-----------------------------------------------------------------------------
(* The chain: it rounds the priority fee up, and leaves no account that pays or receives  *)
(* below the rent exemption unless it is emptied.                                          *)

ChainFee(kind) ==
  SigningFee + (UnitLimit[kind] * UnitPrice + Micro - 1) \div Micro
RentExempt(lamports) == lamports = 0 \/ lamports >= Rent

Executes(s, built) ==
  LET paid == ChainFee(s.kind) + (IF s.kind = "native" THEN built ELSE 0)
                + (IF s.kind = "token" /\ s.newcomer THEN TokenRent ELSE 0)
  IN /\ built # Failed
     /\ paid <= s.lamports /\ RentExempt(s.lamports - paid)
     /\ s.kind = "native" /\ s.newcomer => built >= Rent
     /\ s.kind = "token" => built * s.unit <= s.balance

\* Why an accepted amount may still not be sent.
Excused(s, typed, byForm) ==
  LET amount == IF s.kind = "native" THEN SolToLamports(typed) ELSE 0 IN
  \/ byForm /\ ~s.feeKnown            \* no fee was counted
  \/ /\ s.kind = "token" /\ s.newcomer  \* nor the token account of the recipient
     /\ s.lamports < ChainFee("token") + TokenRent + Rent
  \/ s.kind = "token" /\ s.unit = Whole  \* such a token is never built
  \/ /\ s.kind = "native" /\ s.newcomer /\ ~byForm
     /\ amount < Rent                   \* nor the rent of the recipient
  \/ /\ ChainFee(s.kind) # Fee(s.kind)  \* one lamport more, and not one to spare
     /\ amount + Fee(s.kind) + Rent = s.lamports

\* What a validator accepts is executed, and moves what was typed, to the last unit the
\* token has.
AcceptedIsSendableUnlessExcused(s, typed) ==
  LET sendable == /\ Executes(s, Build(s, typed))
                  /\ s.kind = "native" => Build(s, typed) = SolToLamports(typed)
                  /\ s.kind = "token" =>
                       SolToLamports(typed) - Build(s, typed) * s.unit \in 0..(s.unit - 1)
  IN /\ FormAccepts(s, typed) => sendable \/ Excused(s, typed, TRUE)
     /\ ServiceAccepts(s, typed) => sendable \/ Excused(s, typed, FALSE)

\* What the form accepts once it knows the fee, SendService accepts too; and the form
\* accepts the max amount whenever it accepts an amount, unless the one lamport it gives
\* away was the only one there was.
ValidatorsAgree(s, typed) ==
  /\ FormAccepts(s, typed) /\ s.feeKnown => ServiceAccepts(s, typed)
  /\ FormAccepts(s, typed) /\ s.feeKnown /\ s.kind = "native"
       /\ SolToLamports(typed) + Fee("native") + Rent < s.balance =>
     /\ FormAccepts(s, MaxAmount(s))
     /\ SolToLamports(MaxAmount(s)) >= SolToLamports(typed)
=============================================================================
