------------------------ MODULE TransactionMessages -------------------------
(***************************************************************************)
(* What is added to a transaction message of a dapp before it is signed:   *)
(* sdk-extensions/transaction-messages.ts, as                              *)
(* TransactionHelper.#prepareAndPartiallySignTransactionMessage uses it.   *)
(*                                                                         *)
(* A message is a record                                                   *)
(*   feePayer             Unset, or an account                             *)
(*   lifetime             Unset, a durable nonce, or a blockhash           *)
(*   instructions         a sequence of [kind, value], where the kind is   *)
(*                        "limit", "price" or that of another instruction  *)
(* An estimate is [what, units]: "estimated", "simulationFailed" (whose    *)
(* error tells the units consumed), or "error".                            *)
(***************************************************************************)
EXTENDS Integers, Sequences, SequencesExt, Lists

CONSTANTS
  Unset,
  Nonces,          \* lifetimes that are durable nonces, which the instructions advance
  Signer,          \* the account that signs
  LatestBlockhash, \* what the RPC answers
  DefaultPrice     \* 10000 micro-lamports per compute unit

Has(message, kind) == \E i \in DOMAIN message.instructions : message.instructions[i].kind = kind
Only(message, kind) ==
  Filter(message.instructions, {i \in Range(message.instructions) : i.kind = kind})
Without(message, kinds) ==
  Filter(message.instructions, {i \in Range(message.instructions) : i.kind \notin kinds})

SetFeePayerIfMissing(message) ==
  [message EXCEPT !.feePayer = IF @ = Unset THEN Signer ELSE @]

HasBlockhash(message) == message.lifetime \notin {Unset} \cup Nonces

\* A durable nonce counts as missing.
SetLifetimeIfMissing(message) ==
  [message EXCEPT !.lifetime = IF HasBlockhash(message) THEN @ ELSE LatestBlockhash]

\* The price goes before every other instruction.
SetComputeUnitPriceIfMissing(message) ==
  IF Has(message, "price") THEN message
  ELSE [message EXCEPT !.instructions = <<[kind |-> "price", value |-> DefaultPrice]>> \o @]

\* Were the new limit added to those there are.
AddComputeUnitLimit(message, estimate) ==
  [message EXCEPT !.instructions = Append(@, [kind |-> "limit", value |-> estimate.units])]

\* Every limit is replaced by one at the end. If nothing could be estimated the message
\* stays as it is.
EstimateAndOverrideComputeUnitLimit(message, estimate) ==
  IF estimate.what = "error" THEN message
  ELSE [message EXCEPT !.instructions =
          Without(message, {"limit"}) \o <<[kind |-> "limit", value |-> estimate.units]>>]

\* The limit is estimated when it is missing, and when a price is added.
ShouldSetComputeUnitLimit(message) == ~Has(message, "limit") \/ ~Has(message, "price")

Prepare(message, estimate) ==
  LET complete == SetComputeUnitPriceIfMissing(SetLifetimeIfMissing(SetFeePayerIfMissing(message)))
  IN IF ShouldSetComputeUnitLimit(message)
     THEN EstimateAndOverrideComputeUnitLimit(complete, estimate) ELSE complete

\* The message an input ends up signed with: a transaction that carries a signature may not
\* be altered, one that carries none is prepared like a bare message.
PartiallySign(input, estimate) ==
  IF input.signed THEN input.message ELSE Prepare(input.message, estimate)

\* A message that is signed lacks nothing, keeps what the dapp asked for in its order, and
\* its limit is the dapp's only if nothing was added to the message since: unless the
\* estimate failed, and it is sent with the limit it came with, or none; or it was to last by
\* a durable nonce, which a blockhash replaces, while the instruction that advances the nonce
\* stays: "if it is missing" (transaction-messages.ts:67) does not say so. Handing the result
\* back to be signed again changes nothing, but for these (that instruction may make it a
\* message with a nonce again), nor does signing what another has signed.
PreparedUnlessExcused(message, estimate) ==
  LET signed == PartiallySign([signed |-> FALSE, message |-> message], estimate)
      added == ~Has(message, "price")
      excused == ShouldSetComputeUnitLimit(message) /\ estimate.what = "error"
      renewedExcused == message.lifetime \in Nonces
  IN /\ signed.feePayer = (IF message.feePayer = Unset THEN Signer ELSE message.feePayer)
     /\ HasBlockhash(signed)
     /\ message.lifetime = Unset \/ renewedExcused \/ signed.lifetime = message.lifetime
     /\ Without(signed, {"limit", "price"}) = Without(message, {"limit", "price"})
     /\ Only(signed, "price") =
          IF added THEN <<[kind |-> "price", value |-> DefaultPrice]>> ELSE Only(message, "price")
     /\ \/ excused /\ Only(signed, "limit") = Only(message, "limit")
        \/ Only(signed, "limit") =
             IF added \/ ~Has(message, "limit")
             THEN <<[kind |-> "limit", value |-> estimate.units]>> ELSE Only(message, "limit")
     /\ PartiallySign([signed |-> TRUE, message |-> message], estimate) = message
     /\ excused \/ renewedExcused \/ Prepare(signed, estimate) = signed
=============================================================================
