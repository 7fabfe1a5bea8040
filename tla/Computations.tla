---------------------------- MODULE Computations ----------------------------
(***************************************************************************)
(* What the snap computes from what others tell it, one topic at a time:   *)
(* the price client and the transaction history, which keep state, and     *)
(* computations that do not. None of them reads the state of another  *)
(* within one question, so a behaviour stays with the topic it started     *)
(* with, and the states of the topics add up instead of multiplying.       *)
(*                                                                         *)
(* A computation that keeps no state is asked once, with any of its        *)
(* inputs, and its properties are invariants of the state that holds it.   *)
(***************************************************************************)
EXTENDS SpotPrices, TransactionHistory

CONSTANTS
  \* SendAmounts
  Fine, Whole, SigningFee, UnitLimit, UnitPrice, Micro, Rent, TokenRent,
  Situations,         \* senders and what they send
  Typed,              \* amounts typed
  \* RpcTransport
  MaxAttempts, BaseDelay, MaxDelay,
  Urls,               \* how many URLs a network has
  \* TransactionMessages
  Unset, Nonces, Signer, LatestBlockhash, DefaultPrice,
  Messages,           \* messages a dapp hands over
  Estimates,          \* what estimating the compute units brings
  \* TokenPrices
  Fiat,
  PriceTables,        \* prices of the assets
  SpotData,           \* spot data of a token
  \* TransactionMapping
  SOL, NoOwner, BaseFee, SpamLimit, Decimals,
  ChainTransactions,  \* transactions read from the chain
  Account,            \* the account they are read for
  \* WalletRequests
  Networks,
  Accounts,           \* of the keyring
  Asked,              \* requests of dapps
  \* ConfirmationView
  ScanAnswers,          \* what the security alerts service answers
  Handed              \* transactions handed over

\* A lamport, a unit of a token and a micro-lamport are made of so many smallest parts. The
\* native balance that the form shows is that of the account.
ASSUME AmountsAssumption ==
  /\ {Fine, Whole, Micro} \subseteq Nat \ {0}
  /\ {SigningFee, UnitPrice, Rent, TokenRent} \cup Typed \subseteq Nat
  /\ UnitLimit \in [{"native", "token"} -> Nat]
  /\ Situations \subseteq [kind : {"native", "token"}, lamports : Nat, balance : Nat,
                           unit : Nat \ {0}, newcomer : BOOLEAN, feeKnown : BOOLEAN]
  /\ \A s \in Situations : s.kind = "native" => s.balance = s.lamports

ASSUME RatesAssumption ==
  /\ \A prices \in PriceTables : \A asset \in DOMAIN prices : prices[asset] \in Nat
  /\ \A spot \in SpotData : spot # <<>> =>
       spot.supply \in Nat /\ (spot.cap # <<>> => spot.cap \in Nat \X (Nat \ {0}))

ASSUME TransportAssumption ==
  {MaxAttempts, Urls} \subseteq Nat \ {0} /\ {BaseDelay, MaxDelay} \subseteq Nat

\* A message names two parties and a list of instructions. The RPC answers a blockhash.
ASSUME MessagesAssumption ==
  /\ Unset \notin {Signer, LatestBlockhash} /\ LatestBlockhash \notin Nonces
  /\ \A m \in Messages :
       m \in [feePayer : {m.feePayer}, lifetime : {m.lifetime},
              instructions : Seq(Range(m.instructions))]

\* Every account has an address of its own. A request is of a method there is, its texts have
\* characters, and an address is made of some that decoding does not remove.
ASSUME RequestsAssumption ==
  LET IsText(t) == t \in Seq(Range(t) \ {"bad"}) IN
  /\ \A a, b \in Accounts : a.address = b.address => a = b
  /\ \A r \in Asked :
       /\ r.method \in {"signIn", "signMessage", "signTransaction", "signAndSendTransaction"}
       /\ r.address \in Seq(Range(r.address) \ {"bad", "null", "bom"})
       /\ r.method # "signIn" => r.payload \in Seq(Range(r.payload))
       /\ r.method = "signIn" =>
            /\ IsText(r.payload.domain) /\ IsText(r.payload.statement)
            /\ DOMAIN r.payload.lines = 1..8
            /\ \A i \in DOMAIN r.payload.lines : IsText(r.payload.lines[i])
            /\ r.payload.resources \in Seq(Range(r.payload.resources))
            /\ \A i \in DOMAIN r.payload.resources : IsText(r.payload.resources[i])

ASSUME ScansAssumption ==
  \A r \in ScanAnswers : r.answer = "scan" =>
    r \in [answer : {"scan"}, status : {r.status}, diff : Seq(Range(r.diff)),
          verdict : {r.verdict}, error : BOOLEAN]

\* A transaction of the chain names no account twice, and has a balance of each before and
\* after it. Whoever is named as the owner of a token account owns it; there is one balance of
\* it, of the same mint before and after. The fee is what its signatures cost, or more.
ASSUME MappingAssumption ==
  /\ SOL \notin DOMAIN Decimals /\ {BaseFee, SpamLimit} \subseteq Nat
  /\ \A t \in ChainTransactions :
       LET accounts == DOMAIN t.keys
           tokens == t.tokensPre \cup t.tokensPost
       IN /\ 1 \in accounts /\ \A i, j \in accounts : t.keys[i] = t.keys[j] => i = j
          /\ t.pre \in [accounts -> Nat] /\ t.post \in [accounts -> Nat]
          /\ {t.fee, t.signatures} \subseteq Nat /\ t.fee >= BaseFee * t.signatures
          /\ IsFiniteSet(tokens)
          /\ \A b \in tokens : /\ b.mint \in DOMAIN Decimals /\ b.amount \in Nat
                               /\ b.owner \in {NoOwner, t.owners[b.index]}
          /\ \A b, c \in tokens : b.index = c.index => b.mint = c.mint
          /\ \A balances \in {t.tokensPre, t.tokensPost} :
               \A b, c \in balances : b.index = c.index => b = c
          /\ t.instructions \in Seq(Range(t.instructions))
          /\ \A k \in DOMAIN t.instructions : t.instructions[k].amount \in Nat

ASSUME HandedAssumption ==
  \A t \in Handed : t.instructions \in Seq({t.instructions[i] : i \in DOMAIN t.instructions})

Amounts == INSTANCE SendAmounts
Transport == INSTANCE RpcTransport
Message == INSTANCE TransactionMessages
Rates == INSTANCE TokenPrices
Mapping == INSTANCE TransactionMapping
Wallet == INSTANCE WalletRequests
View == INSTANCE ConfirmationView

VARIABLES
  topic,  \* what this behaviour is about
  asked   \* what was asked: <<>>, or the input

cvars == <<topic, asked>>
vars == <<cvars, pvars, hvars>>

Init ==
  /\ topic \in {"prices", "history", "amounts", "transport", "messages", "rates", "mapping",
             "requests", "dialog", "instructions"}
  /\ asked = <<>>
  /\ PInit
  /\ HInit

-----------------------------------------------------------------------------
Asking(about) == topic = about /\ asked = <<>> /\ UNCHANGED <<topic, pvars, hvars>>

PriceStep == topic = "prices" /\ PNext /\ UNCHANGED <<cvars, hvars>>
HistoryStep == topic = "history" /\ HNext /\ UNCHANGED <<cvars, pvars>>
AskAmount ==
  /\ Asking("amounts")
  /\ \E s \in Situations, typed \in Typed : asked' = <<s, typed>>
AskTransport ==
  /\ Asking("transport")
  /\ \E outcomes \in [1..MaxAttempts -> [1..Urls -> Transport!Outcomes]] : asked' = <<outcomes>>
AskMessage ==
  /\ Asking("messages")
  /\ \E message \in Messages, estimate \in Estimates : asked' = <<message, estimate>>
AskRate ==
  /\ Asking("rates")
  /\ \E prices \in PriceTables, spot \in SpotData : \E a, b, c \in DOMAIN prices :
       asked' = <<prices, spot, a, b, c>>
AskMapping ==
  /\ Asking("mapping")
  /\ \E t \in ChainTransactions : asked' = <<t>>
AskRequest ==
  /\ Asking("requests")
  /\ \E scope \in Networks, request \in Asked : asked' = <<scope, request>>
AskDialog ==
  /\ Asking("dialog")
  /\ \E moment \in {"rendering", "rendered", "refreshing", "refreshed"},
        preferences \in SUBSET {"simulation", "validation"}, first, second \in ScanAnswers :
       asked' = <<moment, preferences, first, second>>
AskInstructions ==
  /\ Asking("instructions")
  /\ \E transaction \in Handed : asked' = <<transaction>>

Next ==
  \/ PriceStep \/ HistoryStep
  \/ AskAmount \/ AskTransport \/ AskMessage \/ AskRate \/ AskMapping
  \/ AskRequest \/ AskDialog \/ AskInstructions

Spec == Init /\ [][Next]_vars

-----------------------------------------------------------------------------
AskedAbout(about) == topic = about /\ asked # <<>>

\* An amount a validator accepts is executed and moves what was typed, unless an excuse
\* listed in SendAmounts applies; and the form, SendService and the max button do not
\* contradict each other (SendService.onAmountInput, the form and the builders).
AcceptedIsSendable ==
  AskedAbout("amounts") =>
    /\ Amounts!AcceptedIsSendableUnlessExcused(asked[1], asked[2])
    /\ Amounts!ValidatorsAgree(asked[1], asked[2])

\* An RPC request is answered by the first response of any URL at any attempt, or fails
\* when all did, is reported once, and waits between attempts no longer than it may (the
\* three transports, composed).
AnsweredByTheFirst == AskedAbout("transport") => Transport!AnsweredByTheFirst(asked[1])

\* A message of a dapp is signed complete and otherwise as it was handed over, and
\* preparing it again changes nothing, unless an excuse listed in TransactionMessages
\* applies (TransactionHelper, transaction-messages.ts).
Prepared == AskedAbout("messages") => Message!PreparedUnlessExcused(asked[1], asked[2])

\* Conversion rates and market data do not contradict each other (TokenPricesService).
ConversionsAgree ==
  AskedAbout("rates") =>
    Rates!ConversionsAgree(asked[1], asked[2], asked[3], asked[4], asked[5])

\* A transaction shows the account what the chain did to its balances, unless an excuse
\* listed in TransactionMapping applies (mapRpcTransaction).
MappedTrue == AskedAbout("mapping") => Mapping!MappedTrueUnlessExcused(asked[1], Account)

\* Its type tells what happened, and what hides as spam took nothing (evaluateTransactionType,
\* isSpam), unless an excuse listed in TransactionMapping applies.
TypedTrue == AskedAbout("mapping") => Mapping!TypedTrueUnlessExcused(asked[1], Account)

\* A request that resolves to an account is answered by it as its dialog shows, with a
\* signature that verifies, unless an excuse listed in WalletRequests applies
\* (resolveAccountAddress, #handleSubmitRequest, signMessage, signIn).
SignedAsAsked ==
  AskedAbout("requests") => Wallet!SignedUnlessExcused(Accounts, asked[1], asked[2])

\* The dialog of a transaction warns and lists the changes as the latest scan said, unless
\* an excuse listed in ConfirmationView applies (scanTransaction, TransactionAlert,
\* EstimatedChanges, refreshConfirmationEstimation).
DialogTrue ==
  AskedAbout("dialog") => View!DialogTrueUnlessExcused(asked[1], asked[2], asked[3], asked[4])

\* The dialog lists every instruction as what it is, unless an excuse listed in
\* ConfirmationView applies (extractInstructionsFromUnknownBase64String, parseInstruction).
InstructionsListed ==
  AskedAbout("instructions") => View!ListedUnlessExcused(asked[1])

\* What the comment of WalletService.signMessage says: the message is signed as it came,
\* and verifySignature verifies the signature with it.
SignsWhatItReturns ==
  AskedAbout("requests") => Wallet!SignsWhatItReturns(Accounts, asked[1], asked[2])

\* What a comment of TransactionAlert says: it warns when the scan of a transaction failed.
FailedScanWarned ==
  AskedAbout("dialog") => View!FailedScanWarned(asked[1], asked[2], asked[3], asked[4])
=============================================================================
