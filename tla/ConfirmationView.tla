-------------------------- MODULE ConfirmationView --------------------------
(***************************************************************************)
(* What the dialog of a transaction tells the user before it can be        *)
(* confirmed: the scan of the security alerts service, made when it is     *)
(* rendered and again when it is refreshed, and the instructions the       *)
(* transaction decodes to.                                                 *)
(*                                                                         *)
(* A response of the service is                                            *)
(*   answer   "scan", "nothing" (null), or "failed" (no JSON came)         *)
(*   status   "SUCCESS", "ERROR" or "other"                                *)
(*   diff     the assets that change: what goes in and what goes out, each *)
(*            <<>> or <<value>>                                            *)
(*   verdict  "none", "Benign", "Warning", "Malicious" or "other"          *)
(*   error    whether it has error details                                 *)
(*                                                                         *)
(* A transaction, as it was handed over, is what it decodes as             *)
(* ("transaction", "message" or "neither"), whether its lookup tables can  *)
(* be fetched, and its instructions. An instruction has a program, the     *)
(* kind its data identify, and its accounts, complete or not.              *)
(***************************************************************************)
EXTENDS Integers, Sequences, SequencesExt, Lists

-----------------------------------------------------------------------------
(* The scan *)

\* #mapScan: an asset that goes in and out counts as one that goes in.
ChangeOf(entry) ==
  [type |-> IF entry.in # <<>> THEN "in" ELSE "out",
   value |-> IF entry.in # <<>> THEN entry.in ELSE entry.out]

\* scanTransactions of the client, which asks the service for the simulation, the validation
\* or both: its answer.
Answered(response, options) ==
  IF response.answer # "scan" THEN response
  ELSE [response EXCEPT !.diff = IF "simulation" \in options THEN @ ELSE <<>>,
                        !.verdict = IF "validation" \in options THEN @ ELSE "none"]

\* scanTransaction: the scan, or <<>>.
ScanTransaction(response, options) ==
  LET result == Answered(response, options) IN
  IF result.answer # "scan" THEN <<>>
  ELSE <<[status |-> IF result.status = "SUCCESS" THEN "SUCCESS" ELSE "ERROR",
          assets |-> [i \in DOMAIN result.diff |-> ChangeOf(result.diff[i])],
          verdict |-> result.verdict, error |-> result.error]>>

\* The context while render waits for the scan.
Rendering == [status |-> "fetching", scan |-> <<>>]

\* render: a scan that failed is an error, no scan at all is not.
Rendered(preferences, response) ==
  LET scan == ScanTransaction(response, preferences) IN
  IF preferences = {} THEN [status |-> "fetched", scan |-> <<>>]
  ELSE [status |-> IF scan = <<>> THEN "error" ELSE "fetched", scan |-> scan]

\* refreshConfirmationEstimation, while it scans and with the scan: it scans for both when
\* the simulation is wanted, and a scan that failed counts as fetched.
Refreshing(preferences, context) ==
  IF "simulation" \notin preferences THEN context
  ELSE [context EXCEPT !.status = "fetching"]
Refreshed(preferences, context, response) ==
  IF "simulation" \notin preferences THEN context
  ELSE [status |-> "fetched",
        scan |-> ScanTransaction(response, {"simulation", "validation"})]

-----------------------------------------------------------------------------
(* The dialog *)

\* Mutant of Alert: whether there is a scan is looked at before how the scan went.
AlertOfScansOnly(preferences, context) ==
  IF "validation" \notin preferences \/ context.scan = <<>> THEN "none"
  ELSE IF context.status = "error" THEN "danger"
  ELSE IF context.scan[1].error THEN "warning"
  ELSE CASE context.scan[1].verdict = "Malicious" -> "danger"
         [] context.scan[1].verdict = "Warning" -> "warning"
         [] OTHER -> "none"

\* TransactionAlert, and whether ConfirmTransactionRequest renders it: its severity.
Alert(preferences, context) ==
  IF "validation" \notin preferences THEN "none"
  ELSE IF context.status = "error" THEN "danger"
  ELSE IF context.scan = <<>> THEN "none"
  ELSE IF context.scan[1].error THEN "warning"
  ELSE CASE context.scan[1].verdict = "Malicious" -> "danger"
         [] context.scan[1].verdict = "Warning" -> "warning"
         [] OTHER -> "none"

\* EstimatedChanges, and whether ConfirmTransactionRequest renders it.
EstimatedChanges(preferences, context) ==
  LET scan == context.scan
      of(type) == IF scan = <<>> THEN <<>>
                  ELSE Filter(scan[1].assets, {a \in Range(scan[1].assets) : a.type = type})
      shows(what) == [what |-> what, send |-> <<>>, receive |-> <<>>]
  IN IF "simulation" \notin preferences THEN shows("nothing")
     ELSE IF context.status = "fetching" THEN shows("skeleton")
     ELSE IF context.status = "error" \/ (scan # <<>> /\ scan[1].status = "ERROR")
          THEN shows("not available")
     ELSE IF of("out") = <<>> /\ of("in") = <<>> THEN shows("no changes")
     ELSE [what |-> "changes", send |-> of("out"), receive |-> of("in")]

\* Whether the button is enabled (ConfirmTransactionRequest).
CanConfirm(context) ==
  context.status # "fetching" /\ ~(context.scan # <<>> /\ context.scan[1].status = "ERROR")

-----------------------------------------------------------------------------
(* The instructions *)

\* The kinds the tables list for a program.
SystemKinds ==
  {"Assign", "TransferSol", "CreateAccount", "CreateAccountWithSeed", "AdvanceNonceAccount",
   "WithdrawNonceAccount", "InitializeNonceAccount", "AuthorizeNonceAccount", "Allocate",
   "AllocateWithSeed", "AssignWithSeed", "TransferSolWithSeed", "UpgradeNonceAccount"}
ComputeBudgetKinds ==
  {"RequestUnits", "RequestHeapFrame", "SetComputeUnitPrice", "SetComputeUnitLimit",
   "SetLoadedAccountsDataSizeLimit"}
TokenKinds ==
  {"InitializeMint", "InitializeAccount", "InitializeMultisig", "Transfer", "Approve", "Revoke",
   "SetAuthority", "MintTo", "Burn", "CloseAccount", "FreezeAccount", "ThawAccount",
   "TransferChecked", "ApproveChecked", "MintToChecked", "BurnChecked", "InitializeAccount2",
   "SyncNative", "InitializeAccount3", "InitializeMultisig2", "InitializeMint2",
   "GetAccountDataSize", "InitializeImmutableOwner", "AmountToUiAmount", "UiAmountToAmount"}
Token2022Kinds == TokenKinds \cup
  {"InitializeMintCloseAuthority", "InitializeTransferFeeConfig", "TransferCheckedWithFee",
   "WithdrawWithheldTokensFromMint", "WithdrawWithheldTokensFromAccounts",
   "HarvestWithheldTokensToMint", "SetTransferFee", "InitializeConfidentialTransferMint",
   "UpdateConfidentialTransferMint", "ConfigureConfidentialTransferAccount",
   "ApproveConfidentialTransferAccount", "EmptyConfidentialTransferAccount",
   "ConfidentialDeposit", "ConfidentialWithdraw", "ConfidentialTransfer",
   "ApplyConfidentialPendingBalance", "EnableConfidentialCredits", "DisableConfidentialCredits",
   "EnableNonConfidentialCredits", "DisableNonConfidentialCredits",
   "ConfidentialTransferWithFee", "InitializeDefaultAccountState", "UpdateDefaultAccountState",
   "Reallocate", "EnableMemoTransfers", "DisableMemoTransfers", "CreateNativeMint",
   "InitializeNonTransferableMint", "InitializeInterestBearingMint",
   "UpdateRateInterestBearingMint", "EnableCpiGuard", "DisableCpiGuard",
   "InitializePermanentDelegate", "InitializeTransferHook", "UpdateTransferHook",
   "InitializeConfidentialTransferFee",
   "WithdrawWithheldTokensFromMintForConfidentialTransferFee",
   "WithdrawWithheldTokensFromAccountsForConfidentialTransferFee",
   "HarvestWithheldTokensToMintForConfidentialTransferFee", "EnableHarvestToMint",
   "DisableHarvestToMint", "WithdrawExcessLamports", "InitializeMetadataPointer",
   "UpdateMetadataPointer", "InitializeGroupPointer", "UpdateGroupPointer",
   "InitializeGroupMemberPointer", "UpdateGroupMemberPointer", "InitializeScaledUiAmountMint",
   "UpdateMultiplierScaledUiMint", "InitializePausableConfig", "Pause", "Resume",
   "InitializeTokenMetadata", "UpdateTokenMetadataField", "RemoveTokenMetadataKey",
   "UpdateTokenMetadataUpdateAuthority", "EmitTokenMetadata", "InitializeTokenGroup",
   "UpdateTokenGroupMaxSize", "UpdateTokenGroupUpdateAuthority", "InitializeTokenGroupMember"}
AssociatedTokenKinds ==
  {"CreateAssociatedToken", "CreateAssociatedTokenIdempotent", "RecoverNestedAssociatedToken"}

\* programAddressToParsingConfig
Kinds ==
  [system |-> SystemKinds, computeBudget |-> ComputeBudgetKinds, token |-> TokenKinds,
   token2022 |-> Token2022Kinds, associatedToken |-> AssociatedTokenKinds]

\* Mutant of ParserOf: checked transfers are read like unchecked ones.
ParserOfUnchecked(program, kind) == IF kind = "TransferChecked" THEN "Transfer" ELSE kind

\* typeToParserMap: the kind whose parser reads an instruction. Token-2022's second
\* initialization of a multisig is read like its first.
ParserOf(program, kind) ==
  IF program = "token2022" /\ kind = "InitializeMultisig2" THEN "InitializeMultisig" ELSE kind

\* parseInstruction: the parser that reads it, if there is one and it does not throw.
ParseInstruction(instruction) ==
  LET unknown == [type |-> "Unknown", program |-> instruction.program, parser |-> <<>>] IN
  IF /\ instruction.program \in DOMAIN Kinds
     /\ instruction.kind \in Kinds[instruction.program]
     /\ instruction.complete
  THEN [unknown EXCEPT !.type = instruction.kind,
                       !.parser = <<ParserOf(instruction.program, instruction.kind)>>]
  ELSE unknown

\* The component Instruction: its program, and the fields its parser reads or its data.
Listed(parsed) ==
  [type |-> parsed.type, program |-> parsed.program,
   fields |-> IF parsed.parser = <<>> THEN "data" ELSE parsed.parser[1]]

\* Decoding as one or the other, fetching the lookup tables of the message in either case.
Decodes(transaction) == transaction.as # "neither" /\ transaction.lookups

\* extractInstructionsFromUnknownBase64String: none, in render, when it throws.
ExtractInstructions(transaction) ==
  IF ~Decodes(transaction) THEN <<>>
  ELSE [i \in DOMAIN transaction.instructions |-> ParseInstruction(transaction.instructions[i])]

-----------------------------------------------------------------------------
(* What the user can rely on *)

\* The dialog at a moment of its life, with the scans made by then.
ContextAt(moment, preferences, first, second) ==
  LET rendered == Rendered(preferences, first) IN
  CASE moment = "rendering" -> Rendering
    [] moment = "rendered" -> rendered
    [] moment = "refreshing" -> Refreshing(preferences, rendered)
    [] moment = "refreshed" -> Refreshed(preferences, rendered, second)

\* The response the dialog is about.
Heard(moment, preferences, first, second) ==
  IF moment = "refreshed" /\ "simulation" \in preferences THEN second ELSE first

\* A user who wants alerts is warned when the transaction could not be scanned.
FailedScanWarned(moment, preferences, first, second) ==
  LET context == ContextAt(moment, preferences, first, second)
      heard == Heard(moment, preferences, first, second) IN
  heard.answer # "scan" /\ "validation" \in preferences /\ CanConfirm(context) =>
    Alert(preferences, context) # "none"

\* A transaction can be confirmed only once it was scanned or could not be; the user who
\* wants alerts is warned of it then as the scan said, and the user who wants the changes
\* sees each of them. Unless a refresh could not scan, the scan has error details, whose
\* warning stands in for the verdict, or an asset comes in as well as out.
DialogTrueUnlessExcused(moment, preferences, first, second) ==
  LET context == ContextAt(moment, preferences, first, second)
      heard == Heard(moment, preferences, first, second)
      alert == Alert(preferences, context)
      changes == EstimatedChanges(preferences, context)
      refreshExcused == moment = "refreshed" /\ heard.answer # "scan"
      out(i) == heard.diff[i].out
      in(i) == heard.diff[i].in
  IN CanConfirm(context) /\ ~refreshExcused =>
       /\ moment # "rendering"
       /\ heard.answer = "scan" /\ preferences # {} => heard.status = "SUCCESS"
       /\ "validation" \in preferences =>
            /\ heard.answer # "scan" => alert = "danger"
            /\ heard.answer = "scan" /\ heard.verdict \in {"Malicious", "Warning"} =>
                 alert # "none"
            /\ heard.answer = "scan" /\ heard.verdict = "Malicious" /\ ~heard.error =>
                 alert = "danger"
       /\ "simulation" \in preferences =>
            /\ changes.what = "not available" <=> heard.answer # "scan"
            /\ changes.what = "no changes" <=> heard.answer = "scan" /\ heard.diff = <<>>
            /\ heard.answer = "scan" => \A i \in DOMAIN heard.diff :
                 /\ in(i) # <<>> =>
                      Contains(changes.receive, [type |-> "in", value |-> in(i)])
                 /\ in(i) = <<>> => Contains(changes.send, [type |-> "out", value |-> out(i)])

\* Every instruction is listed, in its place and under its program: as what it is, when a
\* table has it, and as unknown otherwise. Unless the transaction could not be decoded, or
\* it initializes a multisig of Token-2022 the second way.
ListedUnlessExcused(transaction) ==
  LET parsed == ExtractInstructions(transaction)
      listed == [i \in DOMAIN parsed |-> Listed(parsed[i])]
      given == transaction.instructions
  IN transaction.as # "neither" /\ transaction.lookups =>
       /\ Len(listed) = Len(given)
       /\ \A i \in DOMAIN given :
            LET known == \E program \in DOMAIN Kinds :
                           given[i].program = program /\ given[i].kind \in Kinds[program]
                excused == given[i].program = "token2022" /\ given[i].kind = "InitializeMultisig2"
            IN /\ listed[i].program = given[i].program
               /\ IF known /\ given[i].complete
                  THEN listed[i].type = given[i].kind
                       /\ (excused \/ listed[i].fields = given[i].kind)
                  ELSE listed[i].type = "Unknown" /\ listed[i].fields = "data"
=============================================================================
