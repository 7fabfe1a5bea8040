--------------------------- MODULE WalletRequests ---------------------------
(***************************************************************************)
(* A dapp's request of a wallet, from the account it is routed to          *)
(* (Keyring.resolveAccountAddress), over what its dialog shows, to what is *)
(* signed and returned (core/services/wallet).                             *)
(*                                                                         *)
(* A text is the sequence of its characters, bytes are the sequence of the *)
(* characters they encode, in which these are special:                     *)
(*   "bad"          bytes that encode no character                         *)
(*   "replacement"  U+FFFD, which decoding puts in their place             *)
(*   "null", "bom"  U+0000 and U+FEFF                                      *)
(*                                                                         *)
(* A request is                                                            *)
(*   method   "signIn", "signMessage", "signTransaction" or                *)
(*            "signAndSendTransaction"                                     *)
(*   address  of the account asked for: <<>>, or <<address>>               *)
(*   scope    of the params: <<>>, or <<scope>>                            *)
(*   payload  the bytes of the message or transaction, or for a sign-in    *)
(*            its params, a text each, <<>> when they are not given        *)
(* The structs that validate a request describe how its fields could be    *)
(* sanitized, but assert only checks them: a field stays as it was given.  *)
(***************************************************************************)
EXTENDS Integers, Sequences, SequencesExt, Lists

CONSTANTS
  Networks    \* the scopes the snap knows

\* The fields that make a line of a sign-in message each, in their order.
SignInLines ==
  <<"URI", "Version", "Chain ID", "Nonce", "Issued At", "Expiration Time", "Not Before",
    "Request ID">>

-----------------------------------------------------------------------------
(* Routing *)

\* resolveAccountAddress of the wallet service: the address asked for, if an account with
\* the scope has it. Everything else is thrown.
ResolveAccountAddress(accounts, scope, request) ==
  IF \E a \in accounts : scope \in a.scopes /\ request.address = <<a.address>>
  THEN request.address ELSE <<>>

\* resolveAccountAddress of the keyring, for which what is thrown is nothing.
Routed(accounts, scope, request) ==
  IF scope \in Networks THEN ResolveAccountAddress(accounts, scope, request) ELSE <<>>

-----------------------------------------------------------------------------
(* Texts and bytes *)

\* The UTF-8 codec of @solana/kit: a byte order mark in front is dropped, what is no
\* character is replaced, null characters are removed.
DecodeUtf8(bytes) ==
  LET unmarked == IF bytes # <<>> /\ bytes[1] = "bom" THEN Tail(bytes) ELSE bytes
      replaced == [i \in DOMAIN unmarked |->
                     IF unmarked[i] = "bad" THEN "replacement" ELSE unmarked[i]]
  IN Filter(replaced, Range(replaced) \ {"null"})
EncodeUtf8(text) == text

\* #formatSignInMessage
FormatSignInMessage(address, params) ==
  LET labelled(i) == IF params.lines[i] = <<>> THEN <<>>
                     ELSE <<"newline", SignInLines[i]>> \o params.lines[i]
      lines == FlattenSeq([i \in DOMAIN SignInLines |-> labelled(i)])
               \o (IF params.resources = <<>> THEN <<>> ELSE <<"newline", "Resources">>)
               \o FlattenSeq([i \in DOMAIN params.resources |->
                                <<"newline", "-">> \o params.resources[i]])
  IN params.domain \o <<"wants you to sign in", "newline">>
     \o address
     \o (IF params.statement = <<>> THEN <<>> ELSE <<"newline", "newline">> \o params.statement)
     \o (IF lines = <<>> THEN <<>> ELSE <<"newline">> \o lines)

-----------------------------------------------------------------------------
(* What the dialogs show *)

\* The text of a message, as ConfirmSignMessage renders it.
ShownMessage(request) == DecodeUtf8(request.payload)

\* The texts ConfirmSignIn renders, next to the account.
ShownSignIn(request) ==
  {request.payload.domain, request.payload.statement}
  \cup ToSet(request.payload.lines) \cup ToSet(request.payload.resources)

-----------------------------------------------------------------------------
(* Signing *)

\* Mutant of ValidateAccountAddress: any account the keyring has will do.
ValidateAnyAccountAddress(account, request) == request.address # <<>>

\* #validateAccountAddress
ValidateAccountAddress(account, request) == request.address = <<account.address>>

\* signMessage. The message is decoded to be signed; what is returned is as it came.
SignMessage(account, request) ==
  IF ~ValidateAccountAddress(account, request) THEN <<>>
  ELSE <<[signature |-> [key |-> account.address,
                         bytes |-> EncodeUtf8(DecodeUtf8(request.payload))],
          signedMessage |-> request.payload]>>

\* signIn: the message it formats is signed for the account, whatever account it names.
SignIn(account, request) ==
  SignMessage(account,
    [method |-> "signMessage", address |-> <<account.address>>, scope |-> request.scope,
     payload |-> EncodeUtf8(FormatSignInMessage(request.address, request.payload))])

\* signTransaction, and signAndSendTransaction, which does not validate the address.
Transact(account, request) ==
  IF request.method = "signTransaction" /\ ~ValidateAccountAddress(account, request) THEN <<>>
  ELSE <<[signature |-> [key |-> account.address, bytes |-> request.payload],
          signedMessage |-> request.payload]>>

\* #handleSubmitRequest, once the user has confirmed.
Submit(account, scope, request) ==
  IF scope \notin account.scopes \/ request.method \notin account.methods
     \/ request.scope \notin {<<>>, <<scope>>} THEN <<>>
  ELSE CASE request.method = "signIn" -> SignIn(account, request)
         [] request.method = "signMessage" -> SignMessage(account, request)
         [] OTHER -> Transact(account, request)

\* verifySignature
VerifySignature(account, signature, message) ==
  signature = [key |-> account.address, bytes |-> message]

-----------------------------------------------------------------------------
(* What a dapp can rely on *)

\* What the answer for an account returns as signed verifies with its signature.
SignsWhatItReturns(accounts, scope, request) ==
  \A a \in accounts : LET answer == Submit(a, scope, request) IN
    answer # <<>> =>
      VerifySignature(a, answer[1].signature, answer[1].signedMessage)

Removed == {"null", "bom"}

\* Bytes that decoding alters.
Altered(bytes) ==
  bytes # <<>> /\ (bytes[1] = "bom" \/ \E i \in DOMAIN bytes : bytes[i] \in {"bad", "null"})

Characters(texts) == UNION {ToSet(t) : t \in texts}
Wording == ToSet(SignInLines) \cup {"wants you to sign in", "newline", "Resources", "-"}

\* A request that resolves to an account is answered by it, and what is returned as signed
\* verifies; what is signed for an account was asked of that account, and is what its dialog
\* showed. Unless the method or the scope of the params is not the account's, the bytes are
\* no text, or a sign-in or a transaction to send was submitted for another account.
SignedUnlessExcused(accounts, scope, request) ==
  \A a \in accounts :
    LET answer == Submit(a, scope, request)
        resolved == Routed(accounts, scope, request)
        message == answer[1].signedMessage
        signed == answer[1].signature.bytes
        methodExcused == request.method \notin a.methods
        scopeExcused == request.scope \notin {<<>>, <<scope>>}
        anotherExcused == request.method \in {"signIn", "signAndSendTransaction"}
    IN /\ resolved = <<a.address>> /\ ~methodExcused /\ ~scopeExcused => answer # <<>>
       /\ answer # <<>> =>
            /\ anotherExcused \/ request.address = <<a.address>>
            /\ Altered(message) \/ VerifySignature(a, answer[1].signature, message)
            /\ request.method = "signMessage" => signed = EncodeUtf8(ShownMessage(request))
            /\ request.method = "signIn" =>
                 /\ ToSet(request.address) \subseteq ToSet(signed)
                 /\ Characters(ShownSignIn(request)) \ Removed \subseteq ToSet(signed)
                 /\ ToSet(signed) \subseteq
                      Characters(ShownSignIn(request)) \cup Wording \cup ToSet(request.address)
=============================================================================
