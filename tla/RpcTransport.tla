---------------------------- MODULE RpcTransport ----------------------------
(***************************************************************************)
(* One RPC request through the transports of core/services/connection:     *)
(* error tracking around retrying around failover over the URLs of the     *)
(* network.                                                                *)
(*                                                                         *)
(* What the network does is a table: outcomes[attempt][url] is             *)
(*   "answer"    a response                                                *)
(*   "rpcError"  a response that is a JSON-RPC or Solana error             *)
(*   "error"     an Error is thrown (HTTP status, network down)            *)
(*   "value"     something that is not an Error is thrown                  *)
(* The table says what each request would meet: the program decides which  *)
(* of them it makes.                                                       *)
(***************************************************************************)
EXTENDS Integers, FiniteSetsExt, Sequences

CONSTANTS
  MaxAttempts,    \* MAX_ATTEMPTS
  BaseDelay,      \* BASE_RETRY_DELAY_MS
  MaxDelay        \* MAX_RETRY_DELAY_MS

Responses == {"answer", "rpcError"}
Outcomes == Responses \cup {"error", "value"}

\* createFailoverTransport: the URLs in order until one responds; else the last error,
\* which carries its URL when it is an Error.
Failover(round) ==
  LET n == Len(round)
      responded == {u \in 1..n : round[u] \in Responses}
      last == IF responded = {} THEN n ELSE Min(responded)
  IN [what |-> round[last], tried |-> last,
      url |-> IF round[last] = "error" THEN last ELSE 0]

\* calculateRetryDelay, of attempts counted from 1
RetryDelay(attempt) == Min({BaseDelay * 2 ^ (attempt - 1), MaxDelay})

\* The requests made, each by its attempt and its URL.
Requests(outcomes, rounds) ==
  {p \in (1..rounds) \X (1..Len(outcomes[1])) : p[2] <= Failover(outcomes[p[1]]).tried}

\* Were a JSON-RPC error retried like an exception.
RetryingRpcErrors(outcomes) ==
  LET answered == {a \in 1..MaxAttempts : Failover(outcomes[a]).what = "answer"}
      last == IF answered = {} THEN MaxAttempts ELSE Min(answered)
      final == Failover(outcomes[last])
  IN [what |-> final.what, url |-> final.url, rounds |-> last,
      asked |-> Requests(outcomes, last), slept |-> [a \in 1..(last - 1) |-> RetryDelay(a)]]

\* createRetryingTransport: rounds until one responds. It sleeps between two rounds.
Retrying(outcomes) ==
  LET responded == {a \in 1..MaxAttempts : Failover(outcomes[a]).what \in Responses}
      last == IF responded = {} THEN MaxAttempts ELSE Min(responded)
      final == Failover(outcomes[last])
  IN [what |-> final.what, url |-> final.url, rounds |-> last,
      asked |-> Requests(outcomes, last), slept |-> [a \in 1..(last - 1) |-> RetryDelay(a)]]

\* createErrorTrackingTransport: an error in a response is tracked and handed on, an error
\* thrown is tracked, with its URL, and thrown again as an Error. Failing to track is
\* ignored.
Request(outcomes) ==
  LET sent == Retrying(outcomes) IN
  [thrown |-> sent.what \notin Responses,
   answer |-> IF sent.what \in Responses THEN sent.what ELSE "Error",
   tracked |-> IF sent.what = "answer" THEN <<>> ELSE <<sent.url>>,
   rounds |-> sent.rounds, asked |-> sent.asked, slept |-> sent.slept]

\* The requests there could be are made attempt by attempt, URL by URL.
Before(p, q) == p[1] < q[1] \/ (p[1] = q[1] /\ p[2] < q[2])

\* A request is answered by the first response there is, in the order of the attempts and
\* of the URLs, and nothing is asked after it; it fails only when every URL failed at every
\* attempt. What went wrong is reported once. It sleeps between two attempts, never longer
\* than the limit and never shorter than before, and not at all when the first one responds.
AnsweredByTheFirst(outcomes) ==
  LET result == Request(outcomes)
      n == Len(outcomes[1])
      places == (1..MaxAttempts) \X (1..n)
      outcome(p) == outcomes[p[1]][p[2]]
      responses == {p \in places : outcome(p) \in Responses}
      final == outcomes[MaxAttempts][n]
  IN /\ result.thrown <=> responses = {}
     /\ result.asked = {p \in places : ~\E q \in responses : Before(q, p)}
     /\ \A p \in responses \cap result.asked : result.answer = outcome(p)
     /\ Len(result.tracked) = (IF result.answer = "answer" THEN 0 ELSE 1)
     /\ result.thrown /\ final = "error" => result.tracked = <<n>>
     /\ Len(result.slept) = result.rounds - 1
     /\ \A a \in DOMAIN result.slept : result.slept[a] <= MaxDelay
     /\ \A a, b \in DOMAIN result.slept : a < b => result.slept[a] <= result.slept[b]
     /\ result.slept = <<>> <=> \A p \in result.asked : p[1] = 1
=============================================================================
