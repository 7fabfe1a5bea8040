----------------------------- MODULE SpotPrices -----------------------------
(***************************************************************************)
(* Prices from the API: PriceApiClient with its in-memory cache.           *)
(*                                                                         *)
(* getMultipleSpotPrices reads the cache, asks the price API for the       *)
(* assets it lacks, in chunks fetched in parallel, and caches them when    *)
(* every chunk has answered; getHistoricalPrices goes through useCache,    *)
(* which does the same for one key. Nothing joins a call to one already    *)
(* under way for the same asset. A price is the moment the API served it.  *)
(***************************************************************************)
EXTENDS Integers, FiniteSetsExt, Functions

CONSTANTS
  Assets,      \* the assets whose prices are asked for
  Unlisted,    \* those the API answers nothing for
  Histories,   \* cache keys of historical prices
  PriceCalls,  \* identifiers of calls
  ChunkSize,   \* assets per request (a hundred or so in the code)
  Ttl,         \* how long a price stays in the cache
  MaxTime      \* bound on the clock

ASSUME TtlAssumption == Ttl \in Nat

VARIABLES
  now,     \* Date.now()
  cache,   \* InMemoryCache: from some keys to [at, waited, expiresAt, overlap]
  call,    \* the calls under way
  answer,  \* what the last step answered, if it did
  latest   \* history: the newest price answered so far, by key

pvars == <<now, cache, call, answer, latest>>

Keys == Assets \cup Histories
\* asked: what it fetches; pending: the requests not answered yet; overlap: what another
\* call was fetching too.
Idle == [asked |-> {}, pending |-> {}, prices |-> <<>>, since |-> 0, overlap |-> {}]

PInit ==
  /\ now = 0
  /\ cache = <<>>
  /\ call = [c \in PriceCalls |-> Idle]
  /\ answer = <<>>
  /\ latest = [k \in Keys |-> 0]

-----------------------------------------------------------------------------
(* InMemoryCache *)

IsExpired(entry) == entry.expiresAt < now

\* What mget leaves in the cache: it first deletes every expired entry.
CleanedUp == Restrict(cache, {k \in DOMAIN cache : ~IsExpired(cache[k])})

\* Were the time to live forgotten.
MSetForGood(prices, overlap) ==
  [k \in DOMAIN prices \cup DOMAIN cache |->
     IF k \in DOMAIN prices
       THEN [at |-> prices[k].at, waited |-> now - prices[k].at, expiresAt |-> MaxTime,
             overlap |-> k \in overlap]
       ELSE cache[k]]

\* A key without a value is not stored.
MSet(prices, overlap) ==
  [k \in DOMAIN prices \cup DOMAIN cache |->
     IF k \in DOMAIN prices
       THEN [at |-> prices[k].at, waited |-> now - prices[k].at, expiresAt |-> now + Ttl,
             overlap |-> k \in overlap]
       ELSE cache[k]]

-----------------------------------------------------------------------------
(* The calls *)

Fetching(c) == call[c].pending # {}

\* The answer leaves the client. late: kept from the cache while the rest was fetched.
Answer(prices, waited, late, overlap) ==
  /\ answer' = [k \in DOMAIN prices |->
       [age |-> now - prices[k].at, waited |-> waited + prices[k].waited,
        older |-> prices[k].at < latest[k], late |-> k \in late,
        overlap |-> prices[k].overlap \/ k \in overlap]]
  /\ latest' = [k \in Keys |-> IF k \in DOMAIN prices
                               THEN Max({latest[k], prices[k].at}) ELSE latest[k]]
NoAnswer == answer' = <<>> /\ UNCHANGED latest

\* The requests one call makes: all of them full but perhaps one.
Chunkings(keys) ==
  {P \in SUBSET SUBSET keys :
     /\ UNION P = keys
     /\ \A x, y \in P : x # y => x \cap y = {}
     /\ \A x \in P : Cardinality(x) \in 1..ChunkSize
     /\ Cardinality({x \in P : Cardinality(x) < ChunkSize}) <= 1}

\* What is in the cache is kept for the answer while the rest is fetched.
Read(c, keys) ==
  LET hits == Restrict(CleanedUp, keys \cap DOMAIN CleanedUp)
      missing == keys \ DOMAIN hits
  IN /\ ~Fetching(c)
     /\ cache' = CleanedUp
     /\ IF missing = {}
        THEN Answer(hits, 0, {}, {}) /\ UNCHANGED call
        ELSE /\ \E P \in Chunkings(missing) :
                  call' = [d \in PriceCalls |->
                    IF d = c
                    THEN [asked |-> missing, pending |-> P, prices |-> hits, since |-> now,
                          overlap |-> missing \cap UNION {call[e].asked : e \in PriceCalls}]
                    ELSE [call[d] EXCEPT !.overlap = @ \cup (missing \cap call[d].asked)]]
             /\ NoAnswer
     /\ UNCHANGED now

GetMultipleSpotPrices(c) == \E keys \in SUBSET Assets \ {{}} : Read(c, keys)
GetHistoricalPrices(c) == \E k \in Histories : Read(c, {k})

\* Were the hits cached again with what was fetched.
StoredWithHits(c, prices) == prices
\* What a call caches: what it fetched, not what it had from the cache.
Stored(c, prices) == Restrict(prices, call[c].asked \ Unlisted)

\* One chunk is answered, with what the API served since it was asked. The last one
\* stores what this call fetched and answers.
Fetched(c) ==
  /\ \E chunk \in call[c].pending, at \in call[c].since..now :
       LET prices == [k \in (chunk \ Unlisted) \cup DOMAIN call[c].prices |->
                        IF k \in chunk \ Unlisted
                          THEN [at |-> at, waited |-> 0, overlap |-> FALSE]
                          ELSE call[c].prices[k]]
           late == {k \in DOMAIN prices \ call[c].asked : call[c].since < now}
       IN IF call[c].pending # {chunk}
          THEN /\ call' = [call EXCEPT ![c].pending = @ \ {chunk}, ![c].prices = prices]
               /\ NoAnswer
               /\ UNCHANGED cache
          ELSE /\ call' = [call EXCEPT ![c] = Idle]
               /\ cache' = MSet(Stored(c, prices), call[c].overlap)
               /\ Answer(prices, now - call[c].since, late, call[c].overlap)
  /\ UNCHANGED now

\* One chunk fails: the call throws, and what the others brought is not cached.
FetchFails(c) ==
  /\ Fetching(c)
  /\ call' = [call EXCEPT ![c] = Idle]
  /\ NoAnswer
  /\ UNCHANGED <<now, cache>>

Tick ==
  /\ now < MaxTime
  /\ now' = now + 1
  /\ NoAnswer
  /\ UNCHANGED <<cache, call>>

PNext ==
  \/ Tick
  \/ \E c \in PriceCalls :
       GetMultipleSpotPrices(c) \/ GetHistoricalPrices(c) \/ Fetched(c) \/ FetchFails(c)

\* A price answered is no older than its time to live, and the time that the call which
\* cached it and the one that answers it spent fetching.
PricesFresh == \A k \in DOMAIN answer : answer[k].age <= Ttl + answer[k].waited

\* A caller is never shown an older price of an asset than was shown before, unless it
\* was fetched by two calls at once, or kept while another chunk was fetched.
PricesAdvanceUnlessExcused ==
  \A k \in DOMAIN answer : answer[k].older => answer[k].overlap \/ answer[k].late
=============================================================================
