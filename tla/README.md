# A TLA+ verification of the Solana wallet snap

This directory holds a formal model of `@metamask/solana-wallet-snap`
(`src/packages/snap`): TLA+ modules translated from its TypeScript, TLC
configurations that model-check them on small instances, and TLAPS proofs of
what matters most for every instance. It is meant to be kept beside the code:
whoever changes a handler finds the action that stands for it in
`PROJECT.json` (`map`), and the properties it must keep.

The snap is one JavaScript program in a sandbox. It is single-threaded, so code
between two `await`s runs undisturbed; but every access to its state, its
sockets, its timers and the network is a request to the host, and while one
handler awaits an answer any other handler may run. There is no lock anywhere
in the code. Most of what can go wrong here is therefore an interleaving of
handlers at their awaits, a rejection at one of them, or the host stopping the
snap in between, which are the things unit tests with mocked answers hardly
reach. All models cut the code at its awaits: an action is one answer of the
host (or one event) with the JavaScript that follows it up to the next await.

## The system

| Part | Code (under `packages/snap/src`) | State | Interacts with | Modules |
|---|---|---|---|---|
| State store | `core/services/state/State.ts` | the persisted JSON document, held by the host | every repository | `SnapState` |
| WebSocket connections | `core/services/subscriptions/WebSocketConnection{Service,Repository}.ts` | retry counts, recovery handlers; the host's sockets | host events, client status; calls recovery handlers | `WebSocketConnection` |
| Subscription service | `core/services/subscriptions/Subscription{Service,Repository}.ts` | `subscriptions` slice, notification handlers | connections, state store, RPC server, monitors | `Subscriptions` |
| Signature monitor | `core/services/subscriptions/SignatureMonitor.ts` | map of pending signatures, in memory | subscription service, RPC, transactions, analytics | `SignatureMonitor` |
| Account monitor | `core/services/subscriptions/KeyringAccountMonitor.ts` | map account to subscription ids, in memory | subscription service, assets, transactions | `KeyringAccountMonitor` |
| Keyring | `core/handlers/onKeyringRequest/Keyring.ts` | `keyringAccounts` slice | extension (events), state, assets, monitor, wallet | `KeyringAccounts`, `KeyringRequests`, `TransactionHistory`, `WalletRequests` |
| Assets | `core/services/assets`, half of `AccountsSynchronizer` | `assetEntities` slice, a cache of 5 s | state, RPC, extension (events) | `Assets` |
| Transactions | `core/services/transactions`, the other half | `transactions` slice | state, RPC, extension (events) | `Transactions`, `TransactionHistory`, `TransactionMapping` |
| Wallet service, client requests | `core/services/wallet`, `core/handlers/onClientRequest`, `core/services/execution` | none beyond a call | keyring, RPC, signature monitor | `KeyringRequests`, `WalletRequests`, `TransactionMessages` |
| Confirmation | `core/services/confirmation`, `features/confirmation`, `refreshConfirmationEstimation` | interface contexts, `mapInterfaceNameToId`, a default context that all dialogs share | user events, scan service, scheduled events | `KeyringRequests`, `ConfirmationView` |
| Send flow | `features/send`, `refreshSend`, `core/services/send` | interface context, `mapInterfaceNameToId` | user events, refresh loop, RPC, name service | `SendFlow`, `SendAmounts` |
| Prices and caching | `core/clients/price-api`, `core/caching`, `core/services/token-prices` | in-memory cache | HTTP | `SpotPrices`, `TokenPrices` |
| RPC transport | `core/services/connection` | none beyond a call | network | `RpcTransport` |
| The rest | utilities, API clients, validation, codecs | none | | |

`PROJECT.json` lists every part, with what is modelled of it and why the rest is
not. What makes each one correct:

- **State store**: a write changes nothing but its paths. It cannot promise
  that: `update` reads the whole document and writes it back later. What it can
  promise, and what everything else is built on, is the exact extent of the
  damage.
- **Connections**: an active client has a connection to each active network or
  is about to get one; an inactive client has none; the retry loop ends; each
  connection that opens calls the recovery handlers, since subscriptions live
  off them.
- **Subscriptions**: what the monitors subscribe to is notified, on whatever
  connection there is; what they unsubscribe from is gone; notifications reach
  the record they are for.
- **Keyring**: the accounts of the snap and the extension are the same; no two
  have the same path; deletion deletes; indices are filled from below.
- **Signature monitor**: each signature is handled when it reaches its
  commitment level, once, whether its notification arrives or is missed.
- **Account monitor**: an account is subscribed to all its topics until it is
  deleted, and to none after; what was missed while the connection was lost is
  fetched.
- **Assets and transactions**: what the cluster holds is saved, and what is saved
  is what the extension shows, whichever way it came.
- **Send and confirmation**: what is signed is what was shown and confirmed, the
  answer tells what happened, and the refresh loops neither die while a dialog
  is open nor write the past over the present.
- **Caching and transport**: no price older than its time is answered, no
  attempt follows a success, and the number of attempts is bounded.
- **Computations** (amounts, conversions, mappings, decodings, dialogs): what
  they compute agrees with what they stand for, on every input but those listed.

Hard behaviours: overlapping read-modify-writes of the document; switches of the
client faster than the closing of sockets; numbers of server subscriptions that
restart with each connection; re-subscription as delete-all, save-one-by-one;
parallel deletions; failures between an announcement and what follows it; stops
of the snap, which lose its memory and keep its document; a context of a screen
that was read before an await and is written back after it. `PROJECT.json`
(`hazards`) lists them line by line with the properties that cover them.

## Modules

Every property of the form `...UnlessExcused` says that something good holds
when nothing is under way, *or one of a closed list of reasons has occurred*. A
reason is a history variable that names what happened. The lists are the point:
what is on one is how the code fails today, what is not on one (the loss of a
connection, an overlap of two calls, ...) is no way to break the property, in
any order of steps.

### SnapState: the store

`store` is the document, a function from leaf paths to contents. `SetKey` is
`setKey`, one request. `Update`, `DeleteKeys` and `MigrateState` are the first
request of `update` (the snapshot is taken), `Commit` and `Reject` the outcomes
of the second. A call in flight is a record with its snapshot and the *patch*
its updater applies; the history variable `overwritten` collects what others
write meanwhile. `Restart` drops the calls in flight and requires the migration
again. Containers and default values are abstracted: unsetting a container is
unsetting the leaves below it. An update whose patch depends on the state it
read is one whose patch is chosen when the snapshot is taken, which is when
`BeginUpdate` chooses it.

- `StaleOnlyWhereOverlapped`: a snapshot differs from the store only on paths
  that others wrote while it was held.
- `CollateralOnlyOnOverlap`: a write changes a path that it is not about only by
  undoing such a write. Hence deletions come back and additions vanish *only* by
  overlap: callers that never overlap are safe.
- `UpdateIsAtomic`, which the comments of the callers assume, is violated.

`StoreSpec` is the abstract store: what a write of any caller may do to the
document. `SnapState` is proved to implement it, and so are `Subscriptions` and
`KeyringAccounts`, whose records are paths of the document and whose writes are
steps of it.

Run `SnapState`: two calls, three paths (one of them legacy, under `assets`),
one value. Two calls are enough for any overlap of a read-modify-write with
another write, a third path shows collateral on a path of neither. Nothing
depends on the values but equality with "absent".

### WebSocketConnection: service, repository, sockets

`openConnection` has two awaits (`checks` await `findByNetwork`, `opens` await
`save`), `#closeAllConnections` one and then one per socket (`lists`, `doomed`),
`#setupConnections` one (`setups`). Calls for one network are
interchangeable, so they are counted. `socket` is what `snap_getWebSockets`
lists; `opened` and `closed` are events on their way; `timers` are the
`setTimeout`s of `#attemptReconnect`. `Fails` is the environment closing a
socket, clean or not; `BecomeActive`, `BecomeInactive` and `Restart` are the
client's and the host's doing. Names of sockets are reused once nothing refers
to them.

- `AttendedUnlessExcused`: while the client is active, each network has a
  socket, or something under way that will give it one, or one of three
  reasons: retries exhausted, closed by the server with a handshake, or closed
  by a `#closeAllConnections` that began while the client was inactive. The
  third is the one a user can cause: close the client and open it again before
  its sockets are closed.
- `InactiveLeavesOnlyStragglers`: once the closing is done, an inactive client
  has only sockets that were opened after it became inactive.
- `Reconnects` (liveness): if the client stays active, each network finally has
  an open connection or a reason.
- `EveryOpeningRecovers` (liveness): a socket that opens and stays gets its
  recovery handlers called.

Bounds: one network (networks do not interact but through `#closeAllConnections`
and the clearing of the retry map, and the proofs cover any number), two sockets
(a straggler beside the wanted one), two retries and three failures (so that
retries are exhausted and also reset), two switches or restarts (inactive and
active again). Fairness: the host answers requests and delivers events, timers
fire, a connecting socket connects or fails. None is assumed of failures,
switches or restarts. The host's API promises the former; the latter are the
user's and the network's.

### Subscriptions: service and repository over the store

Composes with SnapState: the records are its paths (`Store == INSTANCE SnapState
WITH ...`), saving is its `Write`, deletions are its two-step update, and an
update of any other slice (`UpdateOther`) is an update with an empty patch,
which still rewrites all records. A call of the service is a task with the await
it stands at; `subscribe` as called for all ids by `#reSubscribe` is one task
until its look-ups are answered. The server gives numbers (`RpcIds`) that are
unique within a connection and are reused by the next one; `inbox` holds its
answers, in any order. The connection is reduced to down, connecting, open,
with its number; that an opening calls `#reSubscribe` is `EveryOpeningRecovers`
above. There is one connection of a network at a time: the stragglers of
WebSocketConnection are not in it.

- `HeardUnlessExcused`: when nothing is in flight and the connection is open,
  each subscription that the monitors hold is live at the server and its
  notifications are routed to it alone, or one of the reasons in `Excuses` (or
  an overlap with an unsubscribe of the same id) has occurred. Loss of the
  connection at any time, reordered answers, overlapping calls and
  re-subscription are *not* among them; that makes the comment of `subscribe`
  ("automatically re-subscribes") true but for that list.
- `GoneUnlessExcused`: when nothing is in flight, a subscription that was given
  up has no record, which a later connection would revive. It speaks of records
  only: `unsubscribe` sends nothing for a subscription that is not confirmed yet,
  and the server may go on notifying, to no record, until the connection ends.

The proof of `HeardUnlessExcused` found a reason that needs four requests, one
more than any run had explored: a record is confirmed again under its old number
on the next connection, unsubscribed while that confirmation is on its way, and
subscribed again; the late confirmation then saves the old number, and the
subscription is deaf. It is the reason `cancelled`.

Bounds: two tasks, two ids, two numbers, two connections, two requests and one
disturbance (a restart or an update of another slice). Two connections are
needed for stale numbers, two ids for shared ones, two tasks for every pairwise
overlap of awaits. Larger instances were checked once, without error: four
requests of one id over two connections; three connections with a disturbance
(9.4 million states); three tasks with three requests. The theorems have no
bounds.

### KeyringAccounts: createAccount and deleteAccount

The slice `keyringAccounts` by id, the extension's own list, and for each id how
far `createAccount` and `deleteAccount` got. The three parallel `deleteKey`
calls of `#deleteAccountFromState` are three updates of SnapState, of which only
one unsets the account: `EraseRead` and `EraseWrite` interleave freely.
`FailToCreate` is a rejection at any await of `createAccount`; `EraseFails` and
`RefuseDeleted` the ones of the deletion. Reading the assets' slice and fetching
over the network are merged with what follows them, since nothing modelled
changes there. A derivation path names an index at its third level and may be
of another shape than the default one: two paths can share an index.

- `DistinctUnlessRaced`: two accounts share a derivation path only if one was
  saved from a list that another save had outdated, or was restored by a lost
  update.
- `Mirrored`: when all calls have ended, snap and extension list the same
  accounts, except for lost updates, failures after the announcement, and
  failures of the clean-up itself.
- `NoGapBelow`: an index that `getLowestUnusedIndex` chooses has no free index
  below it.

Two deviations from what the code says of itself need no run. The comment of
`getLowestUnusedIndex` (lines 8-9) promises the lowest unused index, and for
[0, 0, 1] it is 1: a used one. `deleteAccount` erases `assets.<id>` only while
the balances are kept under `assetEntities`, so they stay.

Bounds: two ids and two calls (each pair of creation and deletion overlaps),
paths up to index 1 in both shapes (gaps and duplicates), one other slice.

### SignatureMonitor: monitor, notification, recovery

`pending` is `#pendingSubscriptions`; `monitoring` is how far `monitor` got, and
`handling` counts the calls of `#handleSignatureNotification` and
`#recoverSignatureSubscription` by the await they stand at (calls for one
request differ in nothing else). The subscription service is reduced to a
record per request (`records`, `confirmed`) and the requests `#reSubscribe` has
yet to send again; Subscriptions covers the rest of it. `Advance` is the cluster:
a signature gets one level further at any time. The server notifies a live
subscription when its level is reached; when the level was reached before it was
asked, it may or may not. `link`, `opened`, `live` and `notified` are lost
together with a connection.

- `NeverEarly`: a transaction is saved and tracked only when its signature has
  reached the level asked for, by either path.
- `HandledUnlessExcused`: when all is quiet on an open connection, a monitored
  signature at its level was handled, or one of five reasons applies: a
  rejection, not being in the map when a connection opened, a notification that
  overtook the saving of its number, a first request sent too late, or a status
  fetched before the request was sent again (and the level reached in between).
  Losing the connection, at any time, is *not* a reason. The second reason is
  not what the comment of `monitor` says: the map is filled after `subscribe`
  has returned, and a connection may open between.
- `HandledOnceUnlessExcused`: it is handled twice only if handlers overlapped, or
  something of it was left behind or subscribed to again.
- `CleanedUpUnlessExcused`: what was handled is neither in the map nor in the
  records, with the same reasons.

Bounds: one signature (each action but those of the connection touches one
only), at any level asked for; three connections (recoveries of two can overlap,
and a third follows), one restart and one rejection.

### KeyringAccountMonitor, Assets, Transactions: the data of an account

Three modules about what the snap keeps of an account on its own. Each is a
state machine, and `AccountData` composes them: a behaviour is about one of them
(`topic`), because they meet in nothing but the document, on paths of their own,
which SnapState covers. One run, `AccountData`, checks all seven properties.

**KeyringAccountMonitor** is the life of one account (accounts do not
interact): `createAccount`, `deleteAccount` and the start of the snap call
`monitorKeyringAccount` and `stopMonitorKeyringAccount`, and these overlap at
every await. `monitored` is the map in memory, `records` the subscription
service's, which survive a restart. `step` stands for the parallel `subscribe`
of a topic: some go on after another has failed. `Erase` is the deletion of the
account's key, which may be rejected (`EraseFails`; `deleteAccount` does not
notice) or undone by a parallel `deleteKey` or another update that had read the
state before (`EraseOverwritten`); `SaveOverwritten` is the same for the save of a
new account. KeyringAccounts has these updates read by read and write by write;
here they can be undone at any time, which covers every such overlap.

- `MonitoredUnlessExcused`: an account of the snap is subscribed to all topics,
  but for a rejection, a restart, a stop that crossed another call, or a creation
  or deletion that was undone (`overwritten`). A deletion that is rejected or
  undone is the case of an account that is listed and no longer monitored.
  Overlapping starts and connections that open are no reason, nor is that an
  account whose monitoring has only begun is taken for monitored: whoever began
  it ends it.
- `GoneUnlessExcused`: a deleted account has no subscriptions, but for those, a
  creation that failed after monitoring (`abandoned`), an account monitored from
  a list that was older than its deletion (`stale`), or a re-subscription that
  held the topic meanwhile (`resurrected`).
- `SynchronizedUnlessExcused`: an account that was monitored when the connection
  was lost is synchronized after the next opening, unless a request was rejected,
  an update undone, a stop crossed another call, or the recovery read the records
  when `#reSubscribe` had deleted them (`cleared`) or while a call was monitoring or
  stopping (`between`).

**Assets** goes from the cluster (`real`) over notifications and `synchronize`
to the saved balances and to the extension (`listed`, `shown`). `saveMany` has
five awaits, and compares with a list that it read before the state it replaces.
The token balances fetched last are cached for 5 s.

- `SavedUnlessExcused`: what is saved is what the cluster holds, but for a lost
  update (`undone`), a save that came after one with a later balance, which no
  call is left to save again (`overtaken`), a balance from the cache (`cached`)
  or a rejection. What nobody is told of is listed as `unheard`: a closed token
  account never disappears, since `fetch` does not list it.
- `ShownUnlessExcused`: the extension shows what is saved, but for a list older
  than the state it replaced (`outdated`), an event sent after another call had
  saved (`crossed`), a call that failed after saving (`dropped`) or a native
  balance that fell to zero, which is saved and never announced (`emptied`).

**Transactions** has the two ways a transaction gets into the state: the last
signature of an address on a notification, and the signatures since the last
saved transaction of a mint on a recovery. Each decides what the other finds.

- `HistoryUnlessExcused` (`SavedUnlessExcused` there): every transaction of an
  account is saved, but when a later one was there when its notification was
  handled (`superseded`), one of the same mint, of *any* account, as late or
  later, was saved before `synchronize` asked for what came after (`jumped`),
  there were more than a page or than the limit of a call (`paged`, `limited`), or by a rejection or a
  lost update. Spam is filtered by `synchronize` only.
- `ToldUnlessExcused`: the extension has been told what is saved, unless the call
  failed after saving.

Not modelled: the trigger `onSyncAccountTransactions` of a new account, which
runs the same `synchronize`.

Bounds of `AccountData`: two calls and one disturbance. Topics: one native, one
of a program; two starts. Balances: SOL and a token, up to 2, two changes.
Transactions: three assets of two accounts of which two share a mint, four
shapes of a transaction of which one is spam, pages of 1, two transactions (so
that a page and the limit of a call are exceeded). 5.0 million states, about two
and a half minutes.

### KeyringRequests: a request, its dialog, its refresh

`submitRequest`, `signAndSendTransactionWithoutConfirmation` and `confirmSend`
from the request to the answer, one `at` per await; the dialog of
`ConfirmationHandler` and `render`; the user, who may answer, or click the
details, between any two of these; and `refreshConfirmationEstimation` as `loop`
with the context it `held`. A writer of the interface writes the whole context
it holds. All dialogs share the object `advanced` of the default context
(`instructions`) and one name in `mapInterfaceNameToId` (`nameToId`), which is
never deleted.

- `AnswersTrueUnlessExcused`: nothing is signed that was not confirmed; "ok"
  means signed, and sent where asked for; "rejected" means that the user did;
  what failed was not sent, but where the monitor failed after the sending or
  the sending failed after it had happened; what was confirmed fails, and what
  was cancelled is answered otherwise, for a named reason only (one of them:
  the user cancelled before render had finished).
- `ShownUnlessExcused`: a dialog lists the instructions of its own transaction,
  unless another was being prepared at the same time (`shared`), and cannot be
  confirmed over an error of the latest scan, unless an older context was
  written over the newer one (`overwritten`).
- `RefreshedUnlessExcused`: an open dialog goes on being refreshed, unless
  another took its name, a refresh fell due while the client was inactive (it is
  dropped, and nobody schedules another), or one was rejected; and its button
  does not stay disabled as "fetching" for any other reason.

Bounds: two requests, of the kinds "send" (it builds, asks, signs, sends,
monitors), "direct" and "message"; the other two kinds take a part of the steps
of "send" and are in the module and in the theorems, not in the instance. One
disturbance. 3.1 million states, about three minutes and a half.

### SendFlow: the send screens

The context of the interface (`ui`), events on their way with the context of the
moment the user acted (`inbox`), handlers that wait (`job`), the debounced build
(`timer`) and its runs (`build`), and `refreshSend`. `SendSpec` has weak fairness
of all of the program's own steps; the properties are safety. What went wrong on
the way is recorded in `mishaps`, a build's two writes apart: `build` when what it
began with was written over a newer context, `merge` when that happened to the
context it merges its result into. (Names begin with "Send" where SignatureMonitor
has the same, since one module proves theorems about both.)

- `SignedAsShownUnlessExcused`: what is signed is what the confirmation showed.
  The exceptions are real: Continue during the 500 ms of the debounce carries
  the old message with the new amount (`early`); each of the writers may put an
  older context over a newer one (`event`, `answer`, `merge`, `refresh`);
  `withoutConcurrency` cancels the promise, not the work, so that an older build
  may end last (`disorder`); and a new price changes what an amount in the
  user's currency means (`repriced`).
- `SentAsToldUnlessExcused`: success is shown of what was sent; otherwise one
  message is sent at most, and none while the form, the confirmation or a failure
  is shown. A second click on Confirm shows a failure of what was sent.
- `FilledUnlessExcused`: when all is done, the form holds what its inputs show,
  and a message of that.

Bounds: two handlers, two builds, three events, two on their way, an address and
a domain, one amount, two prices, one disturbance. Two of each are what an
overlap needs; three events type, type again (or continue) and confirm. 3.5
million states, about three minutes. The properties and their inductive
invariants were checked with five events as well (19 million states), and the
proofs are for any number.

### Computations: what is computed from what others tell

`Computations` composes ten topics in the way of `AccountData`. Two keep state:

- **SpotPrices**: `PriceApiClient` over its cache. `PricesFresh`: no price that
  is answered is older than its time to live and the time spent fetching by the
  call that cached it and by the one that answers. `PricesAdvanceUnlessExcused`: a
  later answer does not hold an older price, unless fetches overlapped or a hit
  was kept while another chunk was fetched.
- **TransactionHistory**: `saveMany` and the pages of `listAccountTransactions`.
  `PagesCoverUnlessMoved`: the pages show everything that was there at first,
  each once, unless a save reordered it (an unknown block time counts as 0 and
  the transaction moves when it is known).

The others are functions, asked once with every input of a bounded set, and
their answer is compared with what it stands for, stated independently (the
chain, exact fractions, a definition by quantifiers):

- **SendAmounts**, `AcceptedIsSendable`: what the two validators accept, the
  chain executes. Deviations, each a condition of the property: the priority fee
  rounds down where the chain rounds up; `SendService` has no spare lamport,
  accepts zero, and accepts amounts below the rent for newcomers; rent of a new
  token account is not counted; tokens without decimals are never built; an
  unknown fee counts as 0.
- **RpcTransport**, `AnsweredByTheFirst`: a request is answered by the first
  response there is, in the order of attempts and URLs; nothing is asked after
  it, what went wrong is reported once, and the waits between attempts are bounded
  and never get shorter.
- **TransactionMessages**, `Prepared`: the message that is signed has a fee
  payer, a blockhash, one limit and one price, and is otherwise what came.
  Deviations: an unexpected error of the estimate sends it with the old limit or
  none; a durable nonce counts as a missing lifetime and is replaced by the latest
  blockhash, while the instruction that advances the nonce stays, although the
  comment says "if it is missing" (`transaction-messages.ts:67`).
- **TokenPrices**, `ConversionsAgree`: rates there and back, and over a third
  asset, and market data do not contradict each other.
- **TransactionMapping**, `MappedTrue` and `TypedTrue`: what the items of a
  transaction say moved adds up to what did move, and its type tells which way. Deviations: who is in neither list gets a Receive without `to`; the
  payer of a receipt sees no fees although the comment says so; sponsored sends
  show fees nobody paid; a token sent to oneself is always divided by 10^6, and
  its opcode is not looked at; dust beside tokens makes spam of a Receive; a
  payer that gains less than its fee is shown as sender; a token that moves between
  two token accounts of one owner is shown as sent, or as swapped; a swap that
  brings back the SOL it paid is a Receive, which the skipped tests #6 and #7 call
  wrong (`mapRpcTransaction.test.ts:976`). The comment that a swap with tokens shows
  no SOL (`mapRpcTransaction.ts:89`) is not carried out; the tests of swaps #1 and #4
  expect the SOL, and `MappedTrue` demands it as of any other asset.
- **WalletRequests**, `SignedAsAsked`: what is signed and returned is the text
  the dialog showed, for the account asked for. `SignsWhatItReturns`, the comment
  of `signMessage`, is violated (run `SignMessage`): NUL, a byte order mark
  and bytes that encode nothing are altered before signing. `signIn` is not
  checked against the account, the dialog only warns; the structs that would
  sanitise its texts are only asserted, which does not coerce, although
  `ConfirmSignIn` calls them sanitised.
- **ConfirmationView**, `DialogTrue` and `InstructionsListed`: the dialog shows
  the scan and the instructions of what was handed over. An asset that goes in
  and out is shown as going in; an error hides the verdict; without lookup
  tables no instruction is listed. `FailedScanWarned`, a comment of
  `TransactionAlert`, is violated (run `FailedScan`): a refresh that fails counts
  as fetched, without a banner. Token-2022's `InitializeMultisig2` is parsed as
  `InitializeMultisig` (`instructions.ts:350`, against the comment at 236).

Bounds are in `MCComputations`: numbers small enough to enumerate which keep the
order and the remainders of the real ones; every kind of instruction alone, some
in pairs; messages of up to three instructions, texts of up to two characters,
transactions with at most two changing token accounts, of one owner or of two.
498,949 states in 45 s.

`Lists` holds `Array.prototype.filter` for the modules above, defined by the
positions that are kept. `SelectSeq` does the same, by a recursion that the
provers cannot look into.

## What is proved

With TLAPS, for every value of the constants. "Types" is `TypeOK` of the module,
which no run of these checks again.

- `SnapStateProofs`: types; `StaleOnlyWhereOverlapped`;
  `CollateralOnlyOnOverlap`; the abstract store is implemented. Inductive
  invariant: types together with `StaleOnlyWhereOverlapped`. Every step either
  leaves a held snapshot as it is, and then `Overwrites` records what it writes,
  or takes the snapshot from a store that it does not change. The action
  property follows: a commit writes a path outside its patch from its snapshot,
  so a change there is where the snapshot was stale.
- `WebSocketConnectionProofs`: types; `AttendedUnlessExcused`;
  `InactiveLeavesOnlyStragglers`. The two are inductive with the types. Each
  action that takes away a network's last witness (a socket, a counted call, a
  timer, an unclean close event) leaves another or an excuse; each socket of an
  inactive client is still to be listed, listed, or was opened too late.
- `SubscriptionsProofs`: types; the abstract store is implemented;
  `HeardUnlessExcused`; `GoneUnlessExcused`. The invariant says of each id that
  it is excused, or that its record is truthful about the server, or gone for
  good, or kept by a task that will make it so; besides, that answers are only
  on their way on an open connection, and that contended ids have raced.
- `KeyringAccountsProofs`: types; the abstract store; `DistinctUnlessRaced`;
  `NoGapBelow`; `Mirrored`. The invariant says what a call's await implies of
  the account in the state and in the extension's list, that an update erases
  only its own account, and that the path of a creation under way is free or
  raced. The sorting of `getLowestUnusedIndex` is a lemma of its own.
- `SendingProofs`, of SignatureMonitor: types; `NeverEarly`;
  `HandledUnlessExcused`; `HandledOnceUnlessExcused`; `CleanedUpUnlessExcused`,
  from three parts: what is handled was evidenced (`OnlyOnEvidence`), a signature
  has one owner that may handle it (`OnceInv`), and while it is not handled
  something will hear of it (`HeardInv`).
- `SendingProofs`, of SendFlow: types; `SignedAsShownUnlessExcused`;
  `SentAsToldUnlessExcused`; `FilledUnlessExcused`. `StateInv` says of each copy of
  the context, on the screen, with an event, a handler, a build or the refresh,
  of which stage it is and what it has. On it rest, as long as no mishap of the
  kinds concerned happened:
  - `SentInv`: one handler signs at most, and the interface is then "pending",
    which no other write puts back to the form.
  - `BuildInv`: the message of the screen, or the one being built last, does what
    the screen shows, or another build is debounced. `ConfirmInv` carries that to
    what was clicked, approved and is being signed.
  - `FormInv`: the address is the one of the recipient or being resolved, and a
    form that is complete has its message, or a build that will bring one.
  - `TypedInv`: what is typed is what the last event on its way brings, or what
    the screen has; or the next event that writes came from a screen that is no
    longer there (`Doomed`), and then an older context is going to be written over
    a newer one. Without this second half it is not inductive: a click on Continue
    or on the currency switch leaves the events behind it with an old context.
- `KeyringRequestsProofs`: types; `AnswersTrueUnlessExcused`;
  `ShownUnlessExcused`; `RefreshedUnlessExcused`. `AnswerInv` says of each await
  what the user has answered and what is signed and sent by then. `RenderInv`
  says that nobody but render knows of a dialog before it has its name, so that
  its context is still "fetching" and cannot be confirmed. `ListInv` says of
  *all* copies of a context (on the screen, sent along with a click, held by a
  refresh) what the property says of the one on the screen.
- `AccountDataProofs`: all seven properties of `AccountData`. Its invariant is
  one for each topic.
  - *Monitor*: while a listed account is monitored, or being subscribed, each
    topic has a record, or is held by `#reSubscribe`, or its `subscribe` has yet
    to save it (`KeptInv`); before that a call is on its way to subscribe
    (`MonitoredInv`). A call that stops holds every topic that has a record
    (`RecordInv`), so that none is left. What a connection finds monitored has a
    native topic that is kept until the recovery looks (`SyncInv`).
  - *Assets*: of the calls that wait to save a balance of an asset, one at most
    has the latest that any call got (`LatestInv`). With it, the balance on the
    cluster is in the last notification of the asset, or with that call, or saved
    (`SavedInv`). What the extension lacks is what a call is about to announce
    (`ShownInv`).
  - *Transactions*: each one is saved, on its way, unheard of, with a call that
    fetches it, or excused, asset by asset (`HistoryInv`). That it was jumped only
    if one of its mint was saved rests on what a call asks for "since"
    (`SoughtInv`), and that on the existence of a newest among what is saved. What
    is saved and not told is with the call that will tell it (`ToldInv`).
- `ComputationsProofs`, of the whole of `Computations`, whose steps take a step of
  one topic and leave the others alone.
  - *Prices*: `PricesFresh` and `PricesAdvanceUnlessExcused`. A price of an asset is
    held in three places (the cache, the hits of a call that fetches others, the
    newest answer so far), and the invariant compares any two: `EntriesAdvance`,
    `AskedAdvance`, `HitsAdvance`. Where it cannot, two calls were fetching the
    asset at once, which the entry or the call remembers.
  - *History*: `PagesCoverUnlessMoved`, for a page of any size. `HistoryInv` says that
    what was saved when the first page was read is still there in its order, that
    the cursor is a transaction that is saved, and that what was wanted and comes
    before it is what was shown. Saving sorts a list whose positions may all change;
    that it keeps the invariant rests on how filtering commutes with what saving
    does, unless it moved something, which is the excuse.
  - *What is asked once*: each of the other topics is one computation on any input,
    and `InputInv` says that only inputs are asked about. What is proved of every
    input that the constants name, whatever these are, are then facts about
    operators:
    `AcceptedIsSendable` and `ConversionsAgree`, by arithmetic;
    `AnsweredByTheFirst`, for any number of attempts and URLs, from what is the least
    of a set of attempts, or of URLs;
    `Prepared` and `InstructionsListed`, for lists of any length, by how filtering
    and joining lists go together;
    `SignedAsAsked`, for any accounts and texts, from which characters can occur in
    what is formatted and decoded;
    `DialogTrue`, for any two answers of a scan;
    `MappedTrue` and `TypedTrue`, for any transaction and account. A sum over a
    finite set does not depend on the order, splits over two parts and over places
    that are filled one each (`TotalBy`, `TotalUnion`, `TotalPlaces`); the two lists
    and the two balances are sums over the token accounts of one owner and one mint,
    so that their differences are equal. What was sent to itself is in both lists
    and cancels.

Induction over numbers and over finite sets is stated of a set, not of an operator
(`Induct`: a set that has 0, and `n + 1` with each `n`, has all numbers; `InductSet`
likewise). Both follow from the library's theorem that finite sets are well-founded
by strict inclusion, through the least number of a set (`Least`).

Attempts at these proofs corrected the models where the runs were too small to
show it.

- `TypedTrue` was false of an account with two token accounts of one mint, of which
  one lost tokens and the other got some: the account is then on both sides, and the
  type says "send", or "swap" if SOL went along, whatever became of the two balances
  together. The run had one token account for each owner. It has both cases now, and
  the reason (`MovedWithin`) is listed.
- A save that was overtaken needs its excuse unless the call with the latest
  balance is still to come: that *another* call is still to come is not enough,
  since with three calls that one may be overtaken as well.
- A transaction is jumped when `synchronize` asks for the signatures after the
  last saved one, not when it reads what is saved: what goes unheard between the
  two is asked for as well, and what was saved then may have been undone since.
- That an account is taken for monitored after its first topic excuses nothing,
  since whoever began to monitor it goes on.
- `SignedAsShownUnlessExcused` was false as first stated, beyond the three events
  of its run. While a build runs, the user types another amount and then chooses
  another asset, which empties the amount. The build, which read the context in
  between, writes the typed amount back with a message of the one before; and the
  debounced call, which has the empty amount, builds nothing, so that the user may
  continue with the two. The mishap was recorded as one of `build`, which the
  property rightly does not list; `merge` is now one of its own, and listed.

Assumptions are those the modules declare, and TLC evaluates them in every run.
Most say that placeholders ("absent", "nobody", "none") are not members of what they
stand beside, that bounds are numbers, that there is at least one attempt, and that
the ids of accounts are finitely many. Those of `Computations` say what its inputs
are:

- `AmountsAssumption`, `RatesAssumption`, `HistoryAssumption`, `TransportAssumption`,
  `ScansAssumption`, `HandedAssumption`: amounts, prices, limits and counts are
  numbers, divisors are not zero, lists are lists. The structs that validate the
  answers, and the configuration, ensure that.
- `MessagesAssumption`: a message has two parties and a list of instructions; what
  the RPC answers is a blockhash.
- `RequestsAssumption`: accounts have different addresses (each is derived from a path
  of its own), a request names one of the methods that the handler accepts, and an
  address is made of characters that UTF-8 keeps, as base58 is.
- `MappingAssumption`: the chain refuses a transaction that names an account twice and
  charges at least the base fee for each signature; it reports a balance before and
  after for each account, and one for each token account, whose mint cannot change.
  That the owner which is named is the owner throughout leaves out a token account
  that is handed over (`SetAuthority`) or closed and opened again for another within
  the same transaction: of these the code looks at the owner before only.

Only model-checked, and why: the two liveness properties, `Reconnects` and
`EveryOpeningRecovers`, since fairness and ENABLED are out of the prover's reach; and
the three violations, each of which is a trace of the named run. Every invariant and
every action property of the passing runs is a theorem.

`TypeOK` of KeyringAccountMonitor, Assets and Transactions and `SendTypeOK` are in
no configuration; TLC finds them true on the instances of the runs. `SendTypeOK` is
proved; of the others the proofs use the part that they need (`MonitorTypes`,
`BalanceTypes`, `HistoryTypes`).

## Plan

Done: the modules above, with their runs and proofs.

Left, in this order:

1. An abstract connection (absent, connecting, open, given up) that
   WebSocketConnection implements, and that Subscriptions and SignatureMonitor
   assume, with two sockets of one network at a time.
2. The synchronization of a new account (`onSyncAccount*`) as a trigger of its own.

## Not modelled

Signing, encoding and cryptography (library code), the HTTP clients and the
validation of their answers, localisation, layout, logging, analytics payloads
(their failures are caught, and they keep nothing), polyfills, the test dapp
`packages/site`. They keep no state that another part could see half-written.
The cache in the document (`StateCache`) is created and never read
by the running program. What each unmodelled component is, and why, is in
`PROJECT.json`.

## Running

`tlc -workers 2 -config MCSnapState.cfg MCSnapState` and likewise for the other
configurations (`SignatureMonitor.cfg` goes with its own module). Three end with
the counterexample that their finding describes: `MCSnapStateAtomic`,
`MCComputationsSigned`, `MCComputationsWarned` (the last two with the module
`MCComputations`). `tlapm SnapStateProofs.tla` and likewise for the other seven
`...Proofs` modules check the proofs; each takes a minute or a few, `ComputationsProofs` a quarter
of an hour.
`CHECK_DEADLOCK FALSE` is given where the bounds, or calls that have all ended,
let the system stop.
