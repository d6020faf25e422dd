# TLA+ specifications of Shopify Automation Lab

Specifications of the parts of this repository where several processes, or several
calls of one process, touch the same data: the order pipeline that pushes to an ERP
and reconciles against it, the catalogue mirror that a full sync and webhook handlers
both write, the download that feeds the sync, the queue that feeds the handlers, the
client and limiter every call to Shopify goes through, and the scripts that write to
the shop item by item. Paths are relative to the repository (`src/worker.ts` and so on are in its `src/` directory).

## Contents

| File | What it is |
|---|---|
| `OrderPush.tla` | order handler, its rows, the ERP stub, reconciliation |
| `OrderLedger.tla` | what the order pipeline promises; `OrderPush` implements it |
| `OrderPushProofs.tla` | theorems about `OrderPush`, for every value of its constants |
| `MCOrderPush.tla`, `OrderPush_*.cfg` | small instances of `OrderPush` for TLC |
| `Catalog.tla` | product webhook handler, full sync, bulk operation, the rows |
| `CatalogMirror.tla` | what the mirror promises its readers; `Catalog` implements it |
| `CatalogProofs.tla` | theorems about `Catalog` |
| `MCCatalog.tla`, `Catalog_*.cfg` | small instances of `Catalog` for TLC |
| `WebhookQueue.tla` | receiver, jobs, worker slots, replay and clearing |
| `WebhookHandoff.tla` | what the queue promises receiver and handlers; `WebhookQueue` implements it |
| `WebhookQueueProofs.tla` | theorems about `WebhookQueue` |
| `MCWebhookQueue.tla`, `WebhookQueue_*.cfg` | small instances of `WebhookQueue` |
| `RateLimiter.tla` | the limiter's state and what each of its methods does to it |
| `ShopifyClient.tla` | concurrent calls over one limiter and one token cache |
| `ShopifyClientProofs.tla` | theorems about `ShopifyClient` |
| `MCShopifyClient.tla`, `ShopifyClient_*.cfg` | small instances of `ShopifyClient` |
| `BulkStream.tla` | a bulk operation's result cut into lines, grouped and written in batches |
| `BulkStreamProofs.tla` | theorems about `BulkStream` |
| `MCBulkStream.tla`, `BulkStream_import.cfg` | a small instance of `BulkStream` |
| `BatchScripts.tla` | generate, teardown and populate: listing by pages, worker pools, retried writes |
| `BatchScriptsProofs.tla` | theorems about `BatchScripts` |
| `MCBatchScripts.tla`, `BatchScripts_runs.cfg` | a small instance of `BatchScripts`, in five scenes |
| `SumLemmas.tla` | induction on finite sets, sums over them; used by two of the proof modules |
| `PROJECT.json` | components, runs, faults, source map, hazards, theorems |

`tlc -config OrderPush_safety.cfg MCOrderPush.tla` runs an instance, `tlapm
CatalogProofs.tla` checks a module's proofs (about 1,430 obligations for the orders,
2,030 for the catalogue, 1,300 for the queue, 670 for the client, 2,560 for the download,
2,900 for the scripts and 140 for the sums; two minutes at most each).

## Inventory of the system

| Component | State it keeps | Operations | Correct when |
|---|---|---|---|
| Order handler (`worker.ts` handleOrder, `order-handler.ts`) | `Order`, `ErpPush`, `ProcessedEvent` rows; its own memory between awaits | mirror, prior check, intent, POST, outcome, processed event | rows never claim what the ERP has not done; evidence exists before the ERP can have an order; a settled webhook has had its effect; test orders stay local |
| ERP stub (`erp-stub.ts`) | map of accepted orders by idempotency key, counter; both in memory | POST /orders in five modes, GET /orders | a repeated key returns the original reference; references are unique |
| Reconciliation (`reconcile-erp.ts`, `make-unknown.ts`) | `ErpPush` rows, one run's snapshot of the ERP | fetch, classify, repair | a repair records what really happened; verdicts mean what the comments say |
| Product webhook handler (`worker.ts` handleProductUpdate) | `Product`, `WarehouseNotification`, `ProcessedEvent` rows | guard, compare, transaction | the warehouse is told once, in the transaction that changes the row |
| Catalogue sync (`sync-products.ts`) | `Product`, `Variant`, `SyncRun` rows; a run's start time and snapshot | cancel, submit, poll, write batches, mark deletions | only rows of vanished products are marked; a finished run heals everything; a run ends |
| Bulk operations (`bulk.ts`) | Shopify's one current operation per app | submit, cancel, poll; cut the result into lines, parse, put variants after their product | only a complete result is used as a catalogue; chunks leave no trace in the groups |
| Queue and receiver (`queue.ts`, `webhook-server.ts`, `queue-monitor.ts`, `queue-clear.ts`) | BullMQ jobs in Redis by webhook id | enqueue, run, retry, retain, replay, clear | every accepted delivery is run at least once; duplicates are dropped while the job is retained |
| Rate limiter (`rate-limiter.ts`) | last reading, recent costs, reserved points, callers in flight | acquire, release, record, mark throttled | callers do not share headroom; nobody waits for ever (neither holds of every sequence of costs) |
| Shopify client (`shopify.ts`, `retry.ts`, `mutations.ts`) | cached token, attempt counts | request with retry, refresh after 401, mutation | a non-idempotent mutation is sent once; a live token is used |
| Batch writers (`populate-inventory.ts`, `generate-products.ts`, `teardown-products.ts`) | a list, the index its workers share, the outcomes; products, tags and levels in Shopify | list, drain with n workers, retry what is idempotent | every item handled once, and in effect at most once; what counts as done is done; untagged products are spared |
| Pagination (`paginate.ts`) | the cursor and the one before it | page through a connection | ends; misses nothing that stays |
| Metafields and subscriptions (`metafields.ts`, `register-webhooks.ts`) | Shopify objects | define and set; delete and recreate | what is missing after a failure is restored by another run |
| Reports, probes, configuration | none | read and print | not state machines |

How they interact. The receiver puts webhooks on the queue; the worker takes them
off, five at a time per process, at least once each, and routes them to the order or
the product handler. The order handler writes Postgres and calls the ERP over HTTP;
reconciliation reads both later. The product handler and the sync write the same
`Product` rows and meet only there: in row locks and in the `lastSeenAt` stamp the
sync compares with its own start. The sync shares with every other script the one
bulk operation Shopify allows. All calls to Shopify go through the client and its
one limiter. Two of the writing scripts may run at once; they meet in the shop, in its
lagging search index and in the idempotency keys both derive from the same item.

What is hard here: two jobs for one order at once; a crash or a throw between an
effect and its record; an answer that comes after its caller has given up; a retry
meeting its own earlier request; a remote system that forgets; a snapshot that is old
when it is compared or written; a list read page by page while it changes; a retry of a
write that took effect; statements of one job that are not in one
transaction; runs that overlap; an operation that never ends. `PROJECT.json` lists
these hazards one by one, at the line where each bites, with the properties aimed at
it.

## OrderPush

One action per await of the handlers. `pc[s]` is the await that execution `s` stands
at; a slot stands for a place in a worker's pool of five, over all worker processes.
Any free slot may start any webhook at any time: that is the at-least-once queue with
retries, stalled jobs handed on while the first execution still runs, and redelivery,
without assuming anything about deduplication in Redis. `WebhookQueue` shows how a
webhook comes to be started twice, or beside itself; what is proved here needs none of
its guarantees.

| Code | Model |
|---|---|
| `ProcessedEvent` guard of `handleOrder` | `Start` (an execution that finds the row changes nothing and is not started) |
| mirror transaction, test order return | `MirrorOrder`, `Blocked` |
| `priorConfirmed` | `CheckPrior` |
| phase 1 upsert | `RecordIntent` |
| `fetch` with `AbortSignal.timeout(5000)` | `SendPost`, `SendFails`, `ReceiveReference`, `ReceiveRefusal`, `ReceiveBroken`, `Timeout` |
| phase 2 update, and its throwing inside the `try` | `RecordConfirmed`, `ConfirmThrows` |
| catch block, `isAmbiguous` | `RecordFailure` from `settle_unknown` or `settle_failed` |
| `ProcessedEvent` insert | `RecordEvent` |
| a crash or a database error at any await | `Abandon` |
| ERP handler before and after its awaits | `ErpCheck`, `ErpAccept`; `LoseRequest`, `ErpRestart` |
| reconciliation | `FetchRemote`, `Classify`, `Repair`, `EndRun` |
| `make-unknown.ts` | `ForceUnknown`, only when `Tooling` |

A request is a record with a stage, from `fetch` until its answer is read or lost; it
outlives a caller that times out. `issued` is a history variable: every reference the
ERP ever created for an order, also after a restart has made it forget.

Properties. `ConfirmedIsTruthful`, `EvidenceOfPush`, `ProcessedMeansDone`,
`TestOrdersStayLocal`, `ReferencesAreUnique` are invariants, `ImplementsLedger` is
refinement of `OrderLedger`, `EveryExecutionEnds` is liveness.

Fairness: weak fairness of what an execution does by itself. Node's event loop runs
every continuation, Postgres answers or throws, and the abort timer is always
running while the answer is awaited. Nothing is assumed of the ERP, of the queue or
of the scripts.

## Catalog

A product's tracked fields are represented by the number of the change that set
them, which is also the webhook announcing it; a row agrees with the shop when it
carries the shop's number. Payload contents, prices, inventory counts and the counters
of `SyncRun` are data no property tells apart and are left out. Time matters only in
`lastSeenAt < runStartedAt`, so a clock that counts runs is enough: run `r` starts at
`2r`, and anything stamped between it and the next start gets `2r + 1`. The worker's and
the sync's clocks are taken to agree.

| Code | Model |
|---|---|
| guard, `findUnique`, comparison of fields | `Start`, `ReadProduct` |
| no-op branch | `RecordNoop` |
| interactive transaction: `new Date()` evaluated in Node as the update is built, before it is sent | `TakeStamp` |
| the update gets the row lock; notification, processed event, commit | `UpdateRow`, `Commit`; `Locked` is the lock, `Abandon` rollback, the unique key or a crash |
| `main` of `sync-products.ts` up to the result | `Begin`, `CheckCurrent`, `CancelOp`, `SubmitOp`, `PollOp`, `PollTimesOut` |
| reading the rows, streaming the result in batches | `ReadSnapshot`, `FlushProducts`, `FlushVariants` |
| the two deletion statements | `JudgeProducts`, `JudgeVariants`, `Unseen` |
| completion, any throw, process death | `Finish`, `RunStops` |
| Shopify (not in this repository) | `Create`, `Edit`, `Delete`, `OpEnds` |

`late` and `touched` are history: the rows last written by a webhook whose update was built
before the latest run began, and those a webhook wrote since a run did.

Properties. `NotifiedOnce`: the warehouse is told at most once per webhook.
`DeletedMeansGone`: only what the shop has lost is marked, rows in `late` excepted: an
update built before a run began and carried out after the run's own write moves the
stamp back, and the run then takes the product for unseen (`catalog_late`). `SyncHeals`: when a run
gets to its end and the shop has not moved since the export, every row agrees with it,
except rows a webhook wrote meanwhile, whatever happened in earlier runs.
`ImplementsMirror`: refinement of `CatalogMirror`, in which a row is hidden only when its
product is gone, or was announced last by a message that had grown old. `EveryRunEnds`: liveness, from some time
on no run is under way.

Fairness: weak fairness of ending a transaction that holds its row, by commit or by
Prisma's timeout of five seconds; strong fairness of a run, two of whose statements
wait for row locks, because Postgres grants a lock in turn. Nothing is assumed of an
execution that holds no row, nor of Shopify, which may leave its operation running for
ever: the poll's limit is what ends the run.

## WebhookQueue

The way of a webhook from Shopify to the end of its handler, which here only returns,
throws or dies; what a handler does is the subject of the two modules above. BullMQ is
not in this repository. Its part is modelled from the options `queue.ts` and `worker.ts`
give it and the comments there: a job id that is taken is ignored, a job is run under
a lock that is renewed while its process lives, a job without a lock is reclaimed,
attempts and stalls are counted apart.

| Code | Model |
|---|---|
| `webhookQueue.add` under the webhook id, then the 200 | `Enqueue`, `Acknowledge`; `LoseAnswer` when it does not arrive |
| a slot of the worker's pool runs a job | `Take`, `Return`, `Throw` |
| the outcome reported to Redis, if the lock is still the slot's | `Complete`, `Fail` |
| process death; a lock that expires under a running handler | `Crash`, `LoseLock` |
| backoff, stall check with `maxStalledCount`, `removeOnComplete`, `removeOnFail` | `BackoffEnds`, `Reclaim`, `Expire` |
| `queue-monitor.ts` with `RETRY=yes` | `ListFailed`, then `Replay` job by job |
| `queue-clear.ts` | `Clear` |

A slot whose process was killed is free again at once: another process may take its
place. The slot that lost its lock runs on and its outcome is not recorded. Two things
the code does not settle are left open: the order of waiting jobs, and whether
`job.retry()` resets the attempts. `served`, `discarded` and `loose` are history.

Properties. `NothingIsLost`: a webhook answered 200 has been run to the end, is on the
queue, or was removed by an operator or after seven days in the failed set.
`TogetherOnlyIfLoose`: two slots run one webhook together only if one of them had its
job taken away. `StartsAreBounded`: attempts and stalls together bound the starts of a
job, also when its handler kills the process and no attempt is ever counted.
`ImplementsHandoff` is refinement of `WebhookHandoff`, in which there are no jobs, only
webhooks received, kept, given to a worker, served and dropped: a webhook is forgotten
only when it has been served, and given only to a worker while no other has it. In the
mapping a slot whose job was taken away has been given nothing, though it runs on.
`EveryJobSettles` is liveness: a job comes to rest as completed, failed or removed.

Fairness: workers poll and handlers end (their own awaits are bounded, see
`EveryExecutionEnds`), delayed jobs are moved back, stalled ones found. Nothing is
assumed of the receiver, of crashes or of the scripts.

## ShopifyClient over RateLimiter

`RateLimiter` has one operator per method of the class; `ShopifyClient` says when they
are called, with one action per await of `shopifyGraphQL`, `getAccessToken` and
`withRetry`, for calls made concurrently in one process. The chain of promises in
`acquire` is the sequence `queue`, of which only the first is in `waitForCapacity`.
The code extrapolates the bucket from the last reading and the clock; here `TimePasses`
raises `level`, so `level` is that projection. Costs and levels are small numbers, and
Shopify may answer with any reading and any restore rate of the sets given.

| Code | Model |
|---|---|
| cached token, token request and its own retries | `UseCached`, `AskToken`, `TokenArrives`, `TokenRetry`, `TokenFails`; `Expire` is time |
| `limiter.acquire` | `Join`, `WaitForCapacity`, `Send` (it goes at once, or from its sleep) |
| 401 and `invalidateToken` | `Refused` |
| 429, 5xx, no connection; other statuses, a body that is no JSON | `Transient`; `Fatal` |
| THROTTLED; a body with or without its cost | `Throttled`; `Answered` |
| `finally` with `limiter.release` | `Release`, in each of these |
| `withRetry`, and `mutate` with retry off | `Retry`, `Replayable` |

`release` does not know which call it is for: what it subtracts is the estimate of the
moment, which may be more or less than what its call reserved. `drift` is history: it
remembers whether some release has missed by too much (`over`) or too little (`under`).
The three properties about points say what holds in spite of that, for all costs.
`ReservesWhatIsOut`: the points reserved are no fewer than those of the requests out
unless a release was over, and no more unless one was under. `HeadroomIsNotShared`: a call
is let out only on points that no request out has reserved, until a release was over.
`EveryCallSettles`: every call returns or throws, unless a release was under. Both
conditions are needed: `client_shared` shows what an `over` leads to, `client_leak` what
an `under` does. Neither is rare: the estimate follows the costs observed, and it is
enough that one is recorded while another request is out.

`CountsWhatIsOut`: the limiter counts the requests out, whatever way they end. `SentOnce`:
a mutation that may not be replayed goes out once. `RefusedTokenIsDropped` says that a
retry after a 401 has another token whatever other calls did to the cache meanwhile; it
rests on Shopify never issuing one token twice.

Fairness: the event loop runs continuations, an awaited `fetch` settles, time passes.

## BulkStream

How `sync-products.ts` reads the file that `Catalog` takes whole. `streamLines` keeps a
buffer, reads when it has no newline, and yields line by line; `groupByParent` holds the
product whose variants it is reading; the script collects groups and writes a batch in
two statements. All are generators, so one thing happens at a time, and the
nondeterminism is in the file, in where chunks end, and in what fails. A line is a
product, a variant, blank or junk; its text is two pieces, so a chunk can end inside it,
and a newline is a third kind of piece. A last line need not have its newline.

| Code | Model |
|---|---|
| no url, no body | `Open` |
| `reader.read()` with or without `done`; rejected | `Read`; `Break` |
| the inner loop of `streamLines`, the tail after it, `parseLine` | `TakeLine`, `TakeTail`, `Parse` |
| `groupByParent`: a product, a variant, its two errors, the last group | `StartGroup`, `JoinGroup`, `GiveLast` |
| the loop of the sync over the groups, its last flush | `Give`, `LastFlush` |
| `flush`: upsert of products, then of variants; a throw | `WriteProducts`, `WriteVariants`; `WriteFails` |
| the deletion statements and the end of the run (the subject of `Catalog`) | `Complete` |

`GroupsOf` says what the groups of a file are without buffers or chunks: each product
with the variants between it and the next. Properties. `GivenIsAPrefix`: whatever the
chunks, the script gets a prefix of these groups, and nothing from behind a bad line.
`CompletedIsWhole`: a run that gets to its deletions has written exactly the file; this
is what lets `Catalog` take an export for the catalogue. `VariantsHaveProducts`: at no
moment, so also not when the run stops between two statements, is there a variant
whose product is not there. `EveryImportEnds` is liveness.

Fairness: weak fairness of `Advance`, a read that resolves and a statement that returns.
Nothing is assumed of what breaks.

## BatchScripts

Several runs of the three scripts on one shop, with one action per request of a worker.
Workers share `next`; a worker takes its next index in the same turn of the event loop
in which it records its outcome, so `Claim` is part of `Answer` and `Lose`. The shop is
not in this repository: it carries a write out or refuses it, loses answers, carries a
request out long after its caller has given up (`late`), and finds by tag with an index
that may be older than the tags (`indexed`). A search lists products in the order of
their ids.

| Code | Model |
|---|---|
| `assertScopes`; the `specs` of a generator | `Start` |
| `paginate`: next page, `hasNextPage`, a cursor equal to the one before the last | `FetchPage`, `Turn` |
| a page that fails or does not parse, no location that ships | `FetchFails` |
| tag check of teardown; `LIMIT` | `Kept`; `Chosen` |
| the workers and `Promise.all` | `Begin`, `Claim`, `Finish` |
| `productSet`, `productDelete`, `inventoryActivate`, `inventorySetQuantities` in the shop | `Create`, `Delete`, `Activate`, `Set` |
| `applyPlan`: activations location by location, then the quantities | `Steps`, `Accepted` |
| `mutate` and `withRetry` | `Lose`, `MayRetry` |
| `assertNoUserErrors`, `requireData` | `Refused` |
| `idempotencyKey` | `KeyOf` |
| process death | `Kill`, with any part of what is in flight still arriving |
| merchant, search index | `Untag`, `Reindex` |

A refusal ends the item as failed, except that of an activation: its query asks for no
`userErrors`, its answer may carry a null `inventoryLevel`, and `applyPlan` does not look
at it. So `Refused` may also go on to the item's next request as if the activation had
been done. Whether the shop then accepts quantities for a place that is not active is its
own affair, and left open.

`effects`, `untagged` and `stayed` are history: how often an item's write changed the
shop, which products never had the tag since a run began, and which a search would have
found at any moment since.

Properties. `EffectOnce`: retries and late requests never make one item take effect
twice, for a different reason in each script (never retried; gone; its key is spent).
`OkMeansDone`: an item counted as ok is made, is gone, or has at each place of its plan
a level that some run of populate set: not "this run", because the key names item and
locations but not the quantities, so a second run with others is answered as done.
`SparesUntagged`: whatever the index says. `EachItemOnce`: two workers are never on one
item, and none is left out. `ListedWhatStayed`: deletions between two pages make no
listing skip what is there throughout. `ScriptsEnd` is liveness, also with a shop whose
cursor stands still, which `paginate` notices one page late.

Fairness: weak fairness of what the runs do by themselves (`AdvanceOf`): a request is
answered or given up, and a run goes on. This is assumed, and `ScriptsEnd` claimed, only
of runs that are not `starved`. The scripts mix queries and mutations of different cost
over the limiter of their process, so a call of theirs may wait in it for ever
(`EveryCallSettles` has a condition, and `client_leak` shows why). A starved run may stop
at any request; the other, in a process of its own, must end all the same. Nothing is
assumed of failures, the index, the merchant or late requests.

## Runs

| Run | Instance | Shows |
|---|---|---|
| `order_safety` | one order, two webhooks, two executions, two requests, ERP flaky or lost, one restart, make-unknown in use | types, truth of confirmed rows, evidence first, processed means done, refinement |
| `order_orders` | three orders, one a test order, a webhook each, one execution, one request, ERP in ok, slow and lost modes | test orders stay local, references do not collide, orders do not mix, every execution ends |
| `order_double` | ERP in ok mode, two executions | violation, see below |
| `order_inflight` | ERP in slow mode | violation |
| `catalog_serial` | one product with a variant, two changes, two executions, two runs one after the other | types, real deletions, healing, told once with executions racing on a row, refinement, every run ends |
| `catalog_late` | the same with one execution | violation |
| `client_calls` | a query and a mutation, three attempts with two token requests each, a first estimate of 2, costs 1 and 3 | counting, reservations, headroom, tokens, at most one sending, every call settles, the conditions on releases included |
| `client_shared` | three queries, two attempts, costs 1 and 4 | violation |
| `client_leak` | three queries, costs 1 and 4 | violation |
| `queue_live` | one webhook delivered up to three times, two slots, five attempts, two stalls, one replay, one clearing | no loss, no overlap without a lost lock, bounded starts, refinement, every job settles |
| `bulk_import` | every file of up to five lines over three products, two variants, blank and junk lines, cut into chunks of up to four pieces, batches of two | groups independent of chunks, whole or failed, parents first, an end |
| `batch_scripts` | two runs, a pool of two and one of one, two attempts, pages of one, two products in the shop and up to four in all, one lost answer | effects once, ok means done, untagged spared, items once, listing, an end beside a run that is starved |

Bounds. `MaxChanges`, `MaxRuns`, `MaxAccepts`, `MaxRestarts` and the number of
`Requests` bound counters that have no bound in the code. Two webhooks of one order
and two executions are what every race in the order handler needs; two requests let a
retry meet its predecessor (in `order_orders`, with one, a new POST finds the
connection refused while the earlier one runs); a restart needs one acceptance before
and one after it. In the catalogue, a stamp goes wrong between one run and the next,
so two runs; two changes are an old webhook and a new one, or a product that appears and
is edited. Rows of different products meet in nothing but the list a run works off; one
product has every race between writers, and batches of several are the subject of
`bulk_import` and of the theorems. In the queue the webhooks do not meet
except in the slots and in the list of failed jobs, so one of them, run by two slots,
has every race; attempts and stalls are those of the code. That `queue-monitor.ts` looks
at ten failed jobs only, and what a throw in the middle of its list leaves, needs more
jobs than one and is in the theorems, not in the run. In the client a bucket of four holds one
call of three points and the floor, or one of two and the floor but no second, so one call's
reservation keeps another waiting; costs below and above the first estimate let it rise
and fall between a reservation and its release; three attempts and two token requests (five and
four in the code) leave room for a refusal, a throttle and a last attempt. Five lines
are two groups and a half-read third, with a misplaced or broken line anywhere; a chunk
of four pieces holds a whole line, its newline and the beginning of the next. In the
scripts, pages of one make every listing one of several pages, and two attempts with one
loss are what a retry needs to meet its own earlier request, at once or late. What
may happen besides is fixed by the scene a behaviour plays, each with what its races
need: two teardowns while a product is untagged and one's cursor stalls; a generator beside a
teardown that lists its products; two runs of populate with different plans for one
product, one of them killed; a populate that is killed or starved beside a teardown; two
listings whose cursor never advances. Symmetry is
used only for safety, over executions, requests, slots and, where they are alike,
webhooks and calls. Deadlock is not checked in the catalogue's runs, where nothing
remains to be done when every change is made, every webhook recorded and no run left,
nor for the queue, the client, the download and the scripts, which stop when every
delivery is made, every call has returned and every run has ended. In the order pipeline an idle reconciliation can always begin, so
there deadlock is checked.

Each property of a passing run has a fault in `PROJECT.json`: an operator in the
module marked `FAULT` that changes one action the way a plausible mistake would (a
poll without a timeout, a reference from a counter never advanced, a notification
outside its transaction), under which TLC finds the property violated. Fault
operators are not part of the specification.

## Where code and text disagree

Five runs end in a violation of something a comment, a message or the README says.

- `order_double`, `OneAcceptancePerOrder`: `erp-stub.ts` says a repeated key returns
  the original result. It looks the key up, awaits, and stores: two requests for one
  order that overlap are both accepted.
- `order_inflight`, `ConfirmedFailedIsFinal`: `reconcile-erp.ts` says that after
  `confirmed-failed` the push genuinely failed. The request may still be running in
  the ERP, its caller having timed out, and is accepted afterwards.
- `catalog_late`, `UnstampedWasAbsent`: the README (line 190) and `sync-products.ts:265` say
  a row with an older stamp was not in the snapshot. The worker evaluates `new Date()` as it
  builds its update (`worker.ts:104`). When a sync begins then and its batch gets the row
  first, the update moves the stamp back behind the start of that sync, which takes a
  product of its own snapshot for deleted. One sync is enough. Two that overlap break the
  same sentence without any webhook: the one that started earlier and still writes moves
  stamps back (`SerialRuns = FALSE`; `runStartedAt`, `sync-products.ts:106`). Nothing in
  the code keeps two apart, and `DeletedMeansGone` and `ImplementsMirror` are stated for
  runs that are.
- `client_shared`, `CallersSeeTheirOwnHeadroom`: `rate-limiter.ts:90` says that concurrent
  callers cannot both see the same headroom. `release()` subtracts the present estimate; when
  that has risen since `acquire`, it takes away what other requests still out have reserved.
  Three are out at two points each, one answers that it cost four, a second ends, nothing is
  reserved any more, and its retry goes out on the points of the third.
- `client_leak`, `FullBucketServes`: `rate-limiter.ts` says that `release()` releases the
  reservation. When the estimate has fallen since `acquire`, points stay reserved with nothing in flight, and a call can wait for ever before a
  full bucket.

Others can be read off one line of the code and have no run:

- `reconcile-erp.ts` says an `orphaned-remote` order has no record locally. It reads only
  confirmed and unknown rows, so an order whose row says `attempting` or `failed` gets
  the verdict. The verdict changes no row.
- `queue-clear.ts` announces that it clears completed and failed jobs;
  `obliterate({ force: true })` takes waiting and running ones too. `Clear` does so.
- `generate-products.ts` says to rerun with `START_AT` past the last successful index to
  fill gaps. A gap is an index before it that failed.
- `types.ts` lets an activation be answered with a null level, and `populate-inventory.ts`
  discards the answer: an activation that did not happen passes unnoticed (`Refused`).
- A second run of populate with other quantities is answered as done and changes nothing,
  since the key is the same (`KeyOf`).

## Theorems

Proved for every number of orders, webhooks, executions, requests, products,
variants and runs, and every value of the bounds, from the assumptions named in the
modules (`ASSUME ...Assumption`): finiteness is not among them.

`OrderPushProofs`: `TypeCorrect`, `ConfirmedAlwaysTruthful`, `EvidenceAlwaysFirst`,
`ProcessedAlwaysDone`, `TestOrdersAlwaysLocal`, `ReferencesAlwaysUnique`,
`PipelineImplementsLedger`. The properties are not inductive: `ConfirmedIsTruthful`
survives `RecordConfirmed` only if the reference in an execution's memory is true,
that only if the reference in the answer it reads is, and `Repair` only if the
listing held by the reconciler is. So `IInv` adds: every request is wired to the
execution that waits for it, and is about its order; every reference held anywhere
(row, memory, answer, listing, the ERP's own map) was issued for that order; a
request is only sent with mirror and row on record; an execution at `record` has had
its effect; no reference exceeds the counter that numbered it since the last restart.

`CatalogProofs`: `TypeCorrect`, `NotifiedAlwaysOnce`, `DeletedAlwaysGone` and
`SyncAlwaysHeals` (for `SerialRuns`), `MirrorImplemented` (for `SerialRuns` and the guard on). Why a deletion
is real, as the parts of `IInv`: the running run is the latest (`Alone`); a product
with a row, in a result or in a webhook was once in the shop, so one that appears now
has no row to be judged (`Known`, `Held`); while a run works on a result nobody
replaces the operation (`Exported`), and the result has everything that existed when
it completed and has a row (`Covered`); and whatever the run has written carries its
stamp or is in `late` (`Stamped`, `Progress`): an execution may have built its update at
any time before, so its commit may put any stamp on a row, but one older than the run puts
the row in `late` in the same step. A row the judgement finds unstamped and not late is
therefore not in the result, and what is not in the result is not in the shop.

Healing needs more than deletion does: what the stamps of earlier times can be. No stamp
is later than the start of the next run (`Dated`), so when a run begins every row is
stamped before it. From then on (`Healing`) a row the run has passed shows its result, a
row it has not passed is stamped before it and, once the run has judged, is not shown;
the one exception is a row in `touched`, which a handler wrote meanwhile. Variants keep
the same account without the exception, since no handler writes one. At the end nothing
is left to pass, so every row is as the result has it, and the result is the shop when
the shop has not moved (`Exported`, `Covered`).
TLC checked each part of these invariants on the instances above before it was proved.

The first lemmas of `CatalogProofs` say which actions can change which variables, and
`RunSteps` what a step can make of a run's record; each invariant is then only
checked against the steps that can disturb it.

`WebhookQueueProofs`: `TypeCorrect`, `NothingIsEverLost`, `TogetherAlwaysLoose`,
`StartsAlwaysBounded`, `HandoffImplemented`. No loss needs that what is enqueued but not yet answered is kept
as well, that a completed job has been served, and so has the job of a slot whose
handler returned (`LossInv`). A slot that is not loose holds the lock of an active job
(`LockInv`, with `LockedIsActive`), so two of them cannot have one job. The bound on starts is inductive when
the starts still to come are added (`StartInv`): those made and those that attempts and
stalls leave never exceed the sum of both limits. The refinement puts the first three invariants
together and adds one (`DeliveredInv`): what is on the queue or in a slot was delivered,
and nothing on the queue is counted as discarded. Most steps change no mapped variable
(`HeldFrame` says which ones can change what is kept); the end of an execution takes the
webhook back unless its slot had lost it before.

`ShopifyClientProofs`: `ClientTypeCorrect`, `SentAlwaysOnce`, `RefusedAlwaysDropped`,
`CountAlwaysExact`, `TypeCorrect`, `ReservesAlwaysExact`, `HeadroomNeverShared`. A call that may not be retried has sent nothing before its one
request and cannot come back to before it (`SentInv`). The cache never holds a token that
was refused to anyone, for new tokens are new and a refusal empties the cache, nor does
a call hold one that was refused to it (`TokenInv`). The count is that of a finite set
that each step enlarges or shrinks by one (`CountInv`). The limiter's types need that the
estimate, a rounded mean of a mean and a maximum, is a natural number for any window of
costs. `ReservesAlwaysExact` and `HeadroomNeverShared` assume nothing of the costs.
`ReservesWhatIsOut` is inductive with `CountInv` and the types: a request that goes out
adds the same to the points and to the sum over the requests out (`SumAdds` of
`SumLemmas`); one that ends leaves the sum by what it had reserved, and the points by the
estimate, and if these differ `drift` says in the same step in which direction
(`GivenBack`); every other step keeps the cost of each request that is out (`SumSame`). A
request let out while nothing was over finds the points reserved no fewer than those out,
so what `waitForCapacity` compares with the bucket covers them.

`BulkStreamProofs`: `VariantsAlwaysHaveProducts`, `TypeCorrect`, `GivenAlwaysAPrefix`,
`CompletedAlwaysWhole`, for results of any length cut anywhere. For the first, the group
being read and the groups of the batch hold variants of their own product only
(`GroupInv`), and between the two statements the batch's products are in the table
(`RowsInv`). The others rest on one claim (`ImportInv`): at every moment the run is after
some number n of lines (`After`). Those lines have no error (`Sound`); what was given and
what is being read are the groups of the products among them, each with the variants
that follow it so far (`Reads`); and the text of the lines after them is what the buffer
and the chunks to come hold together (`Left`). Reading a chunk moves text from one to
the other and leaves n alone; cutting a line (`CutLine`, `CutTail`) cuts the text exactly
at the end of line n + 1, since no piece of a line is a newline. So n is whatever the
chunks make it, and yet the groups are those of n lines of the file, a prefix of all
groups (`GivenIsPrefix`), and all of them when nothing is left (`GivenIsWhole`).

`BatchScriptsProofs`: `TypeCorrect`, `EachItemAlwaysOnce`, `EffectAlwaysOnce`,
`OkAlwaysDone`, `UntaggedAlwaysSpared`, `AlwaysListedWhatStayed`, for any number of runs,
workers, products and locations and any scenes. The invariant comes in layers. Control:
a generator never gets past its first attempt (`Single`); a run that still lists has
written and counted nothing (`Quiet`); workers are on indices below `next`, each on its
own (`Apart`); every item has its outcome, is in hand or is still to come (`Accounted`);
a late request is one its script makes, for an item of its list below `next`
(`Requested`). Effects: a product that may still be asked for has not been made and no
request for it is on its way (`Fresh`), and one counted as ok was made (`Made`); what a
teardown deleted is gone, and its id is not given out again (`Gone`); a set that took
effect has spent its key, and a spent key stands for levels that are set (`Stocked`).
Listing: nothing a teardown lists was untagged all along (`Spared`), and what a search
would have found all along is listed or comes after the cursor (`Covered`).

`SumLemmas` and the first lemmas of `BulkStreamProofs` do the inductions these proofs
need. The library's induction theorems take the statement as an operator, which the
provers cannot instantiate; here the statement is a set, of the subsets or numbers for
which it holds, and a set that contains whatever all smaller ones lead to contains
everything (`SubsetInduction`, `UpTo`), for otherwise there is a least counterexample.

Checked by TLC only: the liveness properties (fairness is out of the prover's reach) and
all violations. Every invariant, action property and refinement of the passing runs is
proved.

## Not modelled

- Data no property depends on: prices, quantities, line items, error texts, counts in
  `SyncRun` and `ReconciliationRun`, the `attempt` column, durations.
- `FAIL_AFTER_STEP` as a setting: it throws inside the transaction, which `Abandon`
  does at any time.
- Durations: backoff, lock and token lifetimes and the limiter's sleeps are actions that
  may happen at any time. The signature of a webhook: a wrong one changes nothing.
- Other queues' or clients' use of Shopify's bucket: a reading is any of a set.
- Variants apart from their product in the scripts, quantities, product specs and the
  seeded generators: a plan is the list of locations a run writes. `maxPages` and
  `paginateItems`, which nothing in the repository uses.
- `metafields.ts`, `register-webhooks.ts`: one script each, a few calls in a row, no state
  but Shopify's. That all subscriptions are deleted before one is created is a window in
  which webhooks are missed; nothing in the code relies on there being none, for the
  sync heals what they would have brought (`SyncHeals`).
- `bulk-export.ts` uses the functions `BulkStream` has and prints what it reads.
- A delivery without its webhook id, which `webhook-server.ts:18` would queue under the one
  id `unknown`, so that a second one passes for a duplicate of the first: Shopify always
  sends the header.
- Reports, probes, `config.ts`, `exit.ts`, `errors.ts`, Zod schemas: no state.

## Plan

1. Done: `OrderPush` with `OrderLedger`; `Catalog` with `CatalogMirror`; `WebhookQueue`;
   `ShopifyClient` over `RateLimiter`; the theorems named above. The first two came first
   because they hold the data the project is about.
2. Done: `BulkStream`, the splitter and the grouping against a definition over all short
   files and chunkings; `BatchScripts`, the pools, `paginate` and the idempotent writes,
   with their theorems.
3. Readings against Shopify's own bucket: a level kept by Shopify, charged when a request
   arrives, with answers overtaking one another; how far the projection can be above it,
   and when the floor absorbs that.
4. Done: `WebhookHandoff`, which `WebhookQueue` implements. To do: the slots of `OrderPush`
   and `Catalog` as its workers.
5. `register-webhooks`: what a second run restores after a first that stopped.
6. Done: `SyncHeals`, the limiter's types and its reservations for all costs, the
   groups of a download, the queue's refinement.
