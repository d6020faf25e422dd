------------------------------ MODULE Catalog ------------------------------
(***************************************************************************)
(* The local mirror of the Shopify catalogue and its two writers: the      *)
(* worker's products/update handler (worker.ts handleProductUpdate) and    *)
(* the full sync (sync-products.ts) over Shopify's bulk operations         *)
(* (bulk.ts).                                                              *)
(*                                                                         *)
(* A product's tracked fields (title, handle, status) are abstracted to    *)
(* the number of the change that set them, which is also the webhook that  *)
(* announces them.  A webhook may be delivered any number of times, in any *)
(* order, at any time after its change.                                    *)
(*                                                                         *)
(* Time is only ever compared with the start of a run, so it is counted in *)
(* runs: run r starts at 2r, and whatever is stamped between it and the    *)
(* next start gets 2r + 1.                                                 *)
(*                                                                         *)
(* Postgres runs at READ COMMITTED.  An execution between the first write  *)
(* of its transaction and the commit holds its product's row lock; every   *)
(* other writer of that row waits.  What a statement writes is fixed when  *)
(* it is built, which is before it waits.                                  *)
(***************************************************************************)
EXTENDS Naturals, FiniteSets

CONSTANTS
  Products,      \* products, by gid; a gid is never used again
  Variants,      \* variants, by gid
  ParentOf,      \* the product a variant belongs to
  Slots,         \* concurrent job executions, over all worker processes
  GuardEnabled,  \* IDEMPOTENT # 'off'
  SerialRuns,    \* whether sync-products.ts is run one at a time
  BatchSize,     \* products written by one statement
  MaxChanges,    \* bound: changes made in the shop
  MaxRuns,       \* bound: runs of sync-products.ts
  NoProduct      \* the subject of a change that has not happened

ASSUME ParentAssumption == ParentOf \in [Variants -> Products] /\ NoProduct \notin Products
ASSUME SwitchesAssumption == {GuardEnabled, SerialRuns} \subseteq BOOLEAN
ASSUME LimitsAssumption == MaxChanges \in Nat /\ MaxRuns \in Nat /\ BatchSize \in Nat \ {0}

Changes == 1 .. MaxChanges
Runs    == 1 .. MaxRuns

VARIABLES
  live,       \* Shopify: products that exist
  offered,    \* Shopify: variants that exist
  version,    \* Shopify: the change behind a product's fields, 0 before it exists
  changes,    \* Shopify: changes made so far
  subject,    \* Shopify: the product each change is about
  op,         \* Shopify: the app's current bulk operation
  row,        \* Postgres: Product
  kid,        \* Postgres: Variant
  processed,  \* Postgres: webhooks with a ProcessedEvent row
  notified,   \* Postgres: WarehouseNotification rows written for a webhook
  late,       \* history: rows last written by a webhook whose statement was built
              \* before the latest run began
  pc,         \* where each execution of the handler stands
  hook,       \* the webhook it handles, 0 if none
  stamp,      \* the lastSeenAt it is about to commit
  started,    \* runs started so far
  run,        \* each run's position and what it holds in memory
  touched     \* history: rows a webhook wrote since the run last wrote them

shopVars == <<live, offered, version, changes, subject>>
dbVars   == <<row, kid, processed, notified, late>>
execVars == <<pc, hook, stamp>>
syncVars == <<started, run, touched>>
vars     == <<shopVars, op, dbVars, execVars, syncVars>>

RowStates   == {"absent", "live", "deleted"}
OpStatuses  == {"NONE", "RUNNING", "CANCELING", "CANCELED", "FAILED", "COMPLETED"}
Locations   == {"idle", "read", "noop", "update", "lock", "commit"}
Ended       == {"completed", "stopped"}
RunPlaces   == {"waiting", "check", "cancel", "submit", "poll", "snapshot", "write",
                "variants", "judge_variants", "finish"} \cup Ended

ProductRows == [state : RowStates, version : Nat, seen : Nat]
VariantRows == [state : RowStates, seen : Nat]
Feeds       == [Products -> Nat]
Operations  == [id : Nat, status : OpStatuses, feed : Feeds, kids : SUBSET Variants]
RunRecords  == [pc : RunPlaces, op : Nat, feed : Feeds, kids : SUBSET Variants,
                todo : SUBSET Products, batch : SUBSET Products]

NoFeed == [p \in Products |-> 0]
NoWork == [pc |-> "waiting", op |-> 0, feed |-> NoFeed, kids |-> {}, todo |-> {}, batch |-> {}]

KidsOf(P)  == {v \in Variants : ParentOf[v] \in P}
InFeed(f)  == {p \in Products : f[p] # 0}
ShopFeed   == [p \in Products |-> IF p \in live THEN version[p] ELSE 0]
Running(r) == run[r].pc \notin Ended \cup {"waiting"}
Locked     == {subject[hook[s]] : s \in {e \in Slots : pc[e] = "commit"}}

ShopOK ==
  /\ live \subseteq Products
  /\ offered \subseteq KidsOf(live)
  /\ changes \in 0 .. MaxChanges
  /\ version \in [Products -> 0 .. changes]
  /\ subject \in [Changes -> Products \cup {NoProduct}]
  /\ \A c \in Changes : c <= changes <=> subject[c] \in Products

RowsOK ==
  /\ row \in [Products -> ProductRows]
  /\ kid \in [Variants -> VariantRows]
  /\ processed \subseteq Changes
  /\ notified \in [Changes -> Nat]
  /\ late \subseteq Products

ExecsOK ==
  /\ pc \in [Slots -> Locations]
  /\ hook \in [Slots -> 0 .. changes]
  /\ \A s \in Slots : pc[s] # "idle" => hook[s] # 0
  /\ stamp \in [Slots -> Nat]

RunsOK ==
  /\ started \in 0 .. MaxRuns
  /\ run \in [Runs -> RunRecords]
  /\ \A r \in Runs : r <= started <=> run[r].pc # "waiting"
  /\ touched \in [Runs -> SUBSET Products]

TypeOK == ShopOK /\ op \in Operations /\ RowsOK /\ ExecsOK /\ RunsOK

Init ==
  /\ live = {}
  /\ offered = {}
  /\ version = NoFeed
  /\ changes = 0
  /\ subject = [c \in Changes |-> NoProduct]
  /\ op = [id |-> 0, status |-> "NONE", feed |-> NoFeed, kids |-> {}]
  /\ row = [p \in Products |-> [state |-> "absent", version |-> 0, seen |-> 0]]
  /\ kid = [v \in Variants |-> [state |-> "absent", seen |-> 0]]
  /\ processed = {}
  /\ notified = [c \in Changes |-> 0]
  /\ late = {}
  /\ pc = [s \in Slots |-> "idle"]
  /\ hook = [s \in Slots |-> 0]
  /\ stamp = [s \in Slots |-> 0]
  /\ started = 0
  /\ run = [r \in Runs |-> NoWork]
  /\ touched = [r \in Runs |-> {}]

-----------------------------------------------------------------------------
(* The shop.                                                               *)

Change(p) ==
  /\ changes < MaxChanges
  /\ changes' = changes + 1
  /\ subject' = [subject EXCEPT ![changes'] = p]
  /\ version' = [version EXCEPT ![p] = changes']

\* A product appears, with some of its variants.
Create(p) ==
  /\ version[p] = 0
  /\ Change(p)
  /\ live' = live \cup {p}
  /\ \E K \in SUBSET KidsOf({p}) : offered' = offered \cup K
  /\ UNCHANGED <<op, dbVars, execVars, syncVars>>

\* A product's fields change; some of its variants may go.
Edit(p) ==
  /\ p \in live
  /\ Change(p)
  /\ \E K \in SUBSET (offered \cap KidsOf({p})) : offered' = offered \ K
  /\ UNCHANGED <<live, op, dbVars, execVars, syncVars>>

\* A product goes, with its variants.  No webhook says so.
Delete(p) ==
  /\ p \in live
  /\ live' = live \ {p}
  /\ offered' = offered \ KidsOf({p})
  /\ UNCHANGED <<version, changes, subject, op, dbVars, execVars, syncVars>>

\* Shopify ends the bulk operation it runs; the result is the catalogue.
OpEnds ==
  /\ \/ /\ op.status = "RUNNING"
        /\ op' = [op EXCEPT !.status = "COMPLETED", !.feed = ShopFeed, !.kids = offered]
     \/ op.status = "RUNNING" /\ op' = [op EXCEPT !.status = "FAILED"]
     \/ op.status = "CANCELING" /\ op' = [op EXCEPT !.status = "CANCELED"]
  /\ UNCHANGED <<shopVars, dbVars, execVars, syncVars>>

-----------------------------------------------------------------------------
(* The products/update handler, one action per await.                      *)

At(s, l)   == pc[s] = l
Goto(s, l) == pc' = [pc EXCEPT ![s] = l]

\* The execution returns or throws, and forgets what it held.
Leave(s) ==
  /\ Goto(s, "idle")
  /\ hook' = [hook EXCEPT ![s] = 0]
  /\ stamp' = [stamp EXCEPT ![s] = 0]

\* FAULT: the job's data does not reach the handler.
Start_withoutData(s, w) ==
  /\ At(s, "idle")
  /\ w <= changes
  /\ GuardEnabled => w \notin processed
  /\ Goto(s, "read")
  /\ UNCHANGED <<hook, stamp, shopVars, op, dbVars, syncVars>>

\* A job is picked up and the ProcessedEvent guard read.  An execution that
\* finds the row returns at once and changes nothing.
Start(s, w) ==
  /\ At(s, "idle")
  /\ w <= changes
  /\ GuardEnabled => w \notin processed
  /\ hook' = [hook EXCEPT ![s] = w]
  /\ Goto(s, "read")
  /\ UNCHANGED <<stamp, shopVars, op, dbVars, syncVars>>

\* The row is read and compared with the payload.  An unknown product ends the
\* job without a trace; deletedAt is not among the fields compared.
ReadProduct(s) ==
  /\ At(s, "read")
  /\ LET known == row[subject[hook[s]]]
     IN \/ known.state = "absent" /\ Leave(s)
        \/ /\ known.state # "absent" /\ known.version = hook[s]
           /\ Goto(s, "noop") /\ UNCHANGED <<hook, stamp>>
        \/ /\ known.state # "absent" /\ known.version # hook[s]
           /\ Goto(s, "update") /\ UNCHANGED <<hook, stamp>>
  /\ UNCHANGED <<shopVars, op, dbVars, syncVars>>

\* Nothing to change: the event is recorded.  If it already is, the insert
\* throws, and changes nothing either.
RecordNoop(s) ==
  /\ At(s, "noop")
  /\ processed' = IF GuardEnabled THEN processed \cup {hook[s]} ELSE processed
  /\ Leave(s)
  /\ UNCHANGED <<shopVars, op, row, kid, notified, late, syncVars>>

\* The transaction opens and its first statement is built: new Date() is taken
\* here, in Node, before the statement is sent and waits for the row.
TakeStamp(s) ==
  /\ At(s, "update")
  /\ stamp' = [stamp EXCEPT ![s] = 2 * started + 1]
  /\ Goto(s, "lock")
  /\ UNCHANGED <<hook, shopVars, op, dbVars, syncVars>>

\* The statement has the row, and holds it until the transaction ends.
UpdateRow(s) ==
  /\ At(s, "lock")
  /\ subject[hook[s]] \notin Locked
  /\ Goto(s, "commit")
  /\ UNCHANGED <<hook, stamp, shopVars, op, dbVars, syncVars>>

\* FAULT: the notification is written outside the transaction.
Commit_notifiesFirst(s) ==
  /\ At(s, "commit")
  /\ LET w == hook[s]
         p == subject[w]
     IN /\ notified' = [notified EXCEPT ![w] = @ + 1]
        /\ IF GuardEnabled /\ w \in processed THEN UNCHANGED <<row, processed, late, touched>>
           ELSE /\ row' = [row EXCEPT ![p] = [state |-> "live", version |-> w, seen |-> stamp[s]]]
                /\ processed' = IF GuardEnabled THEN processed \cup {w} ELSE processed
                /\ late' = IF stamp[s] < 2 * started THEN late \cup {p} ELSE late \ {p}
                /\ touched' = [r \in Runs |-> IF Running(r) THEN touched[r] \cup {p} ELSE {}]
  /\ Leave(s)
  /\ UNCHANGED <<shopVars, op, kid, started, run>>

\* FAULT: a row marked deleted is updated and stays marked.
Commit_keepsDeletedAt(s) ==
  /\ At(s, "commit")
  /\ GuardEnabled => hook[s] \notin processed
  /\ LET w == hook[s]
         p == subject[w]
     IN /\ row' = [row EXCEPT ![p] = [@ EXCEPT !.version = w, !.seen = stamp[s]]]
        /\ notified' = [notified EXCEPT ![w] = @ + 1]
        /\ processed' = IF GuardEnabled THEN processed \cup {w} ELSE processed
        /\ late' = IF stamp[s] < 2 * started THEN late \cup {p} ELSE late \ {p}
        /\ touched' = [r \in Runs |-> IF Running(r) THEN touched[r] \cup {p} ELSE {}]
  /\ Leave(s)
  /\ UNCHANGED <<shopVars, op, kid, started, run>>

\* FAULT: lastSeenAt is when the job was queued.
Commit_queuedAt(s) ==
  /\ At(s, "commit")
  /\ GuardEnabled => hook[s] \notin processed
  /\ LET w == hook[s]
         p == subject[w]
     IN /\ row' = [row EXCEPT ![p] = [state |-> "live", version |-> w, seen |-> 1]]
        /\ notified' = [notified EXCEPT ![w] = @ + 1]
        /\ processed' = IF GuardEnabled THEN processed \cup {w} ELSE processed
        /\ late' = IF stamp[s] < 2 * started THEN late \cup {p} ELSE late \ {p}
        /\ touched' = [r \in Runs |-> IF Running(r) THEN touched[r] \cup {p} ELSE {}]
  /\ Leave(s)
  /\ UNCHANGED <<shopVars, op, kid, started, run>>

\* The row, the notification and the processed event are committed together.
Commit(s) ==
  /\ At(s, "commit")
  /\ GuardEnabled => hook[s] \notin processed
  /\ LET w == hook[s]
         p == subject[w]
     IN /\ row' = [row EXCEPT ![p] = [state |-> "live", version |-> w, seen |-> stamp[s]]]
        /\ notified' = [notified EXCEPT ![w] = @ + 1]
        /\ processed' = IF GuardEnabled THEN processed \cup {w} ELSE processed
        /\ late' = IF stamp[s] < 2 * started THEN late \cup {p} ELSE late \ {p}
        /\ touched' = [r \in Runs |-> IF Running(r) THEN touched[r] \cup {p} ELSE {}]
  /\ Leave(s)
  /\ UNCHANGED <<shopVars, op, kid, started, run>>

\* The worker dies, a query throws (FAIL_AFTER_STEP does), or the event's
\* unique key is taken: the transaction, if there is one, is rolled back.
Abandon(s) ==
  /\ ~At(s, "idle")
  /\ Leave(s)
  /\ UNCHANGED <<shopVars, op, dbVars, syncVars>>

-----------------------------------------------------------------------------
(* sync-products.ts, one action per await.                                 *)

RunAt(r, l)   == run[r].pc = l
Become(r, w)  == run' = [run EXCEPT ![r] = w]
RunGoto(r, l) == Become(r, [run[r] EXCEPT !.pc = l])

\* A run's process is gone, and with it what it held.
End(r, l) ==
  /\ Become(r, [NoWork EXCEPT !.pc = l])
  /\ touched' = [touched EXCEPT ![r] = {}]

\* runStartedAt is taken and the SyncRun row created.
Begin(r) ==
  /\ r = started + 1
  /\ SerialRuns => \A q \in Runs : ~Running(q)
  /\ started' = r
  /\ RunGoto(r, "check")
  /\ UNCHANGED <<shopVars, op, dbVars, execVars, touched>>

\* An operation in flight is to be cancelled first.
CheckCurrent(r) ==
  /\ RunAt(r, "check")
  /\ IF op.status = "RUNNING" THEN Become(r, [run[r] EXCEPT !.pc = "cancel", !.op = op.id])
                              ELSE RunGoto(r, "submit")
  /\ UNCHANGED <<shopVars, op, dbVars, execVars, started, touched>>

\* Cancelling the operation that was seen, if it is still the running one.
CancelOp(r) ==
  /\ RunAt(r, "cancel")
  /\ op' = IF op.status = "RUNNING" /\ op.id = run[r].op
             THEN [op EXCEPT !.status = "CANCELING"] ELSE op
  /\ Become(r, [run[r] EXCEPT !.pc = "submit", !.op = 0])
  /\ UNCHANGED <<shopVars, dbVars, execVars, started, touched>>

\* Shopify rejects a second operation while one runs.
SubmitOp(r) ==
  /\ RunAt(r, "submit")
  /\ IF op.status \in {"RUNNING", "CANCELING"}
       THEN End(r, "stopped") /\ UNCHANGED op
       ELSE /\ op' = [id |-> op.id + 1, status |-> "RUNNING", feed |-> NoFeed, kids |-> {}]
            /\ RunGoto(r, "poll") /\ UNCHANGED touched
  /\ UNCHANGED <<shopVars, dbVars, execVars, started>>

\* The current operation is polled, whoever submitted it.  A completed one is
\* taken, unless it matched nothing and has no result url.
PollOp(r) ==
  /\ RunAt(r, "poll")
  /\ op.status \notin {"RUNNING", "CANCELING"}
  /\ IF op.status = "COMPLETED" /\ op.feed # NoFeed
       THEN /\ Become(r, [run[r] EXCEPT !.pc = "snapshot", !.feed = op.feed, !.kids = op.kids])
            /\ UNCHANGED touched
       ELSE End(r, "stopped")
  /\ UNCHANGED <<shopVars, op, dbVars, execVars, started>>

\* FAULT: the poll has no timeout.
PollTimesOut_never(r) == RunAt(r, "poll") /\ FALSE /\ UNCHANGED vars

\* The operation is still running when the poll's fifteen minutes are over.
PollTimesOut(r) ==
  /\ RunAt(r, "poll")
  /\ op.status \in {"RUNNING", "CANCELING"}
  /\ End(r, "stopped")
  /\ UNCHANGED <<shopVars, op, dbVars, execVars, started>>

\* The rows already held are read (their comparison only feeds the counts of
\* the SyncRun row), and the download starts.
ReadSnapshot(r) ==
  /\ RunAt(r, "snapshot")
  /\ Become(r, [run[r] EXCEPT !.pc = "write", !.todo = InFeed(run[r].feed)])
  /\ UNCHANGED <<shopVars, op, dbVars, execVars, started, touched>>

Batches(r) ==
  {B \in SUBSET run[r].todo :
     Cardinality(B) = IF Cardinality(run[r].todo) < BatchSize
                        THEN Cardinality(run[r].todo) ELSE BatchSize}

\* One INSERT ... ON CONFLICT statement writes the batch's products.
FlushProducts(r, B) ==
  /\ RunAt(r, "write")
  /\ run[r].todo # {}
  /\ B \cap Locked = {}
  /\ row' = [p \in Products |->
               IF p \in B
                 THEN [state |-> "live", version |-> run[r].feed[p], seen |-> 2 * r]
                 ELSE row[p]]
  /\ Become(r, [run[r] EXCEPT !.pc = "variants", !.todo = @ \ B, !.batch = B])
  /\ touched' = [touched EXCEPT ![r] = @ \ B]
  /\ late' = late \ B
  /\ UNCHANGED <<shopVars, op, kid, processed, notified, execVars, started>>

\* A second one writes their variants.
FlushVariants(r) ==
  /\ RunAt(r, "variants")
  /\ kid' = [v \in Variants |->
               IF v \in run[r].kids /\ ParentOf[v] \in run[r].batch
                 THEN [state |-> "live", seen |-> 2 * r] ELSE kid[v]]
  /\ Become(r, [run[r] EXCEPT !.pc = "write", !.batch = {}])
  /\ UNCHANGED <<shopVars, op, row, processed, notified, late, execVars, started, touched>>

\* FAULT: rows are compared with the start of the run before.
Unseen_lastRun(r, entry) == entry.state = "live" /\ entry.seen + 2 < 2 * r

\* lastSeenAt < runStartedAt, and not yet marked.
Unseen(r, entry) == entry.state = "live" /\ entry.seen < 2 * r

\* Everything is written: the products this run did not stamp are marked.
JudgeProducts(r) ==
  /\ RunAt(r, "write")
  /\ run[r].todo = {}
  /\ \A p \in Locked : ~Unseen(r, row[p])
  /\ row' = [p \in Products |->
               IF Unseen(r, row[p]) THEN [row[p] EXCEPT !.state = "deleted"] ELSE row[p]]
  /\ RunGoto(r, "judge_variants")
  /\ UNCHANGED <<shopVars, op, kid, processed, notified, late, execVars, started, touched>>

\* A second statement, in no transaction with the first, marks the variants.
JudgeVariants(r) ==
  /\ RunAt(r, "judge_variants")
  /\ kid' = [v \in Variants |->
               IF Unseen(r, kid[v]) THEN [kid[v] EXCEPT !.state = "deleted"] ELSE kid[v]]
  /\ RunGoto(r, "finish")
  /\ UNCHANGED <<shopVars, op, row, processed, notified, late, execVars, started, touched>>

\* The SyncRun row says `completed`.
Finish(r) ==
  /\ RunAt(r, "finish")
  /\ End(r, "completed")
  /\ UNCHANGED <<shopVars, op, dbVars, execVars, started>>

\* A call throws and the SyncRun row says `failed`, or the process dies and it
\* says `running` for ever; nothing reads the row.  What was written stays.
RunStops(r) ==
  /\ Running(r)
  /\ End(r, "stopped")
  /\ UNCHANGED <<shopVars, op, dbVars, execVars, started>>

-----------------------------------------------------------------------------

Shop(p) == Create(p) \/ Edit(p) \/ Delete(p)

\* What an execution does by itself once it has started.
Advance(s) == ReadProduct(s) \/ RecordNoop(s) \/ TakeStamp(s) \/ UpdateRow(s) \/ Commit(s)

Handler(s) == Advance(s) \/ Abandon(s) \/ \E w \in Changes : Start(s, w)

\* What a run does by itself; the two statements that may wait for a row lock.
Proceed(r) ==
  \/ CheckCurrent(r)  \/ CancelOp(r)      \/ SubmitOp(r) \/ PollOp(r) \/ PollTimesOut(r)
  \/ ReadSnapshot(r)  \/ FlushVariants(r) \/ JudgeVariants(r)         \/ Finish(r)
Write(r) == JudgeProducts(r) \/ \E B \in Batches(r) : FlushProducts(r, B)

Sync(r) == Begin(r) \/ Proceed(r) \/ Write(r) \/ RunStops(r)

Next ==
  \/ \E p \in Products : Shop(p)
  \/ OpEnds
  \/ \E s \in Slots : Handler(s)
  \/ \E r \in Runs : Sync(r)

Spec == Init /\ [][Next]_vars

\* A transaction that holds a row commits or is ended by Prisma's timeout; a run
\* is scheduled, and gets a row lock that keeps coming free, because Postgres
\* grants it in turn.  Nothing is assumed of Shopify: an operation may run for ever.
FairSpec ==
  /\ Spec
  /\ \A s \in Slots : WF_vars(At(s, "commit") /\ (Commit(s) \/ Abandon(s)))
  /\ \A r \in Runs : SF_vars(Proceed(r) \/ Write(r))

-----------------------------------------------------------------------------
(* Properties.                                                             *)

\* The handler guard: however often a webhook is delivered, retried or run
\* twice at once, the warehouse is told of it at most once, and whoever told it
\* left the row that stops the next attempt.
NotifiedOnce ==
  GuardEnabled => \A w \in Changes : notified[w] > 0 => notified[w] = 1 /\ w \in processed

\* A row is marked deleted only if the shop no longer has the product or the
\* variant, through failed and crashed runs, cancelled operations and webhooks
\* that arrive in the middle.  The one exception is a row written last by a
\* webhook whose new Date() (worker.ts:104) is older than the run.
DeletedMeansGone ==
  /\ \A p \in Products : row[p].state = "deleted" => p \notin live \/ p \in late
  /\ \A v \in Variants : kid[v].state = "deleted" => v \notin offered

\* A run that gets to its end has healed every row whatever went wrong before
\* it: if the shop is still as it was exported, each product's row agrees with
\* the shop unless a webhook has written it since, and each variant's does.
SyncHeals ==
  \A r \in Runs :
    RunAt(r, "finish") /\ run[r].feed = ShopFeed /\ run[r].kids = offered =>
      /\ \A p \in Products \ touched[r] :
           IF p \in live THEN row[p].state = "live" /\ row[p].version = version[p]
                         ELSE row[p].state # "live"
      /\ \A v \in Variants : v \in offered <=> kid[v].state = "live"

\* What the rows show a reader keeps the promise of the mirror.
Mirror == INSTANCE CatalogMirror WITH
  NoChange <- 0,
  history  <- [p \in Products |-> {c \in Changes : subject[c] = p}],
  shown    <- [p \in Products |-> row[p].version],
  hidden   <- {p \in Products : row[p].state = "deleted"},
  told     <- {c \in Changes : notified[c] > 0}

\* Every step of the shop, the handlers and the runs is a step of the mirror
\* or leaves it alone, if the guard is on and runs do not overlap.
ImplementsMirror == Mirror!Spec

\* Every run ends, even when Shopify never finishes its operation and whatever
\* the handlers lock in the meantime: from some time on none is under way.
EveryRunEnds == <>[](\A r \in Runs : ~Running(r))

-----------------------------------------------------------------------------
(* What the documentation says and the code does not do.                   *)

\* README.md: every row touched by a run is stamped with that run's start
\* time, and anything holding an older timestamp was absent from the snapshot.
UnstampedWasAbsent ==
  \A r \in Runs : RunAt(r, "write") /\ run[r].todo = {} =>
    \A p \in Products : Unseen(r, row[p]) => run[r].feed[p] = 0
=============================================================================
