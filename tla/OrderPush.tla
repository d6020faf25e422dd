----------------------------- MODULE OrderPush -----------------------------
(***************************************************************************)
(* The order pipeline: the worker's order handler (worker.ts handleOrder,  *)
(* order-handler.ts), the Postgres rows it writes, the ERP it pushes to    *)
(* (erp-stub.ts) and the reconciliation script (reconcile-erp.ts).         *)
(*                                                                         *)
(* Every awaited call is a step of its own, so whatever another execution, *)
(* the ERP or the reconciler does between two awaits is a behaviour here.  *)
(* The queue is at-least-once: any free slot may start any order webhook   *)
(* at any time, which covers retries, stalled jobs handed to a second      *)
(* worker while the first still runs, and redelivery by Shopify.           *)
(*                                                                         *)
(* Left out as data: payloads (a malformed one throws before any write),   *)
(* the `attempt` counter, error texts and timestamps of the rows.  The     *)
(* idempotency key is a hash of the order's gid alone, so the ERP's map,   *)
(* which the code keys by it, is indexed by the order.                     *)
(***************************************************************************)
EXTENDS Naturals, FiniteSets

CONSTANTS
  Orders,        \* orders, by gid
  Webhooks,      \* webhook deliveries, by X-Shopify-Webhook-Id
  OrderOf,       \* the order a webhook's payload is about
  TestOrders,    \* the orders placed with a test gateway
  AllowTest,     \* ALLOW_TEST_ORDERS = 'yes'
  GuardEnabled,  \* IDEMPOTENT # 'off'
  Tooling,       \* whether the test script make-unknown.ts is run
  Slots,         \* concurrent job executions, over all worker processes
  Requests,      \* bound: POST /orders requests that are alive at once
  ErpModes,      \* the values ERP_MODE takes when the ERP is started
  MaxAccepts,    \* bound: orders accepted in one life of the ERP
  MaxRestarts,   \* bound: restarts of the ERP
  NoHook,        \* the webhook of an idle slot
  NoOrder,       \* the order of a request record not in use
  Gone           \* the caller of a request nobody waits for any more

ASSUME HooksAssumption == OrderOf \in [Webhooks -> Orders] /\ NoHook \notin Webhooks
ASSUME NamesAssumption == Gone \notin Slots /\ NoOrder \notin Orders
ASSUME TestOrdersAssumption == TestOrders \subseteq Orders
ASSUME FlagsAssumption == {AllowTest, GuardEnabled, Tooling} \subseteq BOOLEAN
ASSUME ModesAssumption == ErpModes \subseteq {"ok", "fail", "flaky", "slow", "lost"}
ASSUME BoundsAssumption == MaxAccepts \in Nat /\ MaxRestarts \in Nat

VARIABLES
  pc,         \* where each execution stands, named after the await it is at
  hook,       \* the webhook each execution handles
  reply,      \* the ERP reference an execution holds and has not recorded
  processed,  \* Postgres: webhooks with a ProcessedEvent row
  mirrored,   \* Postgres: orders with an Order row
  push,       \* Postgres: the ErpPush row of each order
  req,        \* POST /orders requests, from fetch to the answer's arrival
  mode,       \* ERP: its ERP_MODE
  received,   \* ERP: the reference held under each order's key, 0 if none
  sequence,   \* ERP: counter behind the references
  issued,     \* history: every reference the ERP ever created for an order
  restarts,   \* history: restarts of the ERP so far
  rec         \* the reconciliation run: its position, snapshot and verdicts

execVars == <<pc, hook, reply>>
dbVars   == <<processed, mirrored, push>>
erpVars  == <<mode, received, sequence, issued, restarts>>
vars     == <<execVars, dbVars, req, erpVars, rec>>

Locations == {"idle", "mirror", "prior", "intent", "post", "await", "confirm",
              "settle_unknown", "settle_failed", "record"}
Statuses  == {"absent", "attempting", "confirmed", "failed", "unknown"}
Stages    == {"free", "sent", "checked", "created", "duplicate", "refused", "silent"}
Verdicts  == {"none", "agreed", "missing-remote", "resolved-unknown",
              "confirmed-failed", "orphaned-remote", "repaired"}

PushRows       == [status : Statuses, ref : Nat]
RequestRecords == [stage : Stages, order : Orders \cup {NoOrder},
                   caller : Slots \cup {Gone}, ref : Nat]
RunRecords     == [pc : {"idle", "fetched", "classified"},
                   remote : [Orders -> Nat], verdict : [Orders -> Verdicts]]

\* Orders the handler mirrors and never pushes.
Blocked == IF AllowTest THEN {} ELSE TestOrders

NoRow    == [status |-> "absent", ref |-> 0]
NoReq    == [stage |-> "free", order |-> NoOrder, caller |-> Gone, ref |-> 0]
NoRun    == [pc |-> "idle", remote |-> [o \in Orders |-> 0], verdict |-> [o \in Orders |-> "none"]]

OrderAt(s) == OrderOf[hook[s]]

RequestsOK ==
  /\ req \in [Requests -> RequestRecords]
  /\ \A p \in Requests : req[p] = NoReq \/ (req[p].stage # "free" /\ req[p].order \in Orders)

TypeOK ==
  /\ pc \in [Slots -> Locations]
  /\ hook \in [Slots -> Webhooks \cup {NoHook}]
  /\ \A s \in Slots : pc[s] # "idle" => hook[s] \in Webhooks
  /\ reply \in [Slots -> Nat]
  /\ processed \subseteq Webhooks
  /\ mirrored \subseteq Orders
  /\ push \in [Orders -> PushRows]
  /\ RequestsOK
  /\ mode \in ErpModes
  /\ received \in [Orders -> Nat]
  /\ sequence \in Nat
  /\ issued \in [Orders -> SUBSET Nat]
  /\ restarts \in Nat
  /\ rec \in RunRecords

Init ==
  /\ pc = [s \in Slots |-> "idle"]
  /\ hook = [s \in Slots |-> NoHook]
  /\ reply = [s \in Slots |-> 0]
  /\ processed = {}
  /\ mirrored = {}
  /\ push = [o \in Orders |-> NoRow]
  /\ req = [p \in Requests |-> NoReq]
  /\ mode \in ErpModes
  /\ received = [o \in Orders |-> 0]
  /\ sequence = 0
  /\ issued = [o \in Orders |-> {}]
  /\ restarts = 0
  /\ rec = NoRun

-----------------------------------------------------------------------------
(* The order handler, one action per await.                                *)

At(s, l)   == pc[s] = l
Goto(s, l) == pc' = [pc EXCEPT ![s] = l]

\* The execution returns or throws; its slot is free for another job.
Leave(s) ==
  /\ pc' = [pc EXCEPT ![s] = "idle"]
  /\ hook' = [hook EXCEPT ![s] = NoHook]
  /\ reply' = [reply EXCEPT ![s] = 0]

Awaits(s, p) == req[p].caller = s /\ req[p].stage # "free"

\* The caller stops waiting.  What the ERP still works on goes on without it;
\* an answer on its way is lost.
HangUp(s) ==
  req' = [p \in Requests |->
            IF ~Awaits(s, p) THEN req[p]
            ELSE IF req[p].stage \in {"sent", "checked"} THEN [req[p] EXCEPT !.caller = Gone]
            ELSE NoReq]

\* FAULT: the job's data does not reach the handler.
Start_withoutData(s, w) ==
  /\ At(s, "idle")
  /\ GuardEnabled => w \notin processed
  /\ Goto(s, "mirror")
  /\ UNCHANGED <<hook, reply, dbVars, req, erpVars, rec>>

\* A job is picked up and the ProcessedEvent guard read.  An execution that
\* finds the row returns at once and changes nothing.
Start(s, w) ==
  /\ At(s, "idle")
  /\ GuardEnabled => w \notin processed
  /\ Goto(s, "mirror")
  /\ hook' = [hook EXCEPT ![s] = w]
  /\ UNCHANGED <<reply, dbVars, req, erpVars, rec>>

\* FAULT: the test flag of the payload is not looked at.
MirrorOrder_pushesTests(s) ==
  /\ At(s, "mirror")
  /\ mirrored' = mirrored \cup {OrderAt(s)}
  /\ Goto(s, "prior")
  /\ UNCHANGED <<hook, reply, processed, push, req, erpVars, rec>>

\* The transaction that mirrors the order; a blocked test order ends there.
MirrorOrder(s) ==
  /\ At(s, "mirror")
  /\ mirrored' = mirrored \cup {OrderAt(s)}
  /\ Goto(s, IF OrderAt(s) \in Blocked THEN "record" ELSE "prior")
  /\ UNCHANGED <<hook, reply, processed, push, req, erpVars, rec>>

\* priorConfirmed: the guard keyed on the order.
CheckPrior(s) ==
  /\ At(s, "prior")
  /\ Goto(s, IF push[OrderAt(s)].status = "confirmed" THEN "record" ELSE "intent")
  /\ UNCHANGED <<hook, reply, dbVars, req, erpVars, rec>>

\* FAULT: the intent is only recorded together with the outcome.
RecordIntent_afterCall(s) ==
  /\ At(s, "intent")
  /\ Goto(s, "post")
  /\ UNCHANGED <<hook, reply, dbVars, req, erpVars, rec>>

\* Phase 1: the upsert writes `attempting` over whatever the row says, and
\* leaves an earlier reference in it.
RecordIntent(s) ==
  /\ At(s, "intent")
  /\ push' = [push EXCEPT ![OrderAt(s)].status = "attempting"]
  /\ Goto(s, "post")
  /\ UNCHANGED <<hook, reply, processed, mirrored, req, erpVars, rec>>

SendPost(s) ==
  /\ At(s, "post")
  /\ \E p \in Requests :
       /\ req[p].stage = "free"
       /\ req' = [req EXCEPT ![p] = [stage |-> "sent", order |-> OrderAt(s),
                                     caller |-> s, ref |-> 0]]
  /\ Goto(s, "await")
  /\ UNCHANGED <<hook, reply, dbVars, erpVars, rec>>

\* The connection is refused: `fetch failed`, which the code takes as ambiguous.
SendFails(s) ==
  /\ At(s, "post")
  /\ Goto(s, "settle_unknown")
  /\ UNCHANGED <<hook, reply, dbVars, req, erpVars, rec>>

ReceiveReference(s) ==
  /\ At(s, "await")
  /\ \E p \in Requests :
       /\ Awaits(s, p)
       /\ req[p].stage \in {"created", "duplicate"}
       /\ reply' = [reply EXCEPT ![s] = req[p].ref]
       /\ req' = [req EXCEPT ![p] = NoReq]
  /\ Goto(s, "confirm")
  /\ UNCHANGED <<hook, dbVars, erpVars, rec>>

ReceiveRefusal(s) ==
  /\ At(s, "await")
  /\ \E p \in Requests :
       /\ Awaits(s, p)
       /\ req[p].stage = "refused"
       /\ req' = [req EXCEPT ![p] = NoReq]
  /\ Goto(s, "settle_failed")
  /\ UNCHANGED <<hook, reply, dbVars, erpVars, rec>>

\* The answer's body breaks off after its status line: res.json() throws
\* `terminated` or a syntax error, which the code does not take as ambiguous.
ReceiveBroken(s) ==
  /\ At(s, "await")
  /\ \E p \in Requests :
       /\ Awaits(s, p)
       /\ req[p].stage \in {"created", "duplicate"}
  /\ HangUp(s)
  /\ Goto(s, "settle_failed")
  /\ UNCHANGED <<hook, reply, dbVars, erpVars, rec>>

\* FAULT: the fetch has no abort signal, so only an answer ends the wait.
Timeout_never(s) ==
  /\ At(s, "await")
  /\ \E p \in Requests : Awaits(s, p) /\ req[p].stage \in {"created", "duplicate", "refused"}
  /\ HangUp(s)
  /\ Goto(s, "settle_unknown")
  /\ UNCHANGED <<hook, reply, dbVars, erpVars, rec>>

\* AbortSignal.timeout(5000) fires, or the connection breaks.
Timeout(s) ==
  /\ At(s, "await")
  /\ HangUp(s)
  /\ Goto(s, "settle_unknown")
  /\ UNCHANGED <<hook, reply, dbVars, erpVars, rec>>

\* Phase 2: the answer is recorded, by row id, whatever the row says by now.
RecordConfirmed(s) ==
  /\ At(s, "confirm")
  /\ push' = [push EXCEPT ![OrderAt(s)] = [status |-> "confirmed", ref |-> reply[s]]]
  /\ reply' = [reply EXCEPT ![s] = 0]
  /\ Goto(s, "record")
  /\ UNCHANGED <<hook, processed, mirrored, req, erpVars, rec>>

\* That update is inside the try: if it throws, the catch block classifies the
\* database's message as if it were the ERP's.
ConfirmThrows(s) ==
  /\ At(s, "confirm")
  /\ reply' = [reply EXCEPT ![s] = 0]
  /\ \E l \in {"settle_unknown", "settle_failed"} : Goto(s, l)
  /\ UNCHANGED <<hook, dbVars, req, erpVars, rec>>

\* FAULT: the catch block swallows the error, and the worker goes on.
RecordFailure_swallowed(s) ==
  /\ pc[s] \in {"settle_unknown", "settle_failed"}
  /\ push' = [push EXCEPT ![OrderAt(s)].status =
                IF At(s, "settle_unknown") THEN "unknown" ELSE "failed"]
  /\ Goto(s, "record")
  /\ UNCHANGED <<hook, reply, processed, mirrored, req, erpVars, rec>>

\* FAULT: a failed push leaves no row behind.
RecordFailure_deletes(s) ==
  /\ pc[s] \in {"settle_unknown", "settle_failed"}
  /\ push' = [push EXCEPT ![OrderAt(s)] = NoRow]
  /\ Leave(s)
  /\ UNCHANGED <<processed, mirrored, req, erpVars, rec>>

\* The catch block records the outcome and rethrows; the reference stays.
RecordFailure(s) ==
  /\ pc[s] \in {"settle_unknown", "settle_failed"}
  /\ push' = [push EXCEPT ![OrderAt(s)].status =
                IF At(s, "settle_unknown") THEN "unknown" ELSE "failed"]
  /\ Leave(s)
  /\ UNCHANGED <<processed, mirrored, req, erpVars, rec>>

\* Back in the worker: the ProcessedEvent row.  A row another execution wrote
\* meanwhile makes the insert throw, which leaves the same state.
RecordEvent(s) ==
  /\ At(s, "record")
  /\ processed' = IF GuardEnabled THEN processed \cup {hook[s]} ELSE processed
  /\ Leave(s)
  /\ UNCHANGED <<mirrored, push, req, erpVars, rec>>

\* The process dies, or Postgres throws outside the try block.
Abandon(s) ==
  /\ ~At(s, "idle")
  /\ HangUp(s)
  /\ Leave(s)
  /\ UNCHANGED <<dbVars, erpVars, rec>>

-----------------------------------------------------------------------------
(* The ERP.                                                                *)

\* The ERP is done with request p: its answer leaves, if somebody waits for it.
Answer(p, stage, ref) ==
  req' = [req EXCEPT ![p] = IF req[p].caller = Gone THEN NoReq
                            ELSE [req[p] EXCEPT !.stage = stage, !.ref = ref]]

\* FAULT: the key does not depend on the order.
ErpCheck_oneKey(p) ==
  /\ req[p].stage = "sent"
  /\ \/ \E o \in Orders : received[o] # 0 /\ Answer(p, "duplicate", received[o])
     \/ /\ \A o \in Orders : received[o] = 0
        /\ req' = [req EXCEPT ![p].stage = "checked"]
  /\ UNCHANGED <<execVars, dbVars, erpVars, rec>>

\* The handler up to its first await: duplicates are answered before any
\* failure is injected, then fail and flaky refuse, the others wait for the body.
ErpCheck(p) ==
  /\ req[p].stage = "sent"
  /\ \/ /\ received[req[p].order] # 0
        /\ Answer(p, "duplicate", received[req[p].order])
     \/ /\ received[req[p].order] = 0
        /\ mode \in {"fail", "flaky"}
        /\ Answer(p, "refused", 0)
     \/ /\ received[req[p].order] = 0
        /\ mode # "fail"
        /\ req' = [req EXCEPT ![p].stage = "checked"]
  /\ UNCHANGED <<execVars, dbVars, erpVars, rec>>

\* FAULT: the reference is computed from the counter, which is never advanced.
ErpAccept_sameNumber(p) ==
  /\ req[p].stage = "checked"
  /\ sequence < MaxAccepts
  /\ received' = [received EXCEPT ![req[p].order] = sequence + 1]
  /\ issued' = [issued EXCEPT ![req[p].order] = @ \cup {sequence + 1}]
  /\ Answer(p, "created", sequence + 1)
  /\ UNCHANGED <<execVars, dbVars, sequence, mode, restarts, rec>>

\* The handler after its awaits: it creates and stores without looking again.
\* In slow mode it wakes after 10 s, when its caller's 5 s are over; in lost
\* mode the answer never leaves.
ErpAccept(p) ==
  /\ req[p].stage = "checked"
  /\ sequence < MaxAccepts
  /\ mode = "slow" => req[p].caller = Gone
  /\ sequence' = sequence + 1
  /\ received' = [received EXCEPT ![req[p].order] = sequence']
  /\ issued' = [issued EXCEPT ![req[p].order] = @ \cup {sequence'}]
  /\ IF mode = "lost" THEN Answer(p, "silent", 0) ELSE Answer(p, "created", sequence')
  /\ UNCHANGED <<execVars, dbVars, mode, restarts, rec>>

\* A request breaks off on its way to the ERP.
LoseRequest(p) ==
  /\ req[p].stage = "sent"
  /\ Answer(p, "silent", 0)
  /\ UNCHANGED <<execVars, dbVars, erpVars, rec>>

\* The stub keeps everything in memory, so a restart forgets what it accepted,
\* and every open connection breaks.
ErpRestart ==
  /\ restarts < MaxRestarts
  /\ restarts' = restarts + 1
  /\ mode' \in ErpModes
  /\ received' = [o \in Orders |-> 0]
  /\ sequence' = 0
  /\ req' = [p \in Requests |->
               IF req[p].caller = Gone THEN NoReq
               ELSE [req[p] EXCEPT !.stage = "silent", !.ref = 0]]
  /\ UNCHANGED <<execVars, dbVars, issued, rec>>

-----------------------------------------------------------------------------
(* The reconciliation script, and the script that forces a row to unknown. *)

\* The run is created and GET /orders answered.  (A failed GET ends the run
\* with its error recorded: nothing modelled changes.)
FetchRemote ==
  /\ rec.pc = "idle"
  /\ rec' = [NoRun EXCEPT !.pc = "fetched", !.remote = received]
  /\ UNCHANGED <<execVars, dbVars, req, erpVars>>

\* FAULT: the remote side of an unknown row is read the wrong way round.
Verdict_swapped(row, ref) ==
  CASE row.status = "confirmed" /\ ref # 0 -> "agreed"
    [] row.status = "confirmed" /\ ref = 0 -> "missing-remote"
    [] row.status = "unknown" /\ ref = 0 -> "resolved-unknown"
    [] row.status = "unknown" /\ ref # 0 -> "confirmed-failed"
    [] OTHER -> "none"

Verdict(row, ref) ==
  CASE row.status = "confirmed" /\ ref # 0 -> "agreed"
    [] row.status = "confirmed" /\ ref = 0 -> "missing-remote"
    [] row.status = "unknown" /\ ref # 0 -> "resolved-unknown"
    [] row.status = "unknown" /\ ref = 0 -> "confirmed-failed"
    [] row.status \notin {"confirmed", "unknown"} /\ ref # 0 -> "orphaned-remote"
    [] OTHER -> "none"

\* The local rows are read after the remote ones and compared with them.
Classify ==
  /\ rec.pc = "fetched"
  /\ rec' = [rec EXCEPT !.pc = "classified",
                        !.verdict = [o \in Orders |-> Verdict(push[o], rec.remote[o])]]
  /\ UNCHANGED <<execVars, dbVars, req, erpVars>>

\* REPAIR=yes: one update per resolved-unknown row, by key.
Repair(o) ==
  /\ rec.pc = "classified"
  /\ rec.verdict[o] = "resolved-unknown"
  /\ push' = [push EXCEPT ![o] = [status |-> "confirmed", ref |-> rec.remote[o]]]
  /\ rec' = [rec EXCEPT !.verdict[o] = "repaired"]
  /\ UNCHANGED <<execVars, processed, mirrored, req, erpVars>>

\* The run ends: report only, after its repairs, or between two of them.
EndRun ==
  /\ rec.pc # "idle"
  /\ rec' = NoRun
  /\ UNCHANGED <<execVars, dbVars, req, erpVars>>

\* make-unknown.ts, which fabricates an unknown row to try the script on.
ForceUnknown(o) ==
  /\ Tooling
  /\ push[o].status # "absent"
  /\ push' = [push EXCEPT ![o] = [status |-> "unknown", ref |-> 0]]
  /\ UNCHANGED <<execVars, processed, mirrored, req, erpVars, rec>>

-----------------------------------------------------------------------------

\* What an execution does by itself once it has started.
Advance(s) ==
  \/ MirrorOrder(s)     \/ CheckPrior(s)      \/ RecordIntent(s)
  \/ SendPost(s)        \/ SendFails(s)       \/ ReceiveReference(s)
  \/ ReceiveRefusal(s)  \/ ReceiveBroken(s)   \/ Timeout(s)
  \/ RecordConfirmed(s) \/ ConfirmThrows(s)   \/ RecordFailure(s)
  \/ RecordEvent(s)

Erp(p)    == ErpCheck(p) \/ ErpAccept(p) \/ LoseRequest(p)
Script(o) == Repair(o) \/ ForceUnknown(o)

Next ==
  \/ \E s \in Slots : Advance(s) \/ Abandon(s) \/ \E w \in Webhooks : Start(s, w)
  \/ \E p \in Requests : Erp(p)
  \/ ErpRestart
  \/ FetchRemote
  \/ Classify
  \/ EndRun
  \/ \E o \in Orders : Script(o)

Spec == Init /\ [][Next]_vars

\* A started execution is scheduled: Node's event loop runs its continuations,
\* Postgres answers or throws, and the abort timer fires.
FairSpec == Spec /\ \A s \in Slots : WF_vars(Advance(s))

-----------------------------------------------------------------------------
(* Safety.                                                                 *)

\* A row that says `confirmed` carries a reference the ERP really created for
\* that order, whether the execution or the reconciler wrote it.
ConfirmedIsTruthful ==
  \A o \in Orders : push[o].status = "confirmed" => push[o].ref \in issued[o]

\* The intent is recorded before the call: an order the ERP holds, or may still
\* come to hold, has its mirror and its push row, whoever crashed in between.
EvidenceOfPush ==
  /\ \A o \in Orders : issued[o] # {} => push[o].status # "absent" /\ o \in mirrored
  /\ \A p \in Requests : req[p].stage # "free" =>
       push[req[p].order].status # "absent" /\ req[p].order \in mirrored

\* A webhook recorded as processed, which no retry or redelivery will run
\* again, has had its effect: its order was accepted by the ERP, or is a
\* blocked test order and was mirrored.
ProcessedMeansDone ==
  \A w \in processed :
    IF OrderOf[w] \in Blocked THEN OrderOf[w] \in mirrored ELSE issued[OrderOf[w]] # {}

\* Test orders never reach the ERP, not even as a request: a webhook for one
\* ends after the mirror, whatever other executions and scripts do.
TestOrdersStayLocal ==
  \A o \in Blocked : /\ push[o].status = "absent" /\ issued[o] = {}
                     /\ \A p \in Requests : req[p].order # o

\* Two orders the ERP holds never share a reference, so a reference a human
\* looks up belongs to one order.
ReferencesAreUnique ==
  \A o, u \in Orders : received[o] # 0 /\ received[o] = received[u] => o = u

\* Without a timeout "a hung ERP hangs the worker": with it, every execution
\* that starts ends, whether the ERP answers, refuses, is slow or never replies.
EveryExecutionEnds == \A s \in Slots : pc[s] # "idle" ~> pc[s] = "idle"

\* The rows a reader of the database sees keep the promise of the ledger.
Ledger == INSTANCE OrderLedger WITH
  onRecord <- {o \in Orders : push[o].status # "absent"},
  accepted <- {o \in Orders : issued[o] # {}},
  claimed  <- {o \in Orders : push[o].status = "confirmed"},
  settled  <- processed

\* Every step of the pipeline is a step of the ledger or leaves it alone.
ImplementsLedger == Ledger!Spec

-----------------------------------------------------------------------------
(* What the code's comments say and the code does not do.                  *)

\* erp-stub.ts: a repeated key returns the original result rather than
\* creating a second record.
OneAcceptancePerOrder ==
  restarts = 0 => \A o \in Orders : Cardinality(issued[o]) <= 1

\* reconcile-erp.ts: after confirmed-failed the push genuinely failed and can
\* be retried, so no earlier request for the order is still being worked on.
ConfirmedFailedIsFinal ==
  [][\A o \in Orders :
       rec.verdict[o] # "confirmed-failed" /\ rec'.verdict[o] = "confirmed-failed"
         => \A p \in Requests : req[p].stage = "checked" => req[p].order # o]_vars
=============================================================================
