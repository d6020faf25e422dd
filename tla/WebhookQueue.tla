---------------------------- MODULE WebhookQueue ----------------------------
(***************************************************************************)
(* Webhooks from the receiver to the end of their handler: webhook-server  *)
(* enqueues them under their id, worker runs them, queue-monitor replays   *)
(* failed ones, queue-clear removes everything.  The queue between them is *)
(* BullMQ's, configured in queue.ts and worker.ts; its part is modelled    *)
(* from how they use it.                                                   *)
(*                                                                         *)
(* What a handler does is the subject of OrderPush and Catalog; here it    *)
(* returns, throws, or dies with its process.  The order of waiting jobs   *)
(* is left open.                                                           *)
(***************************************************************************)
EXTENDS Naturals, FiniteSets

CONSTANTS
  Ids,            \* webhook ids, which are job ids
  Slots,          \* concurrent job executions, over all worker processes
  MaxAttempts,    \* attempts of a job
  MaxStalled,     \* maxStalledCount
  ReplayBatch,    \* failed jobs queue-monitor lists and replays
  MaxDeliveries,  \* bound: deliveries of one webhook
  MaxReplays,     \* bound: runs of queue-monitor with RETRY=yes
  MaxClears,      \* bound: runs of queue-clear
  NoId,           \* what an idle slot works on
  NoSlot          \* the holder of a lock that nobody renews

ASSUME QueueAssumption == MaxAttempts \in Nat \ {0} /\ MaxStalled \in Nat /\ ReplayBatch \in Nat
ASSUME BoundAssumption == MaxDeliveries \in Nat /\ MaxReplays \in Nat /\ MaxClears \in Nat
ASSUME NobodyAssumption == NoId \notin Ids /\ NoSlot \notin Slots

VARIABLES
  sent,       \* Shopify: deliveries made of each webhook
  answering,  \* receiver: webhooks enqueued, their 200 not yet sent
  acked,      \* webhooks Shopify was answered 200 for
  job,        \* Redis: the job of each id
  busy,       \* worker: the job each slot executes
  phase,      \* worker: how far it is
  todo,       \* queue-monitor: listed jobs it has still to replay
  replays,    \* runs of queue-monitor so far
  clears,     \* runs of queue-clear so far
  served,     \* history: webhooks whose handler has returned
  discarded,  \* history: jobs removed by queue-clear, or failed and expired
  loose       \* history: slots whose job was taken from them while they run

shopVars == <<sent, answering, acked>>
execVars == <<busy, phase, loose>>
toolVars == <<todo, replays, clears>>
vars     == <<shopVars, job, execVars, toolVars, served, discarded>>

JobStates == {"none", "waiting", "active", "delayed", "completed", "failed"}
Jobs      == [state : JobStates, attempts : Nat, stalls : Nat, starts : Nat, lock : Slots \cup {NoSlot}]

NoJob == [state |-> "none", attempts |-> 0, stalls |-> 0, starts |-> 0, lock |-> NoSlot]
Fresh == [NoJob EXCEPT !.state = "waiting"]

Present(id)   == job[id].state # "none"
Failed        == {id \in Ids : job[id].state = "failed"}
Runs(s)       == busy[s] # NoId
HoldsLock(s)  == Runs(s) /\ job[busy[s]].lock = s

TypeOK ==
  /\ sent \in [Ids -> 0 .. MaxDeliveries] /\ answering \subseteq Ids /\ acked \subseteq Ids
  /\ job \in [Ids -> Jobs]
  /\ busy \in [Slots -> Ids \cup {NoId}]
  /\ phase \in [Slots -> {"idle", "running", "returned", "thrown"}]
  /\ \A s \in Slots : Runs(s) <=> phase[s] # "idle"
  /\ todo \subseteq Ids /\ replays \in 0 .. MaxReplays /\ clears \in 0 .. MaxClears
  /\ served \subseteq Ids /\ discarded \subseteq Ids /\ loose \subseteq Slots

Init ==
  /\ sent = [id \in Ids |-> 0] /\ answering = {} /\ acked = {}
  /\ job = [id \in Ids |-> NoJob]
  /\ busy = [s \in Slots |-> NoId] /\ phase = [s \in Slots |-> "idle"]
  /\ todo = {} /\ replays = 0 /\ clears = 0
  /\ served = {} /\ discarded = {} /\ loose = {}

(***************************************************************************)
(* The receiver.                                                           *)
(***************************************************************************)
\* FAULT: jobs are added without the webhook's id as job id.
Enqueue_again(id) ==
  /\ sent[id] < MaxDeliveries /\ id \notin answering
  /\ sent' = [sent EXCEPT ![id] = @ + 1]
  /\ answering' = answering \cup {id}
  /\ job' = [job EXCEPT ![id] = Fresh]
  /\ discarded' = discarded \ {id}
  /\ UNCHANGED <<acked, execVars, toolVars, served>>

\* A delivery whose signature is right is added; an id that is taken is ignored.
Enqueue(id) ==
  /\ sent[id] < MaxDeliveries /\ id \notin answering
  /\ sent' = [sent EXCEPT ![id] = @ + 1]
  /\ answering' = answering \cup {id}
  /\ job' = [job EXCEPT ![id] = IF Present(id) THEN @ ELSE Fresh]
  /\ discarded' = IF Present(id) THEN discarded ELSE discarded \ {id}
  /\ UNCHANGED <<acked, execVars, toolVars, served>>

Acknowledge(id) ==
  /\ id \in answering
  /\ answering' = answering \ {id}
  /\ acked' = acked \cup {id}
  /\ UNCHANGED <<sent, job, execVars, toolVars, served, discarded>>

\* The receiver dies, or its answer is lost; Shopify will deliver again.
LoseAnswer(id) ==
  /\ id \in answering
  /\ answering' = answering \ {id}
  /\ UNCHANGED <<sent, acked, job, execVars, toolVars, served, discarded>>

(***************************************************************************)
(* The worker.                                                             *)
(***************************************************************************)
Take(s, id) ==
  /\ ~Runs(s) /\ job[id].state = "waiting"
  /\ job' = [job EXCEPT ![id] = [@ EXCEPT !.state = "active", !.lock = s, !.starts = job[id].starts + 1]]
  /\ busy' = [busy EXCEPT ![s] = id]
  /\ phase' = [phase EXCEPT ![s] = "running"]
  /\ UNCHANGED <<loose, shopVars, toolVars, served, discarded>>

Return(s) ==
  /\ phase[s] = "running"
  /\ phase' = [phase EXCEPT ![s] = "returned"]
  /\ served' = served \cup {busy[s]}
  /\ UNCHANGED <<busy, loose, shopVars, job, toolVars, discarded>>

\* FAULT: the processor catches what its handler throws.
Throw_swallowed(s) ==
  /\ phase[s] = "running"
  /\ phase' = [phase EXCEPT ![s] = "returned"]
  /\ UNCHANGED <<busy, loose, shopVars, job, toolVars, served, discarded>>

Throw(s) ==
  /\ phase[s] = "running"
  /\ phase' = [phase EXCEPT ![s] = "thrown"]
  /\ UNCHANGED <<busy, loose, shopVars, job, toolVars, served, discarded>>

\* FAULT: the slot is freed, its progress is not reset.
Idle_keepsPhase(s) ==
  /\ busy' = [busy EXCEPT ![s] = NoId]
  /\ loose' = loose \ {s}
  /\ UNCHANGED phase

Idle(s) ==
  /\ busy' = [busy EXCEPT ![s] = NoId]
  /\ phase' = [phase EXCEPT ![s] = "idle"]
  /\ loose' = loose \ {s}

\* The outcome is recorded in Redis, unless the lock is no longer this slot's.
Complete(s) ==
  /\ phase[s] = "returned" /\ Idle(s)
  /\ job' = IF HoldsLock(s)
            THEN [job EXCEPT ![busy[s]] = [@ EXCEPT !.state = "completed", !.lock = NoSlot]]
            ELSE job
  /\ UNCHANGED <<shopVars, toolVars, served, discarded>>

\* FAULT: removeOnFail is true.
Fail_removes(s) ==
  /\ phase[s] = "thrown" /\ Idle(s)
  /\ LET id   == busy[s]
         made == job[id].attempts + 1
     IN job' = IF ~HoldsLock(s) THEN job
               ELSE IF made < MaxAttempts
               THEN [job EXCEPT ![id] = [@ EXCEPT !.attempts = made, !.lock = NoSlot, !.state = "delayed"]]
               ELSE [job EXCEPT ![id] = NoJob]
  /\ UNCHANGED <<shopVars, toolVars, served, discarded>>

Fail(s) ==
  /\ phase[s] = "thrown" /\ Idle(s)
  /\ LET id   == busy[s]
         made == job[id].attempts + 1
     IN job' = IF HoldsLock(s)
               THEN [job EXCEPT ![id] = [@ EXCEPT !.attempts = made, !.lock = NoSlot,
                                             !.state = IF made < MaxAttempts THEN "delayed" ELSE "failed"]]
               ELSE job
  /\ UNCHANGED <<shopVars, toolVars, served, discarded>>

\* The process is killed: the lock stays, with nobody to renew it.
Crash(s) ==
  /\ Runs(s) /\ Idle(s)
  /\ job' = IF HoldsLock(s) THEN [job EXCEPT ![busy[s]].lock = NoSlot] ELSE job
  /\ UNCHANGED <<shopVars, toolVars, served, discarded>>

\* The lock expires under a handler that is still running.
LoseLock(s) ==
  /\ HoldsLock(s)
  /\ job' = [job EXCEPT ![busy[s]].lock = NoSlot]
  /\ loose' = loose \cup {s}
  /\ UNCHANGED <<busy, phase, shopVars, toolVars, served, discarded>>

(***************************************************************************)
(* The queue by itself.                                                    *)
(***************************************************************************)
\* FAULT: nobody moves delayed jobs back.
BackoffEnds_never(id) == job[id].state = "delayed" /\ FALSE /\ UNCHANGED vars

BackoffEnds(id) ==
  /\ job[id].state = "delayed"
  /\ job' = [job EXCEPT ![id].state = "waiting"]
  /\ UNCHANGED <<shopVars, execVars, toolVars, served, discarded>>

\* FAULT: stalls are not counted.
Reclaim_uncounted(id) ==
  /\ job[id].state = "active" /\ job[id].lock = NoSlot
  /\ job' = [job EXCEPT ![id].state = "waiting"]
  /\ UNCHANGED <<shopVars, execVars, toolVars, served, discarded>>

\* An active job without a lock has stalled; it is given up if that was once too often.
Reclaim(id) ==
  /\ job[id].state = "active" /\ job[id].lock = NoSlot
  /\ job' = [job EXCEPT ![id] = [@ EXCEPT !.stalls = job[id].stalls + 1,
                                        !.state = IF job[id].stalls < MaxStalled THEN "waiting" ELSE "failed"]]
  /\ UNCHANGED <<shopVars, execVars, toolVars, served, discarded>>

\* removeOnComplete and removeOnFail.
Expire(id) ==
  /\ job[id].state \in {"completed", "failed"}
  /\ job' = [job EXCEPT ![id] = NoJob]
  /\ discarded' = IF id \in Failed THEN discarded \cup {id} ELSE discarded
  /\ UNCHANGED <<shopVars, execVars, toolVars, served>>

(***************************************************************************)
(* The tools.                                                              *)
(***************************************************************************)
\* queue-monitor lists the first failed jobs, to replay them one by one.
ListFailed ==
  /\ todo = {} /\ replays < MaxReplays
  /\ todo' \in SUBSET Failed
  /\ todo' # {} /\ Cardinality(todo') <= ReplayBatch
  /\ todo' = Failed \/ Cardinality(todo') = ReplayBatch
  /\ replays' = replays + 1
  /\ UNCHANGED <<clears, shopVars, job, execVars, served, discarded>>

\* A job that is not failed any more makes it stop.  Whether a replay also
\* resets the attempts is left open.
Replay(id) ==
  /\ id \in todo
  /\ \/ /\ job[id].state = "failed"
        /\ \E made \in {0, job[id].attempts} :
             job' = [job EXCEPT ![id] = [@ EXCEPT !.state = "waiting", !.starts = 0, !.attempts = made]]
        /\ todo' = todo \ {id}
     \/ /\ job[id].state # "failed"
        /\ todo' = {} /\ UNCHANGED job
  /\ UNCHANGED <<replays, clears, shopVars, execVars, served, discarded>>

\* obliterate with force, whatever runs.
Clear ==
  /\ clears < MaxClears
  /\ clears' = clears + 1
  /\ discarded' = discarded \cup {id \in Ids : Present(id)}
  /\ job' = [id \in Ids |-> NoJob]
  /\ loose' = {s \in Slots : Runs(s)}
  /\ UNCHANGED <<busy, phase, todo, replays, shopVars, served>>

Execute(s) == Return(s) \/ Throw(s) \/ Complete(s) \/ Fail(s) \/ \E id \in Ids : Take(s, id)

Next ==
  \/ \E id \in Ids : \/ Enqueue(id) \/ Acknowledge(id) \/ LoseAnswer(id)
                     \/ BackoffEnds(id) \/ Reclaim(id) \/ Expire(id) \/ Replay(id)
  \/ \E s \in Slots : Execute(s) \/ Crash(s) \/ LoseLock(s)
  \/ ListFailed \/ Clear

Spec == Init /\ [][Next]_vars

\* Workers poll, handlers end, the delay timer and the stall checker run.
FairSpec ==
  /\ Spec
  /\ \A s \in Slots : WF_vars(Execute(s))
  /\ \A id \in Ids : WF_vars(BackoffEnds(id)) /\ WF_vars(Reclaim(id))

(***************************************************************************)
(* Properties.                                                             *)
(***************************************************************************)
\* A webhook answered 200 is not lost: its handler has returned, or its job is
\* in the queue, or an operator or seven days in the failed set removed it
\* (the receiver enqueues before it answers; the worker reports after it ran).
NothingIsLost == \A id \in acked : id \in served \/ Present(id) \/ id \in discarded

\* Two slots run one webhook together only if one of them had its job taken
\* away: its lock expired or the queue was cleared (job ids, and locks).
TogetherOnlyIfLoose ==
  \A s, t \in Slots : s # t /\ Runs(s) /\ busy[s] = busy[t] => s \in loose \/ t \in loose

\* Since it was added or replayed a job is started no more often than its
\* attempts and its stalls allow, however its handler fails or kills the process.
StartsAreBounded == \A id \in Ids : job[id].starts <= MaxAttempts + MaxStalled

\* What is left of a job without its states, its locks and its counts keeps the
\* promise of the handoff.
Received == {id \in Ids : sent[id] > 0}
Held     == {id \in Ids : Present(id)}
GivenTo  == [s \in Slots |-> IF s \in loose THEN NoId ELSE busy[s]]

Handoff == INSTANCE WebhookHandoff WITH
  Webhooks <- Ids, Workers <- Slots, Nothing <- NoId,
  received <- Received, kept <- Held, promised <- acked, dropped <- discarded,
  working  <- GivenTo

\* Every step of the receiver, the queue, the slots and the tools is a step of the
\* handoff or leaves it alone: a job goes only when its webhook has been served or
\* is discarded, and a slot is given a job only when no other has it.
ImplementsHandoff == Handoff!Spec

\* Every job is completed, set aside as failed, or removed.
EveryJobSettles ==
  \A id \in Ids : job[id].state \in {"waiting", "active", "delayed"}
                    ~> job[id].state \in {"none", "completed", "failed"}
=============================================================================
