------------------------ MODULE WebhookQueueProofs ------------------------
(***************************************************************************)
(* Theorems about WebhookQueue, for any number of webhooks, slots,         *)
(* attempts, stalls, deliveries, replays and clearings.                    *)
(***************************************************************************)
EXTENDS WebhookQueue, TLAPS

USE NobodyAssumption

\* The steps of a slot, each under its name.
LEMMA SlotSteps ==
  ASSUME NEW s \in Slots, Execute(s) \/ Crash(s) \/ LoseLock(s)
  PROVE  \/ Return(s) \/ Throw(s) \/ Complete(s) \/ Fail(s) \/ Crash(s) \/ LoseLock(s)
         \/ \E id \in Ids : Take(s, id)
  BY Zenon DEF Execute

\* The steps about one webhook outside its handler.
IdStep(id) == \/ Enqueue(id) \/ Acknowledge(id) \/ LoseAnswer(id)
              \/ BackoffEnds(id) \/ Reclaim(id) \/ Expire(id) \/ Replay(id)

LEMMA NextSteps ==
  ASSUME [Next]_vars
  PROVE  \/ \E id \in Ids : IdStep(id)
         \/ \E s \in Slots : Execute(s) \/ Crash(s) \/ LoseLock(s)
         \/ ListFailed \/ Clear \/ UNCHANGED vars
  BY Zenon DEF Next, IdStep

(***************************************************************************)
(* Types.                                                                  *)
(***************************************************************************)
Phases == {"idle", "running", "returned", "thrown"}

JobTypes  == job \in [Ids -> Jobs]
SlotTypes == /\ busy \in [Slots -> Ids \cup {NoId}] /\ phase \in [Slots -> Phases]
             /\ \A s \in Slots : Runs(s) <=> phase[s] # "idle"
             /\ loose \subseteq Slots
RestTypes == /\ sent \in [Ids -> 0 .. MaxDeliveries] /\ answering \subseteq Ids /\ acked \subseteq Ids
             /\ todo \subseteq Ids /\ replays \in 0 .. MaxReplays /\ clears \in 0 .. MaxClears
             /\ served \subseteq Ids /\ discarded \subseteq Ids

LEMMA TypeParts == TypeOK <=> JobTypes /\ SlotTypes /\ RestTypes
  BY DEF TypeOK, JobTypes, SlotTypes, RestTypes, Phases

LEMMA NoJobType == NoJob \in Jobs /\ Fresh \in Jobs
  BY DEF NoJob, Fresh, Jobs, JobStates

\* The updates the steps make of a job give a job.
LEMMA JobUpdates ==
  ASSUME NEW r \in Jobs, NEW l \in Slots \cup {NoSlot}, NEW n \in Nat, NEW st \in JobStates
  PROVE  /\ [r EXCEPT !.state = "active", !.lock = l, !.starts = n] \in Jobs
         /\ [r EXCEPT !.state = "completed", !.lock = NoSlot] \in Jobs
         /\ [r EXCEPT !.attempts = n, !.lock = NoSlot, !.state = st] \in Jobs
         /\ [r EXCEPT !.stalls = n, !.state = st] \in Jobs
         /\ [r EXCEPT !.state = "waiting", !.starts = 0, !.attempts = n] \in Jobs
  BY DEF Jobs, JobStates

LEMMA Counts ==
  ASSUME JobTypes, NEW id \in Ids
  PROVE  /\ job[id] \in Jobs
         /\ job[id].attempts \in Nat /\ job[id].stalls \in Nat /\ job[id].starts \in Nat
         /\ job[id].state \in JobStates /\ job[id].lock \in Slots \cup {NoSlot}
  BY DEF JobTypes, Jobs

LEMMA SlotJob ==
  ASSUME SlotTypes, NEW s \in Slots, phase[s] # "idle"
  PROVE  busy[s] \in Ids
  BY DEF SlotTypes, Runs

\* What each step that updates several fields of a job makes of it.
LEMMA TakeJob ==
  ASSUME JobTypes, NEW s \in Slots, NEW id \in Ids, Take(s, id)
  PROVE  /\ job' \in [Ids -> Jobs] /\ \A d \in Ids \ {id} : job'[d] = job[d]
         /\ job[id].state = "waiting" /\ job'[id].state = "active" /\ job'[id].lock = s
         /\ job'[id].attempts = job[id].attempts /\ job'[id].stalls = job[id].stalls
         /\ job'[id].starts = job[id].starts + 1
  <1>1. PICK n \in Nat : n = job[id].starts + 1
    BY Counts
  <1>2. PICK j \in Jobs : j = [job[id] EXCEPT !.state = "active", !.lock = s, !.starts = n]
    BY Counts, JobUpdates
  <1>3. /\ j.state = "active" /\ j.lock = s /\ j.starts = n
        /\ j.attempts = job[id].attempts /\ j.stalls = job[id].stalls
    BY <1>2, Counts DEF Jobs
  <1>4. job[id].state = "waiting" /\ job' = [job EXCEPT ![id] = j]
    BY <1>1, <1>2 DEF Take
  <1> QED BY <1>1, <1>3, <1>4 DEF JobTypes

LEMMA CompleteJob ==
  ASSUME JobTypes, SlotTypes, NEW s \in Slots, Complete(s), HoldsLock(s), NEW id \in Ids, id = busy[s]
  PROVE  /\ job' \in [Ids -> Jobs] /\ \A d \in Ids \ {id} : job'[d] = job[d]
         /\ job'[id].state = "completed" /\ job'[id].lock = NoSlot
         /\ job'[id].starts = job[id].starts
  <1>2. PICK j \in Jobs : j = [job[id] EXCEPT !.state = "completed", !.lock = NoSlot]
    BY Counts, JobUpdates
  <1>3. j.state = "completed" /\ j.lock = NoSlot /\ j.starts = job[id].starts
    BY <1>2, Counts DEF Jobs
  <1>4. job' = [job EXCEPT ![id] = j]
    BY <1>2 DEF Complete
  <1> QED BY <1>3, <1>4 DEF JobTypes

LEMMA FailJob ==
  ASSUME JobTypes, SlotTypes, NEW s \in Slots, Fail(s), HoldsLock(s), NEW id \in Ids, id = busy[s]
  PROVE  /\ job' \in [Ids -> Jobs] /\ \A d \in Ids \ {id} : job'[d] = job[d]
         /\ job'[id].lock = NoSlot /\ job'[id].attempts = job[id].attempts + 1
         /\ job'[id].stalls = job[id].stalls /\ job'[id].starts = job[id].starts
         /\ job'[id].state = IF job[id].attempts + 1 < MaxAttempts THEN "delayed" ELSE "failed"
  <1>1. PICK n \in Nat : n = job[id].attempts + 1
    BY Counts
  <1>2. PICK st \in JobStates : st = IF n < MaxAttempts THEN "delayed" ELSE "failed"
    BY DEF JobStates
  <1>3. PICK j \in Jobs : j = [job[id] EXCEPT !.attempts = n, !.lock = NoSlot, !.state = st]
    BY Counts, JobUpdates
  <1>4. /\ j.state = st /\ j.lock = NoSlot /\ j.attempts = n
        /\ j.stalls = job[id].stalls /\ j.starts = job[id].starts
    BY <1>3, Counts DEF Jobs
  <1>5. job' = [job EXCEPT ![id] = j]
    BY <1>1, <1>2, <1>3 DEF Fail
  <1>6. job' \in [Ids -> Jobs] /\ job'[id] = j /\ \A d \in Ids \ {id} : job'[d] = job[d]
    BY <1>5 DEF JobTypes
  <1> QED BY <1>1, <1>2, <1>4, <1>6

LEMMA ReclaimJob ==
  ASSUME JobTypes, NEW id \in Ids, Reclaim(id)
  PROVE  /\ job' \in [Ids -> Jobs] /\ \A d \in Ids \ {id} : job'[d] = job[d]
         /\ job[id].state = "active" /\ job[id].lock = NoSlot /\ job'[id].lock = NoSlot
         /\ job'[id].attempts = job[id].attempts /\ job'[id].stalls = job[id].stalls + 1
         /\ job'[id].starts = job[id].starts
         /\ job'[id].state = IF job[id].stalls < MaxStalled THEN "waiting" ELSE "failed"
  <1>1. PICK n \in Nat : n = job[id].stalls + 1
    BY Counts
  <1>2. PICK st \in JobStates : st = IF job[id].stalls < MaxStalled THEN "waiting" ELSE "failed"
    BY DEF JobStates
  <1>3. PICK j \in Jobs : j = [job[id] EXCEPT !.stalls = n, !.state = st]
    BY Counts, JobUpdates
  <1>4. /\ j.state = st /\ j.lock = job[id].lock /\ j.attempts = job[id].attempts
        /\ j.stalls = n /\ j.starts = job[id].starts
    BY <1>3, Counts DEF Jobs
  <1>5. job[id].state = "active" /\ job[id].lock = NoSlot /\ job' = [job EXCEPT ![id] = j]
    BY <1>1, <1>2, <1>3 DEF Reclaim
  <1>6. job' \in [Ids -> Jobs] /\ job'[id] = j /\ \A d \in Ids \ {id} : job'[d] = job[d]
    BY <1>5 DEF JobTypes
  <1> QED BY <1>1, <1>2, <1>4, <1>5, <1>6

LEMMA ReplayJob ==
  ASSUME JobTypes, NEW id \in Ids, Replay(id), job' # job
  PROVE  /\ job' \in [Ids -> Jobs] /\ \A d \in Ids \ {id} : job'[d] = job[d]
         /\ job[id].state = "failed" /\ job'[id].state = "waiting" /\ job'[id].lock = job[id].lock
         /\ job'[id].attempts \in {0, job[id].attempts} /\ job'[id].stalls = job[id].stalls
         /\ job'[id].starts = 0
  <1>1. job[id].state = "failed" /\ \E made \in {0, job[id].attempts} :
              job' = [job EXCEPT ![id] = [job[id] EXCEPT !.state = "waiting", !.starts = 0, !.attempts = made]]
    BY DEF Replay
  <1>2. PICK n \in Nat : /\ n \in {0, job[id].attempts}
                         /\ job' = [job EXCEPT ![id] = [job[id] EXCEPT !.state = "waiting", !.starts = 0, !.attempts = n]]
    BY <1>1, Counts
  <1>3. PICK j \in Jobs : j = [job[id] EXCEPT !.state = "waiting", !.starts = 0, !.attempts = n]
    BY Counts, JobUpdates
  <1>4. /\ j.state = "waiting" /\ j.lock = job[id].lock /\ j.attempts = n
        /\ j.stalls = job[id].stalls /\ j.starts = 0
    BY <1>3, Counts DEF Jobs
  <1> QED BY <1>1, <1>2, <1>3, <1>4 DEF JobTypes

LEMMA JobTypeStep ==
  ASSUME TypeOK, [Next]_vars
  PROVE  JobTypes'
  <1> USE DEF JobTypes
  <1>0. JobTypes /\ SlotTypes
    BY TypeParts
  <1>1. ASSUME NEW id \in Ids, IdStep(id)
        PROVE  JobTypes'
    <2>1. CASE Enqueue(id)
      BY <1>0, <2>1, NoJobType DEF Enqueue
    <2>2. CASE Acknowledge(id) \/ LoseAnswer(id)
      BY <1>0, <2>2 DEF Acknowledge, LoseAnswer
    <2>3. CASE BackoffEnds(id)
      BY <1>0, <2>3 DEF BackoffEnds, Jobs, JobStates
    <2>4. CASE Reclaim(id)
      BY <1>0, <2>4, ReclaimJob
    <2>5. CASE Expire(id)
      BY <1>0, <2>5, NoJobType DEF Expire
    <2>6. CASE Replay(id)
      <3>1. CASE job' = job
        BY <1>0, <3>1
      <3>2. CASE job' # job
        BY <1>0, <2>6, <3>2, ReplayJob
      <3> QED BY <3>1, <3>2
    <2> QED BY <1>1, <2>1, <2>2, <2>3, <2>4, <2>5, <2>6 DEF IdStep
  <1>2. ASSUME NEW s \in Slots, Execute(s) \/ Crash(s) \/ LoseLock(s)
        PROVE  JobTypes'
    <2>1. CASE Return(s) \/ Throw(s)
      BY <1>0, <2>1 DEF Return, Throw
    <2>2. CASE Complete(s)
      BY <1>0, <2>2, SlotJob, CompleteJob DEF Complete
    <2>3. CASE Fail(s)
      BY <1>0, <2>3, SlotJob, FailJob DEF Fail
    <2>4. CASE Crash(s) \/ LoseLock(s)
      BY <1>0, <2>4 DEF Crash, LoseLock, HoldsLock, Runs, SlotTypes, Jobs, JobStates
    <2>5. ASSUME NEW id \in Ids, Take(s, id)
          PROVE  JobTypes'
      BY <1>0, <2>5, TakeJob
    <2> QED BY <1>2, SlotSteps, <2>1, <2>2, <2>3, <2>4, <2>5
  <1>3. CASE ListFailed \/ UNCHANGED vars
    BY <1>0, <1>3 DEF ListFailed, vars
  <1>4. CASE Clear
    BY <1>4, NoJobType DEF Clear
  <1> QED BY NextSteps, <1>1, <1>2, <1>3, <1>4

LEMMA SlotTypeStep ==
  ASSUME TypeOK, [Next]_vars
  PROVE  SlotTypes'
  <1>0. SlotTypes
    BY TypeParts
  <1>1. ASSUME NEW id \in Ids, IdStep(id)
        PROVE  SlotTypes'
    <2>1. UNCHANGED execVars
      BY <1>1 DEF IdStep, Enqueue, Acknowledge, LoseAnswer, BackoffEnds, Reclaim, Expire, Replay
    <2> QED BY <1>0, <2>1 DEF execVars, SlotTypes, Runs
  <1>2. ASSUME NEW s \in Slots, Execute(s) \/ Crash(s) \/ LoseLock(s)
        PROVE  SlotTypes'
    <2>1. CASE Return(s) \/ Throw(s)
      BY <1>0, <2>1 DEF Return, Throw, SlotTypes, Runs, Phases
    <2>2. CASE Complete(s) \/ Fail(s) \/ Crash(s)
      BY <1>0, <2>2 DEF Complete, Fail, Crash, Idle, SlotTypes, Runs, Phases
    <2>3. CASE LoseLock(s)
      BY <1>0, <2>3 DEF LoseLock, SlotTypes, Runs
    <2>4. ASSUME NEW id \in Ids, Take(s, id)
          PROVE  SlotTypes'
      BY <1>0, <2>4 DEF Take, SlotTypes, Runs, Phases
    <2> QED BY <1>2, SlotSteps, <2>1, <2>2, <2>3, <2>4
  <1>3. CASE ListFailed \/ UNCHANGED vars
    BY <1>0, <1>3 DEF ListFailed, vars, execVars, SlotTypes, Runs
  <1>4. CASE Clear
    BY <1>0, <1>4 DEF Clear, SlotTypes, Runs
  <1> QED BY NextSteps, <1>1, <1>2, <1>3, <1>4

LEMMA RestTypeStep ==
  ASSUME TypeOK, [Next]_vars
  PROVE  RestTypes'
  <1> USE BoundAssumption
  <1>0. RestTypes /\ SlotTypes
    BY TypeParts
  <1>1. ASSUME NEW id \in Ids, IdStep(id)
        PROVE  RestTypes'
    <2>1. CASE Enqueue(id)
      BY <1>0, <2>1 DEF Enqueue, toolVars, RestTypes
    <2>2. CASE Acknowledge(id) \/ LoseAnswer(id)
      BY <1>0, <2>2 DEF Acknowledge, LoseAnswer, toolVars, RestTypes
    <2>3. CASE BackoffEnds(id) \/ Reclaim(id)
      BY <1>0, <2>3 DEF BackoffEnds, Reclaim, shopVars, toolVars, RestTypes
    <2>4. CASE Expire(id)
      BY <1>0, <2>4 DEF Expire, shopVars, toolVars, RestTypes
    <2>5. CASE Replay(id)
      BY <1>0, <2>5 DEF Replay, shopVars, RestTypes
    <2> QED BY <1>1, <2>1, <2>2, <2>3, <2>4, <2>5 DEF IdStep
  <1>2. ASSUME NEW s \in Slots, Execute(s) \/ Crash(s) \/ LoseLock(s)
        PROVE  RestTypes'
    <2>1. CASE Return(s)
      <3>1. busy[s] \in Ids
        BY <1>0, <2>1 DEF Return, SlotTypes, Runs
      <3> QED BY <1>0, <2>1, <3>1 DEF Return, shopVars, toolVars, RestTypes
    <2>2. CASE Throw(s) \/ Complete(s) \/ Fail(s) \/ Crash(s) \/ LoseLock(s)
      BY <1>0, <2>2 DEF Throw, Complete, Fail, Crash, LoseLock, shopVars, toolVars, RestTypes
    <2>3. ASSUME NEW id \in Ids, Take(s, id)
          PROVE  RestTypes'
      BY <1>0, <2>3 DEF Take, shopVars, toolVars, RestTypes
    <2> QED BY <1>2, SlotSteps, <2>1, <2>2, <2>3
  <1>3. CASE UNCHANGED vars
    BY <1>0, <1>3 DEF vars, shopVars, toolVars, RestTypes
  <1>4. CASE ListFailed
    <2>1. todo' \subseteq Ids
      BY <1>4 DEF ListFailed, Failed
    <2> QED BY <1>0, <1>4, <2>1 DEF ListFailed, shopVars, RestTypes
  <1>5. CASE Clear
    BY <1>0, <1>5 DEF Clear, shopVars, RestTypes
  <1> QED BY NextSteps, <1>1, <1>2, <1>3, <1>4, <1>5

\* The types of the queue's variables, from the receiver's to the tools'.
THEOREM TypeCorrect == Spec => []TypeOK
  <1>1. Init => TypeOK
    <2>1. Init => JobTypes
      BY NoJobType DEF Init, JobTypes
    <2>2. Init => SlotTypes
      BY DEF Init, SlotTypes, Runs, Phases
    <2>3. Init => RestTypes
      BY BoundAssumption DEF Init, RestTypes
    <2> QED BY <2>1, <2>2, <2>3, TypeParts
  <1>2. TypeOK /\ [Next]_vars => TypeOK'
    <2>1. JobTypes' /\ SlotTypes' /\ RestTypes' => TypeOK'
      BY DEF TypeOK, JobTypes, SlotTypes, RestTypes, Phases
    <2> QED BY <2>1, JobTypeStep, SlotTypeStep, RestTypeStep
  <1> QED BY <1>1, <1>2, PTL DEF Spec

(***************************************************************************)
(* No webhook answered 200 is lost.  The same is true while its answer is  *)
(* on its way, and a completed job is one whose handler returned.          *)
(***************************************************************************)
Kept(id) == id \in served \/ Present(id) \/ id \in discarded

LossInv ==
  /\ \A id \in acked \cup answering : Kept(id)
  /\ \A id \in Ids : job[id].state = "completed" => id \in served
  /\ \A s \in Slots : phase[s] = "returned" => busy[s] \in served

LEMMA LossStep ==
  ASSUME TypeOK, LossInv, [Next]_vars
  PROVE  LossInv'
  <1>0. JobTypes /\ SlotTypes /\ RestTypes
    BY TypeParts
  <1>1. ASSUME NEW id \in Ids, IdStep(id)
        PROVE  LossInv'
    <2>1. CASE Enqueue(id)
      BY <1>0, <2>1 DEF Enqueue, execVars, LossInv, Kept, Present, Fresh, NoJob, JobTypes, RestTypes
    <2>2. CASE Acknowledge(id) \/ LoseAnswer(id)
      BY <1>0, <2>2 DEF Acknowledge, LoseAnswer, execVars, LossInv, Kept, Present
    <2>3. CASE BackoffEnds(id)
      BY <1>0, <2>3 DEF BackoffEnds, shopVars, execVars, LossInv, Kept, Present, JobTypes, Jobs, RestTypes
    <2>4. CASE Reclaim(id)
      <3>1. /\ \A d \in Ids \ {id} : job'[d] = job[d]
            /\ job'[id].state \in {"waiting", "failed"} /\ job[id].state = "active"
        BY <1>0, <2>4, ReclaimJob
      <3>2. UNCHANGED <<shopVars, execVars, served, discarded>>
        BY <2>4 DEF Reclaim
      <3> QED BY <1>0, <3>1, <3>2 DEF shopVars, execVars, LossInv, Kept, Present, RestTypes
    <2>5. CASE Expire(id)
      BY <1>0, <2>5 DEF Expire, Failed, shopVars, execVars, LossInv, Kept, Present, NoJob, JobTypes, RestTypes
    <2>6. CASE Replay(id)
      <3>1. CASE job' = job
        BY <2>6, <3>1 DEF Replay, shopVars, execVars, LossInv, Kept, Present
      <3>2. CASE job' # job
        BY <1>0, <2>6, <3>2, ReplayJob DEF Replay, shopVars, execVars, LossInv, Kept, Present, RestTypes
      <3> QED BY <3>1, <3>2
    <2> QED BY <1>1, <2>1, <2>2, <2>3, <2>4, <2>5, <2>6 DEF IdStep
  <1>2. ASSUME NEW s \in Slots, Execute(s) \/ Crash(s) \/ LoseLock(s)
        PROVE  LossInv'
    <2>1. CASE Return(s) \/ Throw(s)
      BY <1>0, <2>1 DEF Return, Throw, shopVars, LossInv, Kept, Present, SlotTypes, Phases
    <2>2. CASE Complete(s)
      <3>1. busy[s] \in Ids /\ busy[s] \in served
        BY <1>0, <2>2 DEF Complete, LossInv, SlotTypes, Runs
      <3>2. CASE HoldsLock(s)
        <4>1. /\ \A d \in Ids \ {busy[s]} : job'[d] = job[d]
              /\ job'[busy[s]].state \in {"completed"}
          BY <1>0, <2>2, <3>1, <3>2, CompleteJob
        <4>2. /\ UNCHANGED <<shopVars, served, discarded>>
              /\ busy' = [busy EXCEPT ![s] = NoId] /\ phase' = [phase EXCEPT ![s] = "idle"]
          BY <2>2 DEF Complete, Idle
        <4> QED BY <1>0, <3>1, <4>1, <4>2 DEF shopVars, LossInv, Kept, Present, SlotTypes, RestTypes
      <3>3. CASE ~HoldsLock(s)
        BY <1>0, <2>2, <3>3 DEF Complete, Idle, shopVars, LossInv, Kept, Present, SlotTypes
      <3> QED BY <3>2, <3>3
    <2>3. CASE Fail(s)
      <3>1. busy[s] \in Ids
        BY <1>0, <2>3 DEF Fail, SlotTypes, Runs
      <3>2. CASE HoldsLock(s)
        <4>1. /\ \A d \in Ids \ {busy[s]} : job'[d] = job[d]
              /\ job'[busy[s]].state \in {"delayed", "failed"}
          BY <1>0, <2>3, <3>1, <3>2, FailJob
        <4>2. /\ UNCHANGED <<shopVars, served, discarded>>
              /\ busy' = [busy EXCEPT ![s] = NoId] /\ phase' = [phase EXCEPT ![s] = "idle"]
          BY <2>3 DEF Fail, Idle
        <4> QED BY <1>0, <3>1, <4>1, <4>2 DEF shopVars, LossInv, Kept, Present, SlotTypes, RestTypes
      <3>3. CASE ~HoldsLock(s)
        BY <1>0, <2>3, <3>3 DEF Fail, Idle, shopVars, LossInv, Kept, Present, SlotTypes
      <3> QED BY <3>2, <3>3
    <2>4. CASE Crash(s)
      <3>1. busy[s] \in Ids
        BY <1>0, <2>4 DEF Crash, SlotTypes, Runs
      <3> QED BY <1>0, <2>4, <3>1 DEF Crash, Idle, shopVars, LossInv, Kept, Present, JobTypes, Jobs, SlotTypes, RestTypes
    <2>5. CASE LoseLock(s)
      <3>1. busy[s] \in Ids
        BY <1>0, <2>5 DEF LoseLock, HoldsLock, SlotTypes, Runs
      <3> QED BY <1>0, <2>5, <3>1 DEF LoseLock, shopVars, LossInv, Kept, Present, JobTypes, Jobs, RestTypes
    <2>6. ASSUME NEW id \in Ids, Take(s, id)
          PROVE  LossInv'
      <3>1. /\ \A d \in Ids \ {id} : job'[d] = job[d]
            /\ job'[id].state = "active" /\ job[id].state = "waiting"
        BY <1>0, <2>6, TakeJob
      <3>2. /\ UNCHANGED <<shopVars, served, discarded>>
            /\ busy' = [busy EXCEPT ![s] = id] /\ phase' = [phase EXCEPT ![s] = "running"]
        BY <2>6 DEF Take
      <3> QED BY <1>0, <3>1, <3>2 DEF shopVars, LossInv, Kept, Present, SlotTypes, RestTypes
    <2> QED BY <1>2, SlotSteps, <2>1, <2>2, <2>3, <2>4, <2>5, <2>6
  <1>3. CASE ListFailed \/ UNCHANGED vars
    BY <1>3 DEF ListFailed, vars, shopVars, execVars, LossInv, Kept, Present
  <1>4. CASE Clear
    BY <1>0, <1>4 DEF Clear, shopVars, LossInv, Kept, Present, NoJob, RestTypes
  <1> QED BY NextSteps, <1>1, <1>2, <1>3, <1>4

\* Short of queue-clear.ts and the week a failed job is kept, a webhook the
\* receiver answered 200 is run to the end or still on the queue, whatever
\* crashes, stalls and redeliveries happen.
THEOREM NothingIsEverLost == Spec => []NothingIsLost
  <1>1. Init => LossInv
    BY DEF Init, LossInv, NoJob
  <1>2. TypeOK /\ LossInv /\ [Next]_vars => LossInv'
    BY LossStep
  <1>3. LossInv => NothingIsLost
    BY DEF LossInv, Kept, NothingIsLost
  <1> QED BY <1>1, <1>2, <1>3, TypeCorrect, PTL DEF Spec

(***************************************************************************)
(* A slot whose job was not taken from it holds the lock of an active job. *)
(***************************************************************************)
LockInv ==
  \A s \in Slots : Runs(s) /\ s \notin loose => job[busy[s]].state = "active" /\ job[busy[s]].lock = s

LEMMA LockStep ==
  ASSUME TypeOK, LockInv, [Next]_vars
  PROVE  LockInv'
  <1>0. JobTypes /\ SlotTypes
    BY TypeParts
  <1>1. ASSUME NEW id \in Ids, IdStep(id)
        PROVE  LockInv'
    <2>1. UNCHANGED execVars
      BY <1>1 DEF IdStep, Enqueue, Acknowledge, LoseAnswer, BackoffEnds, Reclaim, Expire, Replay
    <2>2. CASE Enqueue(id) \/ Acknowledge(id) \/ LoseAnswer(id)
      BY <1>0, <2>1, <2>2 DEF Enqueue, Acknowledge, LoseAnswer, execVars, Present, LockInv, Runs, JobTypes, SlotTypes
    <2>3. CASE BackoffEnds(id) \/ Expire(id)
      BY <1>0, <2>1, <2>3 DEF BackoffEnds, Expire, execVars, LockInv, Runs, JobTypes, Jobs, SlotTypes
    <2>4. CASE Reclaim(id)
      BY <1>0, <2>1, <2>4, ReclaimJob DEF execVars, LockInv, Runs, SlotTypes
    <2>5. CASE Replay(id)
      <3>1. CASE job' = job
        BY <2>1, <3>1 DEF execVars, LockInv, Runs
      <3>2. CASE job' # job
        BY <1>0, <2>1, <2>5, <3>2, ReplayJob DEF execVars, LockInv, Runs, SlotTypes
      <3> QED BY <3>1, <3>2
    <2> QED BY <1>1, <2>2, <2>3, <2>4, <2>5 DEF IdStep
  <1>2. ASSUME NEW s \in Slots, Execute(s) \/ Crash(s) \/ LoseLock(s)
        PROVE  LockInv'
    <2>1. CASE Return(s) \/ Throw(s)
      BY <2>1 DEF Return, Throw, LockInv, Runs
    <2>2. CASE Complete(s)
      <3>1. busy[s] \in Ids
        BY <1>0, <2>2, SlotJob DEF Complete
      <3>2. CASE HoldsLock(s)
        <4>1. \A d \in Ids \ {busy[s]} : job'[d] = job[d]
          BY <1>0, <2>2, <3>1, <3>2, CompleteJob
        <4>2. busy' = [busy EXCEPT ![s] = NoId] /\ loose' = loose \ {s}
          BY <2>2 DEF Complete, Idle
        <4>3. ASSUME NEW t \in Slots, Runs(t)', t \notin loose'
              PROVE  job'[busy'[t]].state = "active" /\ job'[busy'[t]].lock = t
          <5>1. t # s /\ busy'[t] = busy[t] /\ Runs(t) /\ t \notin loose
            BY <1>0, <4>2, <4>3 DEF Runs, SlotTypes
          <5>2. job[busy[t]].state = "active" /\ job[busy[t]].lock = t /\ busy[t] \in Ids
            BY <1>0, <5>1 DEF LockInv, SlotTypes, Runs
          <5>3. busy[t] # busy[s]
            BY <3>2, <5>1, <5>2 DEF HoldsLock
          <5> QED BY <4>1, <5>1, <5>2, <5>3
        <4> QED BY <4>3 DEF LockInv
      <3>3. CASE ~HoldsLock(s)
        BY <1>0, <2>2, <3>3 DEF Complete, Idle, LockInv, Runs, SlotTypes
      <3> QED BY <3>2, <3>3
    <2>3. CASE Fail(s)
      <3>1. busy[s] \in Ids
        BY <1>0, <2>3, SlotJob DEF Fail
      <3>2. CASE HoldsLock(s)
        <4>1. \A d \in Ids \ {busy[s]} : job'[d] = job[d]
          BY <1>0, <2>3, <3>1, <3>2, FailJob
        <4>2. busy' = [busy EXCEPT ![s] = NoId] /\ loose' = loose \ {s}
          BY <2>3 DEF Fail, Idle
        <4>3. ASSUME NEW t \in Slots, Runs(t)', t \notin loose'
              PROVE  job'[busy'[t]].state = "active" /\ job'[busy'[t]].lock = t
          <5>1. t # s /\ busy'[t] = busy[t] /\ Runs(t) /\ t \notin loose
            BY <1>0, <4>2, <4>3 DEF Runs, SlotTypes
          <5>2. job[busy[t]].state = "active" /\ job[busy[t]].lock = t /\ busy[t] \in Ids
            BY <1>0, <5>1 DEF LockInv, SlotTypes, Runs
          <5>3. busy[t] # busy[s]
            BY <3>2, <5>1, <5>2 DEF HoldsLock
          <5> QED BY <4>1, <5>1, <5>2, <5>3
        <4> QED BY <4>3 DEF LockInv
      <3>3. CASE ~HoldsLock(s)
        BY <1>0, <2>3, <3>3 DEF Fail, Idle, LockInv, Runs, SlotTypes
      <3> QED BY <3>2, <3>3
    <2>4. CASE Crash(s)
      BY <1>0, <2>4 DEF Crash, Idle, LockInv, HoldsLock, Runs, JobTypes, Jobs, SlotTypes
    <2>5. CASE LoseLock(s)
      BY <1>0, <2>5 DEF LoseLock, LockInv, HoldsLock, Runs, JobTypes, Jobs, SlotTypes
    <2>6. ASSUME NEW id \in Ids, Take(s, id)
          PROVE  LockInv'
      <3>1. /\ \A d \in Ids \ {id} : job'[d] = job[d]
            /\ job'[id].state = "active" /\ job'[id].lock = s /\ job[id].state = "waiting"
        BY <1>0, <2>6, TakeJob
      <3>2. busy' = [busy EXCEPT ![s] = id] /\ UNCHANGED loose /\ ~Runs(s)
        BY <2>6 DEF Take
      <3> QED BY <1>0, <3>1, <3>2 DEF LockInv, Runs, SlotTypes
    <2> QED BY <1>2, SlotSteps, <2>1, <2>2, <2>3, <2>4, <2>5, <2>6
  <1>3. CASE ListFailed \/ UNCHANGED vars
    BY <1>3 DEF ListFailed, vars, execVars, LockInv, Runs
  <1>4. CASE Clear
    BY <1>0, <1>4 DEF Clear, LockInv, Runs
  <1> QED BY NextSteps, <1>1, <1>2, <1>3, <1>4

\* One webhook is never run by two slots that both still own it.
THEOREM TogetherAlwaysLoose == Spec => []TogetherOnlyIfLoose
  <1>1. Init => LockInv
    BY DEF Init, LockInv, Runs
  <1>2. TypeOK /\ LockInv /\ [Next]_vars => LockInv'
    BY LockStep
  <1>3. LockInv => TogetherOnlyIfLoose
    BY DEF LockInv, TogetherOnlyIfLoose, Runs
  <1> QED BY <1>1, <1>2, <1>3, TypeCorrect, PTL DEF Spec

(***************************************************************************)
(* Only an active job has a lock, so what a slot that holds one records is *)
(* the outcome of a job that was active.                                   *)
(***************************************************************************)
LockedIsActive == \A id \in Ids : job[id].lock \in Slots => job[id].state = "active"

LEMMA LockedStep ==
  ASSUME TypeOK, LockedIsActive, [Next]_vars
  PROVE  LockedIsActive'
  <1>0. JobTypes /\ SlotTypes
    BY TypeParts
  <1> USE DEF LockedIsActive
  <1>1. ASSUME NEW id \in Ids, IdStep(id)
        PROVE  LockedIsActive'
    <2>1. CASE Enqueue(id) \/ Acknowledge(id) \/ LoseAnswer(id)
      BY <1>0, <2>1 DEF Enqueue, Acknowledge, LoseAnswer, Fresh, NoJob, JobTypes
    <2>2. CASE BackoffEnds(id) \/ Expire(id)
      BY <1>0, <2>2 DEF BackoffEnds, Expire, NoJob, JobTypes, Jobs
    <2>3. CASE Reclaim(id) \/ Replay(id)
      BY <1>0, <2>3, ReclaimJob, ReplayJob
    <2> QED BY <1>1, <2>1, <2>2, <2>3 DEF IdStep
  <1>2. ASSUME NEW s \in Slots, Execute(s) \/ Crash(s) \/ LoseLock(s)
        PROVE  LockedIsActive'
    <2>1. CASE Return(s) \/ Throw(s)
      BY <2>1 DEF Return, Throw
    <2>2. CASE Complete(s)
      <3>1. busy[s] \in Ids
        BY <1>0, <2>2, SlotJob DEF Complete
      <3>2. CASE HoldsLock(s)
        BY <1>0, <2>2, <3>1, <3>2, CompleteJob
      <3>3. CASE ~HoldsLock(s)
        BY <2>2, <3>3 DEF Complete
      <3> QED BY <3>2, <3>3
    <2>3. CASE Fail(s)
      <3>1. busy[s] \in Ids
        BY <1>0, <2>3, SlotJob DEF Fail
      <3>2. CASE HoldsLock(s)
        BY <1>0, <2>3, <3>1, <3>2, FailJob
      <3>3. CASE ~HoldsLock(s)
        BY <2>3, <3>3 DEF Fail
      <3> QED BY <3>2, <3>3
    <2>4. CASE Crash(s) \/ LoseLock(s)
      BY <1>0, <2>4 DEF Crash, LoseLock, HoldsLock, Runs, JobTypes, Jobs, SlotTypes
    <2>5. ASSUME NEW id \in Ids, Take(s, id)
          PROVE  LockedIsActive'
      BY <1>0, <2>5, TakeJob
    <2> QED BY <1>2, SlotSteps, <2>1, <2>2, <2>3, <2>4, <2>5
  <1>3. CASE ListFailed \/ UNCHANGED vars
    BY <1>3 DEF ListFailed, vars
  <1>4. CASE Clear
    BY <1>4 DEF Clear, NoJob
  <1> QED BY NextSteps, <1>1, <1>2, <1>3, <1>4

(***************************************************************************)
(* Starts.  A job that waits has been started no more often than the       *)
(* attempts and stalls it has used up allow; a replay begins the count     *)
(* again with at least one attempt left, if only the one it is given.      *)
(***************************************************************************)
Remaining(id) ==
  (IF job[id].attempts < MaxAttempts THEN MaxAttempts - job[id].attempts ELSE 1)
    + (IF job[id].stalls < MaxStalled THEN MaxStalled - job[id].stalls ELSE 0)

Started(id) == IF job[id].state \in {"waiting", "delayed"} THEN job[id].starts + Remaining(id)
               ELSE IF job[id].state = "active" THEN job[id].starts + Remaining(id) - 1
               ELSE job[id].starts

StartInv == \A id \in Ids : Started(id) <= MaxAttempts + MaxStalled

\* A step that changes one job is judged by that job alone.
LEMMA OneJob ==
  ASSUME JobTypes, StartInv, NEW id \in Ids,
         \A d \in Ids \ {id} : job'[d] = job[d],
         Started(id)' <= MaxAttempts + MaxStalled
  PROVE  StartInv'
  BY DEF StartInv, Started, Remaining, JobTypes

LEMMA StartStep ==
  ASSUME TypeOK, LockedIsActive, StartInv, [Next]_vars
  PROVE  StartInv'
  <1> USE QueueAssumption
  <1>0. JobTypes /\ JobTypes' /\ SlotTypes
    BY TypeParts, JobTypeStep
  <1>1. ASSUME UNCHANGED job
        PROVE  StartInv'
    BY <1>1 DEF StartInv, Started, Remaining
  <1>2. ASSUME NEW id \in Ids, IdStep(id)
        PROVE  StartInv'
    <2>0. Started(id) <= MaxAttempts + MaxStalled
      BY DEF StartInv
    <2>1. CASE Enqueue(id)
      <3>1. CASE Present(id)
        BY <1>0, <1>1, <2>1, <3>1 DEF Enqueue, JobTypes
      <3>2. CASE ~Present(id)
        <4>1. Started(id)' <= MaxAttempts + MaxStalled /\ \A d \in Ids \ {id} : job'[d] = job[d]
          BY <1>0, <2>1, <3>2 DEF Enqueue, Fresh, NoJob, Started, Remaining, JobTypes
        <4> QED BY <1>0, <4>1, OneJob
      <3> QED BY <3>1, <3>2
    <2>2. CASE Acknowledge(id) \/ LoseAnswer(id)
      BY <1>1, <2>2 DEF Acknowledge, LoseAnswer
    <2>3. CASE BackoffEnds(id)
      <3>1. Started(id)' <= MaxAttempts + MaxStalled /\ \A d \in Ids \ {id} : job'[d] = job[d]
        BY <1>0, <2>0, <2>3 DEF BackoffEnds, Started, Remaining, JobTypes, Jobs
      <3> QED BY <1>0, <3>1, OneJob
    <2>4. CASE Reclaim(id)
      <3>1. Started(id)' <= MaxAttempts + MaxStalled /\ \A d \in Ids \ {id} : job'[d] = job[d]
        <4>1. /\ job[id].attempts \in Nat /\ job[id].stalls \in Nat /\ job[id].starts \in Nat
              /\ job[id].state = "active"
              /\ job'[id].attempts = job[id].attempts /\ job'[id].stalls = job[id].stalls + 1
              /\ job'[id].starts = job[id].starts
              /\ job'[id].state = IF job[id].stalls < MaxStalled THEN "waiting" ELSE "failed"
          BY <1>0, <2>4, ReclaimJob, Counts
        <4>2. Started(id)' <= MaxAttempts + MaxStalled
          BY <2>0, <4>1 DEF Started, Remaining
        <4> QED BY <1>0, <2>4, <4>2, ReclaimJob
      <3> QED BY <1>0, <3>1, OneJob
    <2>5. CASE Expire(id)
      <3>1. Started(id)' <= MaxAttempts + MaxStalled /\ \A d \in Ids \ {id} : job'[d] = job[d]
        BY <1>0, <2>5 DEF Expire, NoJob, Started, JobTypes
      <3> QED BY <1>0, <3>1, OneJob
    <2>6. CASE Replay(id)
      <3>1. CASE job' # job
        <4>1. /\ job[id].attempts \in Nat /\ job[id].stalls \in Nat
              /\ job'[id].attempts \in {0, job[id].attempts} /\ job'[id].stalls = job[id].stalls
              /\ job'[id].starts = 0 /\ job'[id].state = "waiting"
              /\ \A d \in Ids \ {id} : job'[d] = job[d]
          BY <1>0, <2>6, <3>1, ReplayJob, Counts
        <4>2. Started(id)' <= MaxAttempts + MaxStalled
          BY <4>1 DEF Started, Remaining
        <4> QED BY <1>0, <4>1, <4>2, OneJob
      <3> QED BY <1>1, <3>1
    <2> QED BY <1>2, <2>1, <2>2, <2>3, <2>4, <2>5, <2>6 DEF IdStep
  <1>3. ASSUME NEW s \in Slots, Execute(s) \/ Crash(s) \/ LoseLock(s)
        PROVE  StartInv'
    <2>1. CASE Return(s) \/ Throw(s)
      BY <1>1, <2>1 DEF Return, Throw
    <2>2. ASSUME NEW id \in Ids, Take(s, id)
          PROVE  StartInv'
      <3>1. Started(id)' <= MaxAttempts + MaxStalled /\ \A d \in Ids \ {id} : job'[d] = job[d]
        <4>1. /\ job[id].attempts \in Nat /\ job[id].stalls \in Nat /\ job[id].starts \in Nat
              /\ job[id].state = "waiting" /\ job'[id].state = "active"
              /\ job'[id].attempts = job[id].attempts /\ job'[id].stalls = job[id].stalls
              /\ job'[id].starts = job[id].starts + 1
              /\ \A d \in Ids \ {id} : job'[d] = job[d]
          BY <1>0, <2>2, TakeJob, Counts
        <4>2. Started(id) <= MaxAttempts + MaxStalled
          BY DEF StartInv
        <4>3. Started(id)' <= MaxAttempts + MaxStalled
          BY <4>1, <4>2 DEF Started, Remaining
        <4> QED BY <4>1, <4>3
      <3> QED BY <1>0, <3>1, OneJob
    <2>3. CASE ~HoldsLock(s) /\ (Complete(s) \/ Fail(s) \/ Crash(s) \/ LoseLock(s))
      BY <1>1, <2>3 DEF Complete, Fail, Crash, LoseLock
    <2>4. CASE HoldsLock(s) /\ (Complete(s) \/ Fail(s) \/ Crash(s) \/ LoseLock(s))
      <3>1. busy[s] \in Ids
        BY <1>0, <2>4 DEF HoldsLock, Runs, SlotTypes
      <3>2. PICK id \in Ids : id = busy[s]
        BY <3>1
      <3>3. Started(id) <= MaxAttempts + MaxStalled
        BY DEF StartInv
      <3>0. job[id].state = "active"
        BY <1>0, <2>4, <3>2 DEF LockedIsActive, HoldsLock
      <3>4. CASE Complete(s)
        <4>1. Started(id)' <= MaxAttempts + MaxStalled /\ \A d \in Ids \ {id} : job'[d] = job[d]
          <5>1. /\ job'[id].state = "completed" /\ job'[id].starts = job[id].starts
                /\ \A d \in Ids \ {id} : job'[d] = job[d]
            BY <1>0, <2>4, <3>2, <3>4, CompleteJob
          <5>2. Started(id)' = job[id].starts
            BY <5>1 DEF Started
          <5> QED BY <1>0, <3>0, <3>3, <5>1, <5>2, Counts DEF Started, Remaining
        <4> QED BY <1>0, <4>1, OneJob
      <3>5. CASE Fail(s)
        <4>1. job[id].attempts \in Nat /\ job[id].stalls \in Nat /\ job[id].starts \in Nat
          BY <1>0, Counts
        <4>5. /\ job'[id].attempts = job[id].attempts + 1
              /\ job'[id].stalls = job[id].stalls /\ job'[id].starts = job[id].starts
              /\ job'[id].state = IF job[id].attempts + 1 < MaxAttempts THEN "delayed" ELSE "failed"
              /\ \A d \in Ids \ {id} : job'[d] = job[d]
          BY <1>0, <2>4, <3>2, <3>5, FailJob
        <4>6. Started(id)' <= MaxAttempts + MaxStalled
          <5>2. Started(id) = job[id].starts + Remaining(id) - 1
            BY <3>0 DEF Started
          <5>3. CASE job[id].attempts + 1 < MaxAttempts
            <6>1. Remaining(id)' = Remaining(id) - 1
              BY <4>1, <4>5, <5>3 DEF Remaining
            <6>2. Started(id)' = job[id].starts + Remaining(id)'
              BY <4>5, <5>3 DEF Started
            <6>3. Remaining(id) \in Nat
              BY <4>1 DEF Remaining
            <6> QED BY <3>3, <4>1, <5>2, <6>1, <6>2, <6>3
          <5>4. CASE ~(job[id].attempts + 1 < MaxAttempts)
            <6>1. Started(id)' = job[id].starts
              BY <4>5, <5>4 DEF Started
            <6>2. Remaining(id) \in Nat /\ Remaining(id) >= 1
              BY <4>1 DEF Remaining
            <6> QED BY <3>3, <4>1, <5>2, <6>1, <6>2
          <5> QED BY <5>3, <5>4
        <4> QED BY <1>0, <4>5, <4>6, OneJob
      <3>6. CASE Crash(s) \/ LoseLock(s)
        <4>1. Started(id)' <= MaxAttempts + MaxStalled /\ \A d \in Ids \ {id} : job'[d] = job[d]
          BY <1>0, <2>4, <3>0, <3>2, <3>3, <3>6 DEF Crash, LoseLock, Started, Remaining, JobTypes, Jobs, JobStates
        <4> QED BY <1>0, <4>1, OneJob
      <3> QED BY <2>4, <3>4, <3>5, <3>6
    <2> QED BY <1>3, SlotSteps, <2>1, <2>2, <2>3, <2>4
  <1>4. CASE ListFailed \/ UNCHANGED vars
    BY <1>1, <1>4 DEF ListFailed, vars
  <1>5. CASE Clear
    BY <1>5 DEF Clear, NoJob, StartInv, Started
  <1> QED BY NextSteps, <1>2, <1>3, <1>4, <1>5

\* A job that kills its process every time, or fails every time, is not started
\* for ever: attempts and maxStalledCount together bound its starts.
THEOREM StartsAlwaysBounded == Spec => []StartsAreBounded
  <1> USE QueueAssumption
  <1>1. Init => LockedIsActive /\ StartInv
    BY DEF Init, NoJob, LockedIsActive, StartInv, Started
  <1>2. TypeOK /\ LockedIsActive /\ StartInv /\ [Next]_vars => LockedIsActive' /\ StartInv'
    BY LockedStep, StartStep
  <1>3. TypeOK /\ StartInv => StartsAreBounded
    <2> SUFFICES ASSUME TypeOK, StartInv, NEW id \in Ids PROVE job[id].starts <= MaxAttempts + MaxStalled
      BY DEF StartsAreBounded
    <2>1. job[id] \in Jobs /\ Started(id) <= MaxAttempts + MaxStalled
      BY TypeParts DEF JobTypes, StartInv
    <2> QED BY <2>1 DEF Started, Remaining, Jobs
  <1> QED BY <1>1, <1>2, <1>3, TypeCorrect, PTL DEF Spec

(***************************************************************************)
(* The queue implements the handoff.                                       *)
(***************************************************************************)
\* What is on the queue or in a slot was delivered, and what is on the queue is
\* not discarded.
DeliveredInv ==
  /\ \A id \in Ids : Present(id) => sent[id] > 0 /\ id \notin discarded
  /\ \A s \in Slots : Runs(s) => sent[busy[s]] > 0

\* Only a delivery, retention and clearing put jobs on the queue or take them off.
LEMMA HeldFrame ==
  ASSUME TypeOK, LockedIsActive, [Next]_vars
  PROVE  Held' = Held \/ (\E id \in Ids : Enqueue(id) \/ Expire(id)) \/ Clear
  <1>0. JobTypes /\ SlotTypes
    BY TypeParts
  <1> DEFINE Same == \A d \in Ids : job'[d].state = job[d].state \/ (Present(d) /\ Present(d)')
  <1>a. ASSUME Same PROVE Held' = Held
    BY <1>a DEF Held, Present
  <1>1. ASSUME NEW id \in Ids, IdStep(id), ~Enqueue(id), ~Expire(id)
        PROVE  Same
    <2>1. CASE Acknowledge(id) \/ LoseAnswer(id)
      BY <2>1 DEF Acknowledge, LoseAnswer
    <2>2. CASE BackoffEnds(id)
      BY <1>0, <2>2 DEF BackoffEnds, Present, JobTypes, Jobs
    <2>3. CASE Reclaim(id)
      BY <1>0, <2>3, ReclaimJob DEF Present
    <2>4. CASE Replay(id)
      <3>1. CASE job' = job
        BY <3>1
      <3>2. CASE job' # job
        BY <1>0, <2>4, <3>2, ReplayJob DEF Present
      <3> QED BY <3>1, <3>2
    <2> QED BY <1>1, <2>1, <2>2, <2>3, <2>4 DEF IdStep
  <1>2. ASSUME NEW s \in Slots, Execute(s) \/ Crash(s) \/ LoseLock(s)
        PROVE  Same
    <2>1. CASE Return(s) \/ Throw(s)
      BY <2>1 DEF Return, Throw
    <2>2. ASSUME NEW id \in Ids, Take(s, id)
          PROVE  Same
      BY <1>0, <2>2, TakeJob DEF Present
    <2>3. CASE ~HoldsLock(s) /\ (Complete(s) \/ Fail(s) \/ Crash(s) \/ LoseLock(s))
      BY <2>3 DEF Complete, Fail, Crash, LoseLock
    <2>4. CASE HoldsLock(s) /\ (Complete(s) \/ Fail(s) \/ Crash(s) \/ LoseLock(s))
      <3>1. PICK id \in Ids : id = busy[s]
        BY <1>0, <2>4 DEF HoldsLock, Runs, SlotTypes
      <3>2. job[id].state = "active"
        BY <2>4, <3>1 DEF LockedIsActive, HoldsLock
      <3>3. CASE Complete(s)
        BY <1>0, <2>4, <3>1, <3>2, <3>3, CompleteJob DEF Present
      <3>4. CASE Fail(s)
        BY <1>0, <2>4, <3>1, <3>2, <3>4, FailJob DEF Present
      <3>5. CASE Crash(s) \/ LoseLock(s)
        BY <1>0, <2>4, <3>1, <3>5 DEF Crash, LoseLock, JobTypes, Jobs
      <3> QED BY <2>4, <3>3, <3>4, <3>5
    <2> QED BY <1>2, SlotSteps, <2>1, <2>2, <2>3, <2>4
  <1>3. ASSUME ListFailed \/ UNCHANGED vars
        PROVE  Same
    BY <1>3 DEF ListFailed, vars
  <1> QED BY NextSteps, <1>a, <1>1, <1>2, <1>3

\* What goes to the discarded leaves the queue, and a slot takes only what is there.
LEMMA DeliveredStep ==
  ASSUME TypeOK, LockedIsActive, DeliveredInv, [Next]_vars
  PROVE  DeliveredInv'
  <1>0. JobTypes /\ SlotTypes /\ RestTypes
    BY TypeParts
  <1>1. ASSUME NEW id \in Ids, Enqueue(id)
        PROVE  DeliveredInv'
    BY <1>0, <1>1, BoundAssumption DEF Enqueue, execVars, DeliveredInv, Present, Fresh, NoJob, Runs, JobTypes, SlotTypes, RestTypes
  <1>2. ASSUME NEW id \in Ids, Expire(id)
        PROVE  DeliveredInv'
    BY <1>0, <1>2 DEF Expire, Failed, shopVars, execVars, DeliveredInv, Present, NoJob, Runs, JobTypes
  <1>3. CASE Clear
    BY <1>3 DEF Clear, shopVars, DeliveredInv, Present, NoJob, Runs
  <1>4. ASSUME Held' = Held, UNCHANGED <<sent, discarded>>,
               \A s \in Slots : Runs(s)' => (Runs(s) /\ busy'[s] = busy[s]) \/ busy'[s] \in Held
        PROVE  DeliveredInv'
    BY <1>4 DEF DeliveredInv, Held
  <1>5. ASSUME NEW id \in Ids, IdStep(id), ~Enqueue(id), ~Expire(id)
        PROVE  UNCHANGED <<sent, discarded, busy>>
    BY <1>5 DEF IdStep, Acknowledge, LoseAnswer, BackoffEnds, Reclaim, Replay, shopVars, execVars
  <1>6. ASSUME NEW s \in Slots, Execute(s) \/ Crash(s) \/ LoseLock(s)
        PROVE  /\ UNCHANGED <<sent, discarded>>
               /\ \A t \in Slots : Runs(t)' => (Runs(t) /\ busy'[t] = busy[t]) \/ busy'[t] \in Held
    <2>1. CASE Return(s) \/ Throw(s) \/ LoseLock(s)
      BY <2>1 DEF Return, Throw, LoseLock, shopVars, Runs
    <2>2. CASE Complete(s) \/ Fail(s) \/ Crash(s)
      BY <1>0, <2>2 DEF Complete, Fail, Crash, Idle, shopVars, Runs, SlotTypes
    <2>3. ASSUME NEW id \in Ids, Take(s, id)
          PROVE  /\ UNCHANGED <<sent, discarded>>
                 /\ \A t \in Slots : Runs(t)' => (Runs(t) /\ busy'[t] = busy[t]) \/ busy'[t] \in Held
      BY <1>0, <2>3 DEF Take, shopVars, Runs, SlotTypes, Held, Present
    <2> QED BY <1>6, SlotSteps, <2>1, <2>2, <2>3
  <1>7. CASE ListFailed \/ UNCHANGED vars
    <2>1. UNCHANGED <<sent, discarded, busy>>
      BY <1>7 DEF ListFailed, vars, shopVars, execVars
    <2> QED BY <1>1, <1>2, <1>3, <1>4, <2>1, HeldFrame DEF Runs
  <1>8. ASSUME NEW id \in Ids, IdStep(id), ~Enqueue(id), ~Expire(id)
        PROVE  DeliveredInv'
    BY <1>1, <1>2, <1>3, <1>4, <1>5, <1>8, HeldFrame DEF Runs
  <1>9. ASSUME NEW s \in Slots, Execute(s) \/ Crash(s) \/ LoseLock(s)
        PROVE  DeliveredInv'
    BY <1>1, <1>2, <1>3, <1>4, <1>6, <1>9, HeldFrame
  <1> QED BY NextSteps, <1>1, <1>2, <1>3, <1>7, <1>8, <1>9

HandoffInv == TypeOK /\ LossInv /\ LockInv /\ LockedIsActive /\ DeliveredInv

\* Slots that have been given nothing, and those that have.
LEMMA Given ==
  ASSUME HandoffInv
  PROVE  /\ \A s \in Slots : GivenTo[s] = IF s \in loose THEN NoId ELSE busy[s]
         /\ \A s \in Slots : GivenTo[s] # NoId =>
              /\ Runs(s) /\ s \notin loose /\ GivenTo[s] = busy[s] /\ busy[s] \in Held
              /\ job[busy[s]].state = "active" /\ job[busy[s]].lock = s
  <1>1. SlotTypes /\ LockInv
    BY TypeParts DEF HandoffInv
  <1> QED BY <1>1 DEF GivenTo, LockInv, Runs, Held, Present, SlotTypes

\* A slot that is free again, or that has lost its job, has been given nothing.
LEMMA TakenBack ==
  ASSUME HandoffInv, NEW s \in Slots, UNCHANGED <<Received, Held, acked, served, discarded>>,
         \A t \in Slots \ {s} : busy'[t] = busy[t] /\ (t \in loose' <=> t \in loose),
         busy'[s] = NoId \/ s \in loose'
  PROVE  [Handoff!Next]_(Handoff!vars)
  <1>1. GivenTo' = [GivenTo EXCEPT ![s] = NoId]
    BY DEF GivenTo
  <1>2. CASE GivenTo[s] = NoId
    <2>1. GivenTo' = GivenTo
      BY <1>1, <1>2 DEF GivenTo
    <2> QED BY <2>1 DEF Handoff!vars
  <1>3. CASE GivenTo[s] # NoId
    <2>1. Handoff!TakeBack(s)
      BY <1>1, <1>3 DEF Handoff!TakeBack
    <2> QED BY <2>1 DEF Handoff!Next
  <1> QED BY <1>2, <1>3

\* A step of the queue is a step of the handoff, or changes nothing of it.
LEMMA HandoffStep ==
  ASSUME HandoffInv, [Next]_vars
  PROVE  [Handoff!Next]_(Handoff!vars)
  <1>0. JobTypes /\ SlotTypes /\ RestTypes /\ LossInv /\ LockInv /\ LockedIsActive /\ DeliveredInv /\ TypeOK
    BY TypeParts DEF HandoffInv
  <1>a. ASSUME UNCHANGED <<sent, acked, served, discarded, busy, loose>>, Held' = Held
        PROVE  UNCHANGED Handoff!vars
    BY <1>a DEF Handoff!vars, Received, GivenTo
  <1>b. ASSUME UNCHANGED sent PROVE Received' = Received
    BY <1>b DEF Received
  <1>1. ASSUME NEW id \in Ids, Enqueue(id)
        PROVE  Handoff!Receive(id)
    <2>1. /\ sent' = [sent EXCEPT ![id] = @ + 1] /\ UNCHANGED <<acked, served, busy, loose>>
          /\ job' = [job EXCEPT ![id] = IF Present(id) THEN @ ELSE Fresh]
          /\ discarded' = IF Present(id) THEN discarded ELSE discarded \ {id}
      BY <1>1 DEF Enqueue, execVars
    <2>2. Received' = Received \cup {id}
      BY <1>0, <2>1 DEF Received, RestTypes
    <2>3. Held' = Held \cup {id}
      BY <1>0, <2>1 DEF Held, Present, Fresh, NoJob, JobTypes
    <2>4. discarded' = discarded \ {id}
      BY <1>0, <2>1 DEF DeliveredInv
    <2>5. GivenTo' = GivenTo
      BY <2>1 DEF GivenTo
    <2> QED BY <2>1, <2>2, <2>3, <2>4, <2>5 DEF Handoff!Receive
  <1>2. ASSUME NEW id \in Ids, Expire(id)
        PROVE  Handoff!Forget(id) \/ Handoff!Drop({id})
    <2>1. /\ job[id].state \in {"completed", "failed"} /\ job' = [job EXCEPT ![id] = NoJob]
          /\ discarded' = IF id \in Failed THEN discarded \cup {id} ELSE discarded
          /\ UNCHANGED <<sent, acked, served, busy, loose>>
      BY <1>2 DEF Expire, shopVars, execVars
    <2>2. id \in Held /\ Held' = Held \ {id}
      BY <1>0, <2>1 DEF Held, Present, NoJob, JobTypes
    <2>3. \A s \in Slots : GivenTo[s] # id
      BY <2>1, Given
    <2>4. Received' = Received /\ GivenTo' = GivenTo
      BY <2>1 DEF Received, GivenTo
    <2>5. CASE job[id].state = "completed"
      <3>1. id \in served /\ discarded' = discarded
        BY <1>0, <2>1, <2>5 DEF LossInv, Failed
      <3> QED BY <2>1, <2>2, <2>3, <2>4, <3>1 DEF Handoff!Forget
    <2>6. CASE job[id].state = "failed"
      <3>1. discarded' = discarded \cup {id}
        BY <2>1, <2>6 DEF Failed
      <3>2. GivenTo = [s \in Slots |-> IF GivenTo[s] \in {id} THEN NoId ELSE GivenTo[s]]
        BY <2>3 DEF GivenTo
      <3> QED BY <2>1, <2>2, <2>4, <3>1, <3>2 DEF Handoff!Drop
    <2> QED BY <2>1, <2>5, <2>6
  <1>3. CASE Clear
    <2>1. /\ discarded' = discarded \cup Held /\ job' = [id \in Ids |-> NoJob]
          /\ loose' = {s \in Slots : Runs(s)} /\ UNCHANGED <<sent, acked, served, busy>>
      BY <1>3 DEF Clear, shopVars, Held
    <2>2. Held' = Held \ Held
      BY <2>1 DEF Held, Present, NoJob
    <2>3. GivenTo' = [s \in Slots |-> IF GivenTo[s] \in Held THEN NoId ELSE GivenTo[s]]
      <3>1. \A s \in Slots : (IF s \in loose' THEN NoId ELSE busy'[s])
                               = IF GivenTo[s] \in Held THEN NoId ELSE GivenTo[s]
        BY <2>1, Given DEF Runs
      <3> QED BY <3>1 DEF GivenTo
    <2>4. Held \in SUBSET Ids
      BY DEF Held
    <2>5. Handoff!Drop(Held)
      BY <1>b, <2>1, <2>2, <2>3 DEF Handoff!Drop
    <2> QED BY <2>4, <2>5 DEF Handoff!Next
  <1>4. ASSUME NEW id \in Ids, Acknowledge(id), Held' = Held
        PROVE  Handoff!Promise(id)
    <2>1. /\ acked' = acked \cup {id} /\ id \in answering
          /\ UNCHANGED <<sent, served, discarded, busy, loose>>
      BY <1>4 DEF Acknowledge, execVars
    <2>2. id \in Held \cup served \cup discarded
      BY <1>0, <2>1 DEF LossInv, Kept, Held
    <2>3. Received' = Received /\ GivenTo' = GivenTo
      BY <2>1 DEF Received, GivenTo
    <2> QED BY <1>4, <2>1, <2>2, <2>3 DEF Handoff!Promise
  <1>5. ASSUME NEW s \in Slots, Return(s), Held' = Held
        PROVE  busy[s] \in Ids /\ Handoff!Serve(busy[s])
    <2>1. busy[s] \in Ids /\ Runs(s)
      BY <1>0, <1>5, SlotJob DEF Return, SlotTypes
    <2>2. busy[s] \in Received
      BY <1>0, <2>1 DEF DeliveredInv, Received
    <2>3. served' = served \cup {busy[s]} /\ UNCHANGED <<sent, acked, discarded, busy, loose>>
      BY <1>5 DEF Return, shopVars
    <2>4. Received' = Received /\ GivenTo' = GivenTo
      BY <2>3 DEF Received, GivenTo
    <2> QED BY <1>5, <2>1, <2>2, <2>3, <2>4 DEF Handoff!Serve
  <1>6. ASSUME NEW s \in Slots, NEW id \in Ids, Take(s, id), Held' = Held
        PROVE  [Handoff!Next]_(Handoff!vars)
    <2>1. /\ ~Runs(s) /\ job[id].state = "waiting" /\ busy' = [busy EXCEPT ![s] = id]
          /\ UNCHANGED <<sent, acked, served, discarded, loose>>
      BY <1>6 DEF Take, shopVars
    <2>2. Received' = Received
      BY <1>b, <2>1
    <2>3. CASE s \in loose
      <3>1. GivenTo' = GivenTo
        BY <2>1, <2>3 DEF GivenTo
      <3> QED BY <1>6, <2>1, <2>2, <3>1 DEF Handoff!vars
    <2>4. CASE s \notin loose
      <3>1. GivenTo' = [GivenTo EXCEPT ![s] = id]
        BY <1>0, <2>1, <2>4 DEF GivenTo, SlotTypes
      <3>2. GivenTo[s] = NoId /\ \A t \in Slots : GivenTo[t] # id
        BY <2>1, <2>4, Given DEF Runs
      <3>3. id \in Held
        BY <2>1 DEF Held, Present
      <3>4. Handoff!Give(id, s)
        BY <1>6, <2>1, <2>2, <3>1, <3>2, <3>3 DEF Handoff!Give
      <3> QED BY <3>4 DEF Handoff!Next
    <2> QED BY <2>3, <2>4
  <1>7. ASSUME NEW s \in Slots, Complete(s) \/ Fail(s) \/ Crash(s) \/ LoseLock(s), Held' = Held
        PROVE  [Handoff!Next]_(Handoff!vars)
    <2>1. /\ UNCHANGED <<sent, acked, served, discarded>>
          /\ \A t \in Slots \ {s} : busy'[t] = busy[t] /\ (t \in loose' <=> t \in loose)
          /\ busy'[s] = NoId \/ s \in loose'
      BY <1>0, <1>7 DEF Complete, Fail, Crash, LoseLock, Idle, shopVars, SlotTypes
    <2> QED BY <1>7, <1>b, <2>1, TakenBack
  <1>8. CASE Held' = Held
    <2>1. ASSUME NEW id \in Ids, IdStep(id), ~Enqueue(id), ~Expire(id), ~Acknowledge(id)
          PROVE  UNCHANGED Handoff!vars
      <3>1. UNCHANGED <<sent, acked, served, discarded, busy, loose>>
        BY <2>1 DEF IdStep, LoseAnswer, BackoffEnds, Reclaim, Replay, shopVars, execVars
      <3> QED BY <1>8, <1>a, <3>1
    <2>2. ASSUME NEW s \in Slots, Throw(s)
          PROVE  UNCHANGED Handoff!vars
      <3>1. UNCHANGED <<sent, acked, served, discarded, busy, loose>>
        BY <2>2 DEF Throw, shopVars
      <3> QED BY <1>8, <1>a, <3>1
    <2>3. CASE ListFailed \/ UNCHANGED vars
      <3>1. UNCHANGED <<sent, acked, served, discarded, busy, loose>>
        BY <2>3 DEF ListFailed, vars, shopVars, execVars
      <3> QED BY <1>8, <1>a, <3>1
    <2>4. ASSUME NEW id \in Ids, Enqueue(id) \/ Expire(id) \/ Acknowledge(id)
          PROVE  [Handoff!Next]_(Handoff!vars)
      <3>1. {id} \in SUBSET Ids
        OBVIOUS
      <3> QED BY <1>1, <1>2, <1>4, <1>8, <2>4, <3>1 DEF Handoff!Next
    <2>5. ASSUME NEW id \in Ids, IdStep(id)
          PROVE  [Handoff!Next]_(Handoff!vars)
      BY <2>1, <2>4, <2>5
    <2>6. ASSUME NEW s \in Slots, Execute(s) \/ Crash(s) \/ LoseLock(s)
          PROVE  [Handoff!Next]_(Handoff!vars)
      <3>1. CASE Return(s)
        BY <1>5, <1>8, <3>1 DEF Handoff!Next
      <3> QED BY <1>6, <1>7, <1>8, <2>2, <2>6, <3>1, SlotSteps
    <2> QED BY <1>3, <2>3, <2>5, <2>6, NextSteps
  <1>9. CASE \E id \in Ids : Enqueue(id) \/ Expire(id)
    <2>1. PICK id \in Ids : Enqueue(id) \/ Expire(id)
      BY <1>9
    <2>2. {id} \in SUBSET Ids
      OBVIOUS
    <2> QED BY <1>1, <1>2, <2>1, <2>2 DEF Handoff!Next
  <1> QED BY <1>0, <1>3, <1>8, <1>9, HeldFrame

\* The receiver, the queue, the slots and the tools keep the promise of the handoff:
\* what Shopify was told is delivered is kept until it is served or openly dropped, and
\* is given to one slot at a time, through any crash, lost lock, replay or clearing.
THEOREM HandoffImplemented == Spec => ImplementsHandoff
  <1>1. Init => LossInv /\ LockInv /\ LockedIsActive /\ DeliveredInv
    BY DEF Init, LossInv, LockInv, LockedIsActive, DeliveredInv, Present, Runs, NoJob
  <1>2. TypeOK /\ LossInv /\ LockInv /\ LockedIsActive /\ DeliveredInv /\ [Next]_vars
          => LossInv' /\ LockInv' /\ LockedIsActive' /\ DeliveredInv'
    BY LossStep, LockStep, LockedStep, DeliveredStep
  <1>3. Spec => []HandoffInv
    <2>1. HandoffInv <=> TypeOK /\ LossInv /\ LockInv /\ LockedIsActive /\ DeliveredInv
      BY DEF HandoffInv
    <2> QED BY <1>1, <1>2, <2>1, TypeCorrect, PTL DEF Spec
  <1>4. Init => Handoff!Init
    BY DEF Init, Handoff!Init, Received, Held, GivenTo, Present, NoJob
  <1>5. HandoffInv /\ [Next]_vars => [Handoff!Next]_(Handoff!vars)
    BY HandoffStep
  <1> QED BY <1>3, <1>4, <1>5, PTL DEF Spec, ImplementsHandoff, Handoff!Spec
=============================================================================
