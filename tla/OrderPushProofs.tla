-------------------------- MODULE OrderPushProofs --------------------------
(***************************************************************************)
(* Proofs about OrderPush, for every set of orders, webhooks, slots and    *)
(* requests, every ERP mode and every bound.                               *)
(***************************************************************************)
EXTENDS OrderPush, TLAPS

-----------------------------------------------------------------------------
(* Requests.                                                               *)

(* What hanging up does: every request that is still live was live before, *)
(* only its caller may have changed, and it is not the one that hung up.   *)
LEMMA HangUpFacts ==
  ASSUME RequestsOK, NEW s \in Slots, HangUp(s)
  PROVE  /\ RequestsOK'
         /\ \A p \in Requests :
              req'[p].stage # "free" =>
                /\ req'[p].caller # s
                /\ req[p].stage # "free"
                /\ req'[p].stage = req[p].stage
                /\ req'[p].order = req[p].order
                /\ req'[p].ref = req[p].ref
                /\ req'[p].caller \in {req[p].caller, Gone}
<1> USE NamesAssumption DEF HangUp, Awaits, NoReq, RequestRecords, RequestsOK
<1>1. ASSUME NEW p \in Requests
      PROVE  /\ req'[p] \in RequestRecords
             /\ req'[p].stage # "free" => req'[p].caller # s
             /\ req'[p] = NoReq \/ req'[p].stage # "free"
  BY DEF Stages
<1>2. ASSUME NEW p \in Requests, req'[p].stage # "free"
      PROVE  /\ req[p].stage # "free"
             /\ req'[p].stage = req[p].stage
             /\ req'[p].order = req[p].order
             /\ req'[p].ref = req[p].ref
             /\ req'[p].caller \in {req[p].caller, Gone}
  BY <1>1, <1>2
<1>3. req' \in [Requests -> RequestRecords]
  <2> HIDE DEF RequestRecords
  <2> QED
    BY <1>1
<1>4. \A p \in Requests : req'[p] = NoReq \/ (req'[p].stage # "free" /\ req'[p].order \in Orders)
  BY <1>1, <1>2
<1> QED
  BY <1>1, <1>2, <1>3, <1>4

(* A request record that is not in use any more.                           *)
LEMMA FreeFacts ==
  ASSUME RequestsOK, NEW p \in Requests, req' = [req EXCEPT ![p] = NoReq]
  PROVE  RequestsOK' /\ req'[p] = NoReq /\ \A q \in Requests \ {p} : req'[q] = req[q]
<1>1. NoReq \in RequestRecords
  BY DEF RequestRecords, NoReq, Stages
<1>2. req' \in [Requests -> RequestRecords]
  BY <1>1 DEF RequestsOK
<1>3. req'[p] = NoReq /\ \A q \in Requests \ {p} : req'[q] = req[q]
  BY DEF RequestsOK
<1> QED
  BY <1>2, <1>3 DEF RequestsOK

(* An answer leaves every other request alone; request p gets it, or is    *)
(* gone with its caller.                                                   *)
LEMMA AnswerFacts ==
  ASSUME RequestsOK, NEW p \in Requests, NEW stage \in Stages \ {"free"}, NEW ref \in Nat,
         Answer(p, stage, ref)
  PROVE  /\ RequestsOK'
         /\ \A q \in Requests \ {p} : req'[q] = req[q]
         /\ \/ req'[p] = NoReq
            \/ /\ req'[p].stage = stage
               /\ req'[p].ref = ref
               /\ req'[p].order = req[p].order
               /\ req'[p].caller = req[p].caller
               /\ req[p].caller \in Slots
               /\ req[p].stage # "free"
<1>1. req \in [Requests -> RequestRecords] /\ NoReq \in RequestRecords
  BY DEF RequestsOK, RequestRecords, NoReq, Stages
<1>2. CASE req[p].caller = Gone
  <2>1. req' = [req EXCEPT ![p] = NoReq]
    BY <1>2 DEF Answer
  <2> QED
    BY <2>1, FreeFacts
<1>3. CASE req[p].caller # Gone
  <2>1. req' = [req EXCEPT ![p] = [req[p] EXCEPT !.stage = stage, !.ref = ref]]
    BY <1>3 DEF Answer
  <2>2. req[p].caller \in Slots /\ req[p].stage # "free" /\ req[p].order \in Orders
    BY <1>1, <1>3 DEF RequestsOK, RequestRecords, NoReq
  <2>3. [req[p] EXCEPT !.stage = stage, !.ref = ref] \in RequestRecords
    BY <1>1 DEF RequestRecords
  <2>4. req' \in [Requests -> RequestRecords]
    BY <1>1, <2>1, <2>3
  <2>5. \A q \in Requests \ {p} : req'[q] = req[q]
    BY <1>1, <2>1
  <2>6. /\ req'[p].stage = stage
        /\ req'[p].ref = ref
        /\ req'[p].order = req[p].order
        /\ req'[p].caller = req[p].caller
    BY <1>1, <2>1 DEF RequestRecords
  <2> QED
    BY <2>2, <2>4, <2>5, <2>6 DEF RequestsOK
<1> QED
  BY <1>2, <1>3

(* The ERP's restart: every request that is still live was live before,    *)
(* for the same order and caller, and will get no answer.                  *)
LEMMA RestartFacts ==
  ASSUME RequestsOK, ErpRestart
  PROVE  /\ RequestsOK'
         /\ \A p \in Requests :
              req'[p].stage # "free" =>
                /\ req[p].stage # "free"
                /\ req'[p].stage = "silent"
                /\ req'[p].order = req[p].order
                /\ req'[p].caller = req[p].caller
<1> SUFFICES ASSUME NEW p \in Requests
             PROVE  /\ req'[p] \in RequestRecords
                    /\ req'[p] = NoReq \/ (req'[p].stage # "free" /\ req'[p].order \in Orders)
                    /\ req'[p].stage # "free" =>
                         /\ req[p].stage # "free"
                         /\ req'[p].stage = "silent"
                         /\ req'[p].order = req[p].order
                         /\ req'[p].caller = req[p].caller
  BY DEF ErpRestart, RequestsOK
<1>1. req[p] \in RequestRecords /\ NoReq \in RequestRecords
  BY DEF RequestsOK, RequestRecords, NoReq, Stages
<1>2. CASE req[p].caller = Gone
  <2>1. req'[p] = NoReq
    BY <1>2 DEF ErpRestart
  <2>2. NoReq.stage = "free"
    BY DEF NoReq
  <2> QED
    BY <1>1, <2>1, <2>2
<1>3. CASE req[p].caller # Gone
  <2>1. req'[p] = [req[p] EXCEPT !.stage = "silent", !.ref = 0]
    BY <1>3 DEF ErpRestart
  <2>2. req[p].stage # "free" /\ req[p].order \in Orders
    BY <1>3 DEF RequestsOK, NoReq
  <2>3. [req[p] EXCEPT !.stage = "silent", !.ref = 0] \in RequestRecords
    BY <1>1 DEF RequestRecords, Stages
  <2>4. /\ req'[p].stage = "silent"
        /\ req'[p].order = req[p].order
        /\ req'[p].caller = req[p].caller
    BY <1>1, <2>1 DEF RequestRecords
  <2> QED
    BY <2>1, <2>2, <2>3, <2>4
<1> QED
  BY <1>2, <1>3

(* A request leaves for the ERP, and passes its check.                     *)
LEMMA SentFacts ==
  ASSUME RequestsOK, NEW p \in Requests, NEW o \in Orders, NEW s \in Slots,
         req' = [req EXCEPT ![p] = [stage |-> "sent", order |-> o, caller |-> s, ref |-> 0]]
  PROVE  /\ RequestsOK'
         /\ req'[p] = [stage |-> "sent", order |-> o, caller |-> s, ref |-> 0]
         /\ \A q \in Requests \ {p} : req'[q] = req[q]
<1>1. [stage |-> "sent", order |-> o, caller |-> s, ref |-> 0] \in RequestRecords
  BY DEF RequestRecords, Stages
<1> QED
  BY <1>1 DEF RequestsOK

LEMMA CheckedFacts ==
  ASSUME RequestsOK, NEW p \in Requests, req[p].stage = "sent",
         req' = [req EXCEPT ![p].stage = "checked"]
  PROVE  /\ RequestsOK'
         /\ \A q \in Requests \ {p} : req'[q] = req[q]
         /\ req'[p].stage = "checked"
         /\ req'[p].order = req[p].order
         /\ req'[p].caller = req[p].caller
<1>1. req[p] \in RequestRecords /\ req[p].order \in Orders
  BY DEF RequestsOK, NoReq
<1>2. req' = [req EXCEPT ![p] = [req[p] EXCEPT !.stage = "checked"]]
  OBVIOUS
<1>3. [req[p] EXCEPT !.stage = "checked"] \in RequestRecords
  BY <1>1 DEF RequestRecords, Stages
<1>4. req' \in [Requests -> RequestRecords]
  BY <1>2, <1>3 DEF RequestsOK
<1>5. /\ req'[p].stage = "checked"
      /\ req'[p].order = req[p].order
      /\ req'[p].caller = req[p].caller
  BY <1>1, <1>2 DEF RequestsOK, RequestRecords
<1> QED
  BY <1>1, <1>2, <1>4, <1>5 DEF RequestsOK

(* Every step keeps the request records well formed. *)
LEMMA RequestsStep ==
  TypeOK /\ [Next]_vars => RequestsOK'
<1> SUFFICES ASSUME TypeOK, [Next]_vars PROVE RequestsOK'
  OBVIOUS
<1> /\ RequestsOK
    /\ \A s \in Slots : pc[s] # "idle" => OrderAt(s) \in Orders
    /\ received \in [Orders -> Nat]
    /\ sequence \in Nat
  BY HooksAssumption DEF TypeOK, OrderAt
<1>1. ASSUME NEW s \in Slots, MirrorOrder(s) PROVE RequestsOK'
  BY <1>1 DEF MirrorOrder, RequestsOK, execVars, dbVars, erpVars
<1>2. ASSUME NEW s \in Slots, CheckPrior(s) PROVE RequestsOK'
  BY <1>2 DEF CheckPrior, RequestsOK, execVars, dbVars, erpVars
<1>3. ASSUME NEW s \in Slots, RecordIntent(s) PROVE RequestsOK'
  BY <1>3 DEF RecordIntent, RequestsOK, execVars, dbVars, erpVars
<1>4. ASSUME NEW s \in Slots, SendPost(s) PROVE RequestsOK'
  BY <1>4, SentFacts DEF SendPost, OrderAt, At
<1>5. ASSUME NEW s \in Slots, SendFails(s) PROVE RequestsOK'
  BY <1>5 DEF SendFails, RequestsOK, execVars, dbVars, erpVars
<1>6. ASSUME NEW s \in Slots, ReceiveReference(s) PROVE RequestsOK'
  BY <1>6, FreeFacts DEF ReceiveReference
<1>7. ASSUME NEW s \in Slots, ReceiveRefusal(s) PROVE RequestsOK'
  BY <1>7, FreeFacts DEF ReceiveRefusal
<1>8. ASSUME NEW s \in Slots, ReceiveBroken(s) PROVE RequestsOK'
  BY <1>8, HangUpFacts DEF ReceiveBroken
<1>9. ASSUME NEW s \in Slots, Timeout(s) PROVE RequestsOK'
  BY <1>9, HangUpFacts DEF Timeout
<1>10. ASSUME NEW s \in Slots, RecordConfirmed(s) PROVE RequestsOK'
  BY <1>10 DEF RecordConfirmed, RequestsOK, execVars, dbVars, erpVars
<1>11. ASSUME NEW s \in Slots, ConfirmThrows(s) PROVE RequestsOK'
  BY <1>11 DEF ConfirmThrows, RequestsOK, execVars, dbVars, erpVars
<1>12. ASSUME NEW s \in Slots, RecordFailure(s) PROVE RequestsOK'
  BY <1>12 DEF RecordFailure, RequestsOK, execVars, dbVars, erpVars
<1>13. ASSUME NEW s \in Slots, RecordEvent(s) PROVE RequestsOK'
  BY <1>13 DEF RecordEvent, RequestsOK, execVars, dbVars, erpVars
<1>14. ASSUME NEW s \in Slots, Abandon(s) PROVE RequestsOK'
  BY <1>14, HangUpFacts DEF Abandon
<1>15. ASSUME NEW s \in Slots, NEW w \in Webhooks, Start(s, w) PROVE RequestsOK'
  BY <1>15 DEF Start, RequestsOK, execVars, dbVars, erpVars
<1>16. ASSUME NEW p \in Requests, ErpCheck(p) PROVE RequestsOK'
  <2>1. req[p].stage = "sent" /\ received[req[p].order] \in Nat
    BY <1>16 DEF ErpCheck, RequestsOK, NoReq
  <2>2. CASE Answer(p, "duplicate", received[req[p].order])
    BY <2>1, <2>2, AnswerFacts DEF Stages
  <2>3. CASE Answer(p, "refused", 0)
    BY <2>3, AnswerFacts DEF Stages
  <2>4. CASE req' = [req EXCEPT ![p].stage = "checked"]
    BY <2>1, <2>4, CheckedFacts
  <2> QED
    BY <1>16, <2>2, <2>3, <2>4 DEF ErpCheck
<1>17. ASSUME NEW p \in Requests, ErpAccept(p) PROVE RequestsOK'
  <2>1. sequence' \in Nat
    BY <1>17 DEF ErpAccept
  <2> QED
    BY <1>17, <2>1, AnswerFacts DEF ErpAccept, Stages
<1>18. ASSUME NEW p \in Requests, LoseRequest(p) PROVE RequestsOK'
  BY <1>18, AnswerFacts DEF LoseRequest, Stages
<1>19. CASE ErpRestart
  BY <1>19, RestartFacts
<1>20. CASE FetchRemote
  BY <1>20 DEF FetchRemote, RequestsOK, execVars, dbVars, erpVars
<1>21. CASE Classify
  BY <1>21 DEF Classify, RequestsOK, execVars, dbVars, erpVars
<1>22. CASE EndRun
  BY <1>22 DEF EndRun, RequestsOK, execVars, dbVars, erpVars
<1>23. ASSUME NEW o \in Orders, Repair(o) PROVE RequestsOK'
  BY <1>23 DEF Repair, RequestsOK, execVars, dbVars, erpVars
<1>24. ASSUME NEW o \in Orders, ForceUnknown(o) PROVE RequestsOK'
  BY <1>24 DEF ForceUnknown, RequestsOK, execVars, dbVars, erpVars
<1>25. CASE UNCHANGED vars
  BY <1>25 DEF vars, RequestsOK
<1>26. QED
  BY <1>1, <1>2, <1>3, <1>4, <1>5, <1>6, <1>7, <1>8, <1>9, <1>10, <1>11, <1>12, <1>13, <1>14, <1>15, <1>16, <1>17, <1>18, <1>19, <1>20, <1>21, <1>22, <1>23, <1>24, <1>25 DEF Next, Advance, Erp, Script

(* Typing is preserved by every step. *)
LEMMA TypeStep ==
  TypeOK /\ [Next]_vars => TypeOK'
<1> SUFFICES ASSUME TypeOK, [Next]_vars PROVE TypeOK'
  OBVIOUS
<1> USE RequestsStep, HooksAssumption, ModesAssumption, NamesAssumption
    DEF TypeOK, execVars, dbVars, erpVars, Goto, At, OrderAt, Locations, Statuses,
        Verdicts
<1>1. ASSUME NEW s \in Slots, MirrorOrder(s) PROVE TypeOK'
  BY <1>1 DEF MirrorOrder
<1>2. ASSUME NEW s \in Slots, CheckPrior(s) PROVE TypeOK'
  BY <1>2 DEF CheckPrior
<1>3. ASSUME NEW s \in Slots, RecordIntent(s) PROVE TypeOK'
  BY <1>3 DEF RecordIntent, PushRows
<1>4. ASSUME NEW s \in Slots, SendPost(s) PROVE TypeOK'
  BY <1>4 DEF SendPost
<1>5. ASSUME NEW s \in Slots, SendFails(s) PROVE TypeOK'
  BY <1>5 DEF SendFails
<1>6. ASSUME NEW s \in Slots, ReceiveReference(s) PROVE TypeOK'
  BY <1>6 DEF ReceiveReference, RequestsOK, RequestRecords
<1>7. ASSUME NEW s \in Slots, ReceiveRefusal(s) PROVE TypeOK'
  BY <1>7 DEF ReceiveRefusal
<1>8. ASSUME NEW s \in Slots, ReceiveBroken(s) PROVE TypeOK'
  BY <1>8 DEF ReceiveBroken
<1>9. ASSUME NEW s \in Slots, Timeout(s) PROVE TypeOK'
  BY <1>9 DEF Timeout
<1>10. ASSUME NEW s \in Slots, RecordConfirmed(s) PROVE TypeOK'
  BY <1>10 DEF RecordConfirmed, PushRows
<1>11. ASSUME NEW s \in Slots, ConfirmThrows(s) PROVE TypeOK'
  BY <1>11 DEF ConfirmThrows
<1>12. ASSUME NEW s \in Slots, RecordFailure(s) PROVE TypeOK'
  <2>1. hook[s] \in Webhooks
    BY <1>12 DEF RecordFailure
  <2>2. PICK st \in {"unknown", "failed"} : push' = [push EXCEPT ![OrderAt(s)].status = st]
    BY <1>12 DEF RecordFailure
  <2>3. push' \in [Orders -> PushRows]
    BY <2>1, <2>2 DEF PushRows
  <2> QED
    BY <1>12, <2>3 DEF RecordFailure, Leave
<1>13. ASSUME NEW s \in Slots, RecordEvent(s) PROVE TypeOK'
  BY <1>13 DEF RecordEvent, Leave
<1>14. ASSUME NEW s \in Slots, Abandon(s) PROVE TypeOK'
  BY <1>14 DEF Abandon, Leave
<1>15. ASSUME NEW s \in Slots, NEW w \in Webhooks, Start(s, w) PROVE TypeOK'
  BY <1>15 DEF Start
<1>16. ASSUME NEW p \in Requests, ErpCheck(p) PROVE TypeOK'
  BY <1>16 DEF ErpCheck
<1>17. ASSUME NEW p \in Requests, ErpAccept(p) PROVE TypeOK'
  <2>1. sequence' \in Nat /\ sequence' = sequence + 1
    BY <1>17 DEF ErpAccept
  <2>2. received' \in [Orders -> Nat] /\ issued' \in [Orders -> SUBSET Nat]
    BY <1>17, <2>1 DEF ErpAccept
  <2> QED
    BY <1>17, <2>1, <2>2 DEF ErpAccept
<1>18. ASSUME NEW p \in Requests, LoseRequest(p) PROVE TypeOK'
  BY <1>18 DEF LoseRequest
<1>19. CASE ErpRestart
  <2>1. mode' \in ErpModes /\ restarts' = restarts + 1
    BY <1>19, Zenon DEF ErpRestart
  <2>2. received' \in [Orders -> Nat] /\ sequence' \in Nat
    BY <1>19 DEF ErpRestart
  <2>3. UNCHANGED <<execVars, dbVars, issued, rec>>
    BY <1>19, Zenon DEF ErpRestart
  <2> QED
    BY <2>1, <2>2, <2>3
<1>20. CASE FetchRemote
  BY <1>20 DEF FetchRemote, NoRun, RunRecords
<1>21. CASE Classify
  BY <1>21 DEF Classify, Verdict, RunRecords
<1>22. CASE EndRun
  BY <1>22 DEF EndRun, NoRun, RunRecords
<1>23. ASSUME NEW o \in Orders, Repair(o) PROVE TypeOK'
  BY <1>23 DEF Repair, PushRows, RunRecords
<1>24. ASSUME NEW o \in Orders, ForceUnknown(o) PROVE TypeOK'
  BY <1>24 DEF ForceUnknown, PushRows
<1>25. CASE UNCHANGED vars
  BY <1>25 DEF vars
<1>26. QED
  BY <1>1, <1>2, <1>3, <1>4, <1>5, <1>6, <1>7, <1>8, <1>9, <1>10, <1>11, <1>12, <1>13, <1>14, <1>15, <1>16, <1>17, <1>18, <1>19, <1>20, <1>21, <1>22, <1>23, <1>24, <1>25 DEF Next, Advance, Erp, Script

-----------------------------------------------------------------------------
(* The inductive invariant.                                                *)

Sending == {"post", "await", "confirm", "settle_unknown", "settle_failed"}
Pushing == Sending \cup {"prior", "intent"}

\* A live request somebody waits for belongs to one execution, which is at the
\* await and handles the request's order.
Wiring ==
  \A p \in Requests : req[p].stage # "free" /\ req[p].caller \in Slots =>
    /\ pc[req[p].caller] = "await"
    /\ req[p].order = OrderAt(req[p].caller)
    /\ \A q \in Requests \ {p} : req[q].stage # "free" => req[q].caller # req[p].caller

\* Wherever a reference travels, the ERP created it for that order.
References ==
  /\ ConfirmedIsTruthful
  /\ \A o \in Orders : received[o] # 0 => received[o] \in issued[o]
  /\ \A p \in Requests : req[p].stage \in {"created", "duplicate"} => req[p].ref \in issued[req[p].order]
  /\ \A s \in Slots : pc[s] = "confirm" => reply[s] \in issued[OrderAt(s)]
  /\ \A o \in Orders : rec.remote[o] # 0 => rec.remote[o] \in issued[o]
  /\ \A o \in Orders : rec.verdict[o] = "resolved-unknown" => rec.remote[o] # 0

\* The mirror comes before the push row, and the push row before the request.
Evidence ==
  /\ EvidenceOfPush
  /\ \A o \in Orders : push[o].status # "absent" => o \in mirrored
  /\ \A s \in Slots : pc[s] \notin {"idle", "mirror"} => OrderAt(s) \in mirrored
  /\ \A s \in Slots : pc[s] \in Sending => push[OrderAt(s)].status # "absent"
  /\ \A o \in Orders : rec.verdict[o] = "resolved-unknown" => push[o].status # "absent"

\* An execution that is about to record its webhook has nothing left to do.
Completion ==
  /\ ProcessedMeansDone
  /\ \A s \in Slots : pc[s] = "record" =>
       IF OrderAt(s) \in Blocked THEN OrderAt(s) \in mirrored ELSE issued[OrderAt(s)] # {}

\* No execution takes a blocked order past the mirror.
Locality ==
  /\ \A s \in Slots : pc[s] \in Pushing => OrderAt(s) \notin Blocked
  /\ \A o \in Blocked : push[o].status = "absent"

Numbering ==
  /\ ReferencesAreUnique
  /\ \A o \in Orders : received[o] <= sequence

IInv == /\ TypeOK
        /\ Wiring
        /\ References
        /\ Evidence
        /\ Completion
        /\ Locality
        /\ Numbering

LEMMA InitIInv == Init => IInv
<1> SUFFICES ASSUME Init PROVE IInv
  OBVIOUS
<1> USE HooksAssumption, ModesAssumption, NamesAssumption, TestOrdersAssumption DEF Init
<1>1. TypeOK
  BY DEF TypeOK, RequestsOK, Locations, Statuses, Stages, Verdicts, PushRows, RequestRecords,
         RunRecords, NoRow, NoReq, NoRun
<1>2. Wiring /\ References /\ Evidence /\ Completion
  BY DEF Wiring, References, ConfirmedIsTruthful, Evidence, EvidenceOfPush, Completion,
         ProcessedMeansDone, NoRow, NoReq, NoRun, Sending
<1>3. Locality /\ Numbering
  BY DEF Locality, Numbering, ReferencesAreUnique, Pushing, Sending, NoRow, Blocked
<1> QED
  BY <1>1, <1>2, <1>3 DEF IInv

(* Every slot that has started handles a webhook of a known order.         *)
LEMMA OrderAtType ==
  ASSUME TypeOK, NEW s \in Slots, pc[s] # "idle"
  PROVE  hook[s] \in Webhooks /\ OrderAt(s) \in Orders
BY HooksAssumption DEF TypeOK, OrderAt

(* The three steps of the ERP: the other requests are left alone, request  *)
(* p moves on or is gone, and only an acceptance creates a reference.      *)
LEMMA ErpCheckFacts ==
  ASSUME TypeOK, NEW p \in Requests, ErpCheck(p)
  PROVE  /\ UNCHANGED <<execVars, dbVars, erpVars, rec>>
         /\ req[p].order \in Orders
         /\ \A q \in Requests \ {p} : req'[q] = req[q]
         /\ \/ req'[p].stage = "free"
            \/ /\ req'[p].stage \in {"duplicate", "refused", "checked"}
               /\ req'[p].stage = "duplicate" =>
                    received[req[p].order] # 0 /\ req'[p].ref = received[req[p].order]
               /\ req'[p].order = req[p].order
               /\ req'[p].caller = req[p].caller
               /\ req[p].stage # "free"
<1>1. req[p].stage = "sent" /\ UNCHANGED <<execVars, dbVars, erpVars, rec>>
  BY DEF ErpCheck
<1>2. RequestsOK /\ req[p].order \in Orders /\ received[req[p].order] \in Nat
  BY <1>1 DEF TypeOK, RequestsOK, NoReq
<1>3. CASE received[req[p].order] # 0 /\ Answer(p, "duplicate", received[req[p].order])
  BY <1>1, <1>2, <1>3, AnswerFacts DEF Stages, NoReq
<1>4. CASE Answer(p, "refused", 0)
  BY <1>1, <1>2, <1>4, AnswerFacts DEF Stages, NoReq
<1>5. CASE req' = [req EXCEPT ![p].stage = "checked"]
  BY <1>1, <1>2, <1>5, CheckedFacts
<1> QED
  BY <1>3, <1>4, <1>5 DEF ErpCheck

AcceptEffect(p, o) ==
  /\ o = req[p].order
  /\ req[p].stage = "checked"
  /\ UNCHANGED <<execVars, dbVars, mode, restarts, rec>>
  /\ sequence' = sequence + 1
  /\ received' = [received EXCEPT ![o] = sequence']
  /\ issued' = [issued EXCEPT ![o] = issued[o] \cup {sequence'}]
  /\ \A u \in Orders : issued[u] \subseteq issued'[u]
  /\ \A q \in Requests : req[q].stage # "free" => req[q].order \in Orders
  /\ \A q \in Requests \ {p} : req'[q] = req[q]
  /\ req'[p].stage \in {"free", "silent", "created"}
  /\ req'[p].stage = "created" => req'[p].ref = sequence'
  /\ req'[p].stage # "free" => req'[p].order = o /\ req'[p].caller = req[p].caller

LEMMA ErpAcceptFacts ==
  ASSUME TypeOK, NEW p \in Requests, ErpAccept(p)
  PROVE  \E o \in Orders : AcceptEffect(p, o)
<1>1. req[p].stage = "checked" /\ UNCHANGED <<execVars, dbVars, mode, restarts, rec>>
  BY DEF ErpAccept
<1>2. PICK o \in Orders : o = req[p].order
  BY <1>1 DEF TypeOK, RequestsOK, NoReq
<1>3. /\ sequence' = sequence + 1
      /\ received' = [received EXCEPT ![o] = sequence']
      /\ issued' = [issued EXCEPT ![o] = issued[o] \cup {sequence'}]
  BY <1>2 DEF ErpAccept
<1>4. RequestsOK /\ sequence' \in Nat
  BY <1>3 DEF TypeOK
<1>5. /\ \A u \in Orders : issued[u] \subseteq issued'[u]
      /\ \A q \in Requests : req[q].stage # "free" => req[q].order \in Orders
  BY <1>3 DEF TypeOK, RequestsOK, NoReq
<1>6. /\ \A q \in Requests \ {p} : req'[q] = req[q]
      /\ req'[p].stage \in {"free", "silent", "created"}
      /\ req'[p].stage = "created" => req'[p].ref = sequence'
      /\ req'[p].stage # "free" => req'[p].order = req[p].order /\ req'[p].caller = req[p].caller
  <2>1. CASE Answer(p, "silent", 0)
    BY <2>1, <1>4, AnswerFacts DEF Stages, NoReq
  <2>2. CASE Answer(p, "created", sequence')
    BY <2>2, <1>4, AnswerFacts DEF Stages, NoReq
  <2> QED
    BY <2>1, <2>2 DEF ErpAccept
<1>7. AcceptEffect(p, o)
  BY <1>1, <1>2, <1>3, <1>5, <1>6 DEF AcceptEffect
<1> QED
  BY <1>7

LEMMA LoseRequestFacts ==
  ASSUME TypeOK, NEW p \in Requests, LoseRequest(p)
  PROVE  /\ UNCHANGED <<execVars, dbVars, erpVars, rec>>
         /\ \A q \in Requests \ {p} : req'[q] = req[q]
         /\ \/ req'[p].stage = "free"
            \/ /\ req'[p].stage = "silent"
               /\ req'[p].order = req[p].order
               /\ req'[p].caller = req[p].caller
               /\ req[p].stage # "free"
<1>1. UNCHANGED <<execVars, dbVars, erpVars, rec>> /\ Answer(p, "silent", 0)
  BY DEF LoseRequest
<1>2. RequestsOK
  BY DEF TypeOK
<1> QED
  BY <1>1, <1>2, AnswerFacts DEF Stages, NoReq

(* The steps by which an execution sends a request or receives an answer.  *)
SendEffect(s, p) ==
  /\ pc[s] = "post" /\ pc' = [pc EXCEPT ![s] = "await"]
  /\ UNCHANGED <<hook, reply, dbVars, erpVars, rec>>
  /\ OrderAt(s) \in Orders
  /\ req[p].stage = "free"
  /\ req'[p].stage = "sent"
  /\ req'[p].order = OrderAt(s)
  /\ req'[p].caller = s
  /\ \A q \in Requests \ {p} : req'[q] = req[q]

ReceiveEffect(s, p) ==
  /\ pc[s] = "await" /\ pc' = [pc EXCEPT ![s] = "confirm"]
  /\ UNCHANGED <<hook, dbVars, erpVars, rec>>
  /\ req[p].caller = s /\ req[p].stage \in {"created", "duplicate"}
  /\ req[p].order = OrderAt(s)
  /\ reply' = [reply EXCEPT ![s] = req[p].ref]
  /\ req'[p].stage = "free"
  /\ \A q \in Requests \ {p} : req'[q] = req[q]

LEMMA SendPostFacts ==
  ASSUME TypeOK, NEW s \in Slots, SendPost(s)
  PROVE  \E p \in Requests : SendEffect(s, p)
<1>1. /\ pc[s] = "post" /\ pc' = [pc EXCEPT ![s] = "await"]
      /\ UNCHANGED <<hook, reply, dbVars, erpVars, rec>>
  BY DEF SendPost, At, Goto
<1>2. PICK p \in Requests : /\ req[p].stage = "free"
                            /\ req' = [req EXCEPT ![p] = [stage |-> "sent", order |-> OrderAt(s),
                                                          caller |-> s, ref |-> 0]]
  BY DEF SendPost
<1>3. /\ req'[p] = [stage |-> "sent", order |-> OrderAt(s), caller |-> s, ref |-> 0]
      /\ \A q \in Requests \ {p} : req'[q] = req[q]
  BY <1>2 DEF TypeOK, RequestsOK
<1>4. OrderAt(s) \in Orders
  BY <1>1, OrderAtType
<1> QED
  BY <1>1, <1>2, <1>3, <1>4 DEF SendEffect

LEMMA ReceiveReferenceFacts ==
  ASSUME TypeOK, Wiring, NEW s \in Slots, ReceiveReference(s)
  PROVE  \E p \in Requests : ReceiveEffect(s, p)
<1>1. /\ pc[s] = "await" /\ pc' = [pc EXCEPT ![s] = "confirm"]
      /\ UNCHANGED <<hook, dbVars, erpVars, rec>>
  BY DEF ReceiveReference, At, Goto
<1>2. PICK p \in Requests :
        /\ req[p].caller = s /\ req[p].stage \in {"created", "duplicate"}
        /\ reply' = [reply EXCEPT ![s] = req[p].ref]
        /\ req' = [req EXCEPT ![p] = NoReq]
  BY DEF ReceiveReference, Awaits
<1>3. req'[p] = NoReq /\ \A q \in Requests \ {p} : req'[q] = req[q]
  BY <1>2, FreeFacts DEF TypeOK
<1>4. req'[p].stage = "free"
  BY <1>3 DEF NoReq
<1>5. req[p].order = OrderAt(s)
  BY <1>2 DEF Wiring
<1> QED
  BY <1>1, <1>2, <1>3, <1>4, <1>5 DEF ReceiveEffect

LEMMA ReceiveRefusalFacts ==
  ASSUME TypeOK, NEW s \in Slots, ReceiveRefusal(s)
  PROVE  /\ pc[s] = "await" /\ pc' = [pc EXCEPT ![s] = "settle_failed"]
         /\ UNCHANGED <<hook, reply, dbVars, erpVars, rec>>
         /\ \E p \in Requests :
              /\ req[p].caller = s /\ req[p].stage # "free"
              /\ req'[p].stage = "free"
              /\ \A q \in Requests \ {p} : req'[q] = req[q]
<1>1. /\ pc[s] = "await" /\ pc' = [pc EXCEPT ![s] = "settle_failed"]
      /\ UNCHANGED <<hook, reply, dbVars, erpVars, rec>>
  BY DEF ReceiveRefusal, At, Goto
<1>2. PICK p \in Requests : req[p].caller = s /\ req[p].stage # "free" /\ req' = [req EXCEPT ![p] = NoReq]
  BY DEF ReceiveRefusal, Awaits
<1>3. req'[p] = NoReq /\ \A q \in Requests \ {p} : req'[q] = req[q]
  BY <1>2, FreeFacts DEF TypeOK
<1>4. req'[p].stage = "free"
  BY <1>3 DEF NoReq
<1> QED
  BY <1>1, <1>2, <1>3, <1>4

(* A step keeps each answer with the execution that asked for it. *)
LEMMA WiringStep ==
  IInv /\ [Next]_vars => Wiring'
<1> SUFFICES ASSUME IInv, [Next]_vars PROVE Wiring'
  OBVIOUS
<1> /\ TypeOK
    /\ RequestsOK
    /\ Wiring
    /\ pc \in [Slots -> Locations]
    /\ hook \in [Slots -> Webhooks \cup {NoHook}]
    /\ reply \in [Slots -> Nat]
    /\ push \in [Orders -> PushRows]
    /\ received \in [Orders -> Nat]
    /\ sequence \in Nat
    /\ issued \in [Orders -> SUBSET Nat]
    /\ rec \in RunRecords
    /\ \A s \in Slots : pc[s] # "idle" => hook[s] \in Webhooks /\ OrderOf[hook[s]] \in Orders
  BY HooksAssumption DEF IInv, TypeOK
<1> USE NamesAssumption DEF Wiring, OrderAt, At, Goto, execVars, dbVars, erpVars
<1>1. ASSUME NEW s \in Slots, MirrorOrder(s) PROVE Wiring'
  BY <1>1 DEF MirrorOrder
<1>2. ASSUME NEW s \in Slots, CheckPrior(s) PROVE Wiring'
  BY <1>2 DEF CheckPrior
<1>3. ASSUME NEW s \in Slots, RecordIntent(s) PROVE Wiring'
  BY <1>3 DEF RecordIntent
<1>4. ASSUME NEW s \in Slots, SendPost(s) PROVE Wiring'
  <2>1. PICK p \in Requests : SendEffect(s, p)
    BY <1>4, SendPostFacts
  <2> QED
    BY <2>1 DEF SendEffect
<1>5. ASSUME NEW s \in Slots, SendFails(s) PROVE Wiring'
  BY <1>5 DEF SendFails
<1>6. ASSUME NEW s \in Slots, ReceiveReference(s) PROVE Wiring'
  <2>1. PICK p \in Requests : ReceiveEffect(s, p)
    BY <1>6, ReceiveReferenceFacts
  <2> QED
    BY <2>1 DEF ReceiveEffect
<1>7. ASSUME NEW s \in Slots, ReceiveRefusal(s) PROVE Wiring'
  BY <1>7, ReceiveRefusalFacts
<1>8. ASSUME NEW s \in Slots, ReceiveBroken(s) PROVE Wiring'
  <2>1. /\ At(s, "await") /\ HangUp(s) /\ pc' = [pc EXCEPT ![s] = "settle_failed"]
        /\ UNCHANGED <<hook, reply, dbVars, erpVars, rec>>
    BY <1>8 DEF ReceiveBroken
  <2> QED
    BY <2>1, HangUpFacts
<1>9. ASSUME NEW s \in Slots, Timeout(s) PROVE Wiring'
  <2>1. /\ At(s, "await") /\ HangUp(s) /\ pc' = [pc EXCEPT ![s] = "settle_unknown"]
        /\ UNCHANGED <<hook, reply, dbVars, erpVars, rec>>
    BY <1>9 DEF Timeout
  <2> QED
    BY <2>1, HangUpFacts
<1>10. ASSUME NEW s \in Slots, RecordConfirmed(s) PROVE Wiring'
  BY <1>10 DEF RecordConfirmed
<1>11. ASSUME NEW s \in Slots, ConfirmThrows(s) PROVE Wiring'
  BY <1>11 DEF ConfirmThrows
<1>12. ASSUME NEW s \in Slots, RecordFailure(s) PROVE Wiring'
  BY <1>12 DEF RecordFailure, Leave
<1>13. ASSUME NEW s \in Slots, RecordEvent(s) PROVE Wiring'
  BY <1>13 DEF RecordEvent, Leave
<1>14. ASSUME NEW s \in Slots, Abandon(s) PROVE Wiring'
  BY <1>14, HangUpFacts DEF Abandon, Leave
<1>15. ASSUME NEW s \in Slots, NEW w \in Webhooks, Start(s, w) PROVE Wiring'
  BY <1>15 DEF Start
<1>16. ASSUME NEW p \in Requests, ErpCheck(p) PROVE Wiring'
  BY <1>16, ErpCheckFacts
<1>17. ASSUME NEW p \in Requests, ErpAccept(p) PROVE Wiring'
  <2>1. PICK o \in Orders : AcceptEffect(p, o)
    BY <1>17, ErpAcceptFacts
  <2> QED
    BY <2>1 DEF AcceptEffect
<1>18. ASSUME NEW p \in Requests, LoseRequest(p) PROVE Wiring'
  BY <1>18, LoseRequestFacts
<1>19. CASE ErpRestart
  <2>1. UNCHANGED <<execVars, dbVars, issued, rec>> /\ received' = [o \in Orders |-> 0] /\ sequence' = 0
    BY <1>19, Zenon DEF ErpRestart
  <2> QED
    BY <1>19, <2>1, RestartFacts
<1>20. CASE FetchRemote
  BY <1>20 DEF FetchRemote, NoRun
<1>21. CASE Classify
  BY <1>21 DEF Classify, Verdict
<1>22. CASE EndRun
  BY <1>22 DEF EndRun, NoRun
<1>23. ASSUME NEW o \in Orders, Repair(o) PROVE Wiring'
  BY <1>23 DEF Repair
<1>24. ASSUME NEW o \in Orders, ForceUnknown(o) PROVE Wiring'
  BY <1>24 DEF ForceUnknown
<1>25. CASE UNCHANGED vars
  BY <1>25 DEF vars
<1>26. QED
  BY <1>1, <1>2, <1>3, <1>4, <1>5, <1>6, <1>7, <1>8, <1>9, <1>10, <1>11, <1>12, <1>13, <1>14, <1>15, <1>16, <1>17, <1>18, <1>19, <1>20, <1>21, <1>22, <1>23, <1>24, <1>25 DEF Next, Advance, Erp, Script

(* A step moves references, and creates them only for the right order. *)
LEMMA ReferencesStep ==
  IInv /\ [Next]_vars => References'
<1> SUFFICES ASSUME IInv, [Next]_vars PROVE References'
  OBVIOUS
<1> /\ TypeOK
    /\ RequestsOK
    /\ Wiring
    /\ pc \in [Slots -> Locations]
    /\ hook \in [Slots -> Webhooks \cup {NoHook}]
    /\ reply \in [Slots -> Nat]
    /\ push \in [Orders -> PushRows]
    /\ received \in [Orders -> Nat]
    /\ sequence \in Nat
    /\ issued \in [Orders -> SUBSET Nat]
    /\ rec \in RunRecords
    /\ \A s \in Slots : pc[s] # "idle" => hook[s] \in Webhooks /\ OrderOf[hook[s]] \in Orders
  BY HooksAssumption DEF IInv, TypeOK
<1> References
  BY DEF IInv
<1> USE DEF References, ConfirmedIsTruthful, OrderAt, PushRows, RunRecords, At, Goto, execVars, dbVars, erpVars
<1>1. ASSUME NEW s \in Slots, MirrorOrder(s) PROVE References'
  BY <1>1 DEF MirrorOrder
<1>2. ASSUME NEW s \in Slots, CheckPrior(s) PROVE References'
  BY <1>2 DEF CheckPrior
<1>3. ASSUME NEW s \in Slots, RecordIntent(s) PROVE References'
  BY <1>3 DEF RecordIntent
<1>4. ASSUME NEW s \in Slots, SendPost(s) PROVE References'
  <2>1. PICK p \in Requests : SendEffect(s, p)
    BY <1>4, SendPostFacts
  <2> QED
    BY <2>1 DEF SendEffect
<1>5. ASSUME NEW s \in Slots, SendFails(s) PROVE References'
  BY <1>5 DEF SendFails
<1>6. ASSUME NEW s \in Slots, ReceiveReference(s) PROVE References'
  <2>1. PICK p \in Requests : ReceiveEffect(s, p)
    BY <1>6, ReceiveReferenceFacts
  <2> QED
    BY <2>1 DEF ReceiveEffect
<1>7. ASSUME NEW s \in Slots, ReceiveRefusal(s) PROVE References'
  BY <1>7, ReceiveRefusalFacts
<1>8. ASSUME NEW s \in Slots, ReceiveBroken(s) PROVE References'
  <2>1. /\ At(s, "await") /\ HangUp(s) /\ pc' = [pc EXCEPT ![s] = "settle_failed"]
        /\ UNCHANGED <<hook, reply, dbVars, erpVars, rec>>
    BY <1>8 DEF ReceiveBroken
  <2> QED
    BY <2>1, HangUpFacts
<1>9. ASSUME NEW s \in Slots, Timeout(s) PROVE References'
  <2>1. /\ At(s, "await") /\ HangUp(s) /\ pc' = [pc EXCEPT ![s] = "settle_unknown"]
        /\ UNCHANGED <<hook, reply, dbVars, erpVars, rec>>
    BY <1>9 DEF Timeout
  <2> QED
    BY <2>1, HangUpFacts
<1>10. ASSUME NEW s \in Slots, RecordConfirmed(s) PROVE References'
  BY <1>10 DEF RecordConfirmed
<1>11. ASSUME NEW s \in Slots, ConfirmThrows(s) PROVE References'
  BY <1>11 DEF ConfirmThrows
<1>12. ASSUME NEW s \in Slots, RecordFailure(s) PROVE References'
  BY <1>12 DEF RecordFailure, Leave
<1>13. ASSUME NEW s \in Slots, RecordEvent(s) PROVE References'
  BY <1>13 DEF RecordEvent, Leave
<1>14. ASSUME NEW s \in Slots, Abandon(s) PROVE References'
  BY <1>14, HangUpFacts DEF Abandon, Leave
<1>15. ASSUME NEW s \in Slots, NEW w \in Webhooks, Start(s, w) PROVE References'
  BY <1>15 DEF Start
<1>16. ASSUME NEW p \in Requests, ErpCheck(p) PROVE References'
  BY <1>16, ErpCheckFacts
<1>17. ASSUME NEW p \in Requests, ErpAccept(p) PROVE References'
  <2>1. PICK o \in Orders : AcceptEffect(p, o)
    BY <1>17, ErpAcceptFacts
  <2>2. \A u \in Orders : received'[u] # 0 => received'[u] \in issued'[u]
    BY <2>1 DEF AcceptEffect
  <2>3. \A q \in Requests : req'[q].stage \in {"created", "duplicate"} => req'[q].ref \in issued'[req'[q].order]
    <3>1. issued'[o] = issued[o] \cup {sequence'}
      BY <2>1 DEF AcceptEffect
    <3>2. ASSUME NEW q \in Requests \ {p}, req'[q].stage \in {"created", "duplicate"}
          PROVE  req'[q].ref \in issued'[req'[q].order]
      BY <2>1, <3>2 DEF AcceptEffect
    <3>3. req'[p].stage \in {"created", "duplicate"} => req'[p].ref \in issued'[req'[p].order]
      BY <2>1, <3>1 DEF AcceptEffect
    <3> QED BY <3>2, <3>3
  <2>4. /\ UNCHANGED <<execVars, dbVars, rec>>
        /\ \A u \in Orders : issued[u] \subseteq issued'[u]
    BY <2>1 DEF AcceptEffect
  <2> QED BY <2>2, <2>3, <2>4
<1>18. ASSUME NEW p \in Requests, LoseRequest(p) PROVE References'
  BY <1>18, LoseRequestFacts
<1>19. CASE ErpRestart
  <2>1. UNCHANGED <<execVars, dbVars, issued, rec>> /\ received' = [o \in Orders |-> 0] /\ sequence' = 0
    BY <1>19, Zenon DEF ErpRestart
  <2> QED
    BY <1>19, <2>1, RestartFacts
<1>20. CASE FetchRemote
  BY <1>20 DEF FetchRemote, NoRun
<1>21. CASE Classify
  BY <1>21 DEF Classify, Verdict
<1>22. CASE EndRun
  BY <1>22 DEF EndRun, NoRun
<1>23. ASSUME NEW o \in Orders, Repair(o) PROVE References'
  BY <1>23 DEF Repair
<1>24. ASSUME NEW o \in Orders, ForceUnknown(o) PROVE References'
  BY <1>24 DEF ForceUnknown
<1>25. CASE UNCHANGED vars
  BY <1>25 DEF vars
<1>26. QED
  BY <1>1, <1>2, <1>3, <1>4, <1>5, <1>6, <1>7, <1>8, <1>9, <1>10, <1>11, <1>12, <1>13, <1>14, <1>15, <1>16, <1>17, <1>18, <1>19, <1>20, <1>21, <1>22, <1>23, <1>24, <1>25 DEF Next, Advance, Erp, Script

(* A step pushes only what is mirrored and on record. *)
LEMMA EvidenceStep ==
  IInv /\ [Next]_vars => Evidence'
<1> SUFFICES ASSUME IInv, [Next]_vars PROVE Evidence'
  OBVIOUS
<1> /\ TypeOK
    /\ RequestsOK
    /\ Wiring
    /\ pc \in [Slots -> Locations]
    /\ hook \in [Slots -> Webhooks \cup {NoHook}]
    /\ reply \in [Slots -> Nat]
    /\ push \in [Orders -> PushRows]
    /\ received \in [Orders -> Nat]
    /\ sequence \in Nat
    /\ issued \in [Orders -> SUBSET Nat]
    /\ rec \in RunRecords
    /\ \A s \in Slots : pc[s] # "idle" => hook[s] \in Webhooks /\ OrderOf[hook[s]] \in Orders
  BY HooksAssumption DEF IInv, TypeOK
<1> Evidence
  BY DEF IInv
<1> USE DEF Evidence, EvidenceOfPush, OrderAt, PushRows, RunRecords, Sending, At, Goto, execVars, dbVars, erpVars
<1>1. ASSUME NEW s \in Slots, MirrorOrder(s) PROVE Evidence'
  BY <1>1 DEF MirrorOrder
<1>2. ASSUME NEW s \in Slots, CheckPrior(s) PROVE Evidence'
  BY <1>2 DEF CheckPrior
<1>3. ASSUME NEW s \in Slots, RecordIntent(s) PROVE Evidence'
  BY <1>3 DEF RecordIntent
<1>4. ASSUME NEW s \in Slots, SendPost(s) PROVE Evidence'
  <2>1. PICK p \in Requests : SendEffect(s, p)
    BY <1>4, SendPostFacts
  <2>2. \A q \in Requests : req'[q].stage # "free" =>
          push[req'[q].order].status # "absent" /\ req'[q].order \in mirrored
    BY <2>1 DEF SendEffect
  <2>3. /\ UNCHANGED <<push, mirrored, issued, hook, rec>>
        /\ pc[s] = "post" /\ pc' = [pc EXCEPT ![s] = "await"]
    BY <2>1 DEF SendEffect
  <2> QED
    BY <2>2, <2>3
<1>5. ASSUME NEW s \in Slots, SendFails(s) PROVE Evidence'
  BY <1>5 DEF SendFails
<1>6. ASSUME NEW s \in Slots, ReceiveReference(s) PROVE Evidence'
  <2>1. PICK p \in Requests : ReceiveEffect(s, p)
    BY <1>6, ReceiveReferenceFacts
  <2>2. \A q \in Requests : req'[q].stage # "free" =>
          push[req'[q].order].status # "absent" /\ req'[q].order \in mirrored
    BY <2>1 DEF ReceiveEffect
  <2>3. /\ UNCHANGED <<push, mirrored, issued, hook, rec>>
        /\ pc[s] = "await" /\ pc' = [pc EXCEPT ![s] = "confirm"]
    BY <2>1 DEF ReceiveEffect
  <2> QED
    BY <2>2, <2>3
<1>7. ASSUME NEW s \in Slots, ReceiveRefusal(s) PROVE Evidence'
  <2>1. /\ UNCHANGED <<push, mirrored, issued, hook, rec>>
        /\ pc[s] = "await" /\ pc' = [pc EXCEPT ![s] = "settle_failed"]
    BY <1>7, ReceiveRefusalFacts
  <2>2. PICK p \in Requests : /\ req'[p].stage = "free"
                              /\ \A q \in Requests \ {p} : req'[q] = req[q]
    BY <1>7, ReceiveRefusalFacts
  <2>3. \A q \in Requests : req'[q].stage # "free" =>
          push[req'[q].order].status # "absent" /\ req'[q].order \in mirrored
    BY <2>2
  <2> QED
    BY <2>1, <2>3
<1>8. ASSUME NEW s \in Slots, ReceiveBroken(s) PROVE Evidence'
  <2>1. /\ At(s, "await") /\ HangUp(s) /\ pc' = [pc EXCEPT ![s] = "settle_failed"]
        /\ UNCHANGED <<hook, reply, dbVars, erpVars, rec>>
    BY <1>8 DEF ReceiveBroken
  <2>2. \A p \in Requests : req'[p].stage # "free" =>
          req[p].stage # "free" /\ req'[p].order = req[p].order
    BY <2>1, HangUpFacts
  <2> HIDE DEF HangUp
  <2> QED
    BY <2>1, <2>2
<1>9. ASSUME NEW s \in Slots, Timeout(s) PROVE Evidence'
  <2>1. /\ At(s, "await") /\ HangUp(s) /\ pc' = [pc EXCEPT ![s] = "settle_unknown"]
        /\ UNCHANGED <<hook, reply, dbVars, erpVars, rec>>
    BY <1>9 DEF Timeout
  <2>2. \A p \in Requests : req'[p].stage # "free" =>
          req[p].stage # "free" /\ req'[p].order = req[p].order
    BY <2>1, HangUpFacts
  <2> HIDE DEF HangUp
  <2> QED
    BY <2>1, <2>2
<1>10. ASSUME NEW s \in Slots, RecordConfirmed(s) PROVE Evidence'
  BY <1>10 DEF RecordConfirmed
<1>11. ASSUME NEW s \in Slots, ConfirmThrows(s) PROVE Evidence'
  BY <1>11 DEF ConfirmThrows
<1>12. ASSUME NEW s \in Slots, RecordFailure(s) PROVE Evidence'
  BY <1>12 DEF RecordFailure, Leave
<1>13. ASSUME NEW s \in Slots, RecordEvent(s) PROVE Evidence'
  BY <1>13 DEF RecordEvent, Leave
<1>14. ASSUME NEW s \in Slots, Abandon(s) PROVE Evidence'
  BY <1>14, HangUpFacts DEF Abandon, Leave
<1>15. ASSUME NEW s \in Slots, NEW w \in Webhooks, Start(s, w) PROVE Evidence'
  BY <1>15 DEF Start
<1>16. ASSUME NEW p \in Requests, ErpCheck(p) PROVE Evidence'
  BY <1>16, ErpCheckFacts
<1>17. ASSUME NEW p \in Requests, ErpAccept(p) PROVE Evidence'
  <2>1. PICK o \in Orders : AcceptEffect(p, o)
    BY <1>17, ErpAcceptFacts
  <2>2. push[o].status # "absent"
    BY <2>1 DEF AcceptEffect
  <2>3. UNCHANGED <<execVars, dbVars, rec>> /\ \A u \in Orders \ {o} : issued'[u] = issued[u]
    BY <2>1 DEF AcceptEffect
  <2>4. EvidenceOfPush'
    BY <2>1, <2>2, <2>3 DEF AcceptEffect
  <2> QED BY <2>3, <2>4
<1>18. ASSUME NEW p \in Requests, LoseRequest(p) PROVE Evidence'
  BY <1>18, LoseRequestFacts
<1>19. CASE ErpRestart
  <2>1. UNCHANGED <<execVars, dbVars, issued, rec>> /\ received' = [o \in Orders |-> 0] /\ sequence' = 0
    BY <1>19, Zenon DEF ErpRestart
  <2> QED
    BY <1>19, <2>1, RestartFacts
<1>20. CASE FetchRemote
  BY <1>20 DEF FetchRemote, NoRun
<1>21. CASE Classify
  BY <1>21 DEF Classify, Verdict
<1>22. CASE EndRun
  BY <1>22 DEF EndRun, NoRun
<1>23. ASSUME NEW o \in Orders, Repair(o) PROVE Evidence'
  BY <1>23 DEF Repair
<1>24. ASSUME NEW o \in Orders, ForceUnknown(o) PROVE Evidence'
  BY <1>24 DEF ForceUnknown
<1>25. CASE UNCHANGED vars
  BY <1>25 DEF vars
<1>26. QED
  BY <1>1, <1>2, <1>3, <1>4, <1>5, <1>6, <1>7, <1>8, <1>9, <1>10, <1>11, <1>12, <1>13, <1>14, <1>15, <1>16, <1>17, <1>18, <1>19, <1>20, <1>21, <1>22, <1>23, <1>24, <1>25 DEF Next, Advance, Erp, Script

(* A step records a webhook only when nothing is left to do. *)
LEMMA CompletionStep ==
  IInv /\ [Next]_vars => Completion'
<1> SUFFICES ASSUME IInv, [Next]_vars PROVE Completion'
  OBVIOUS
<1> /\ TypeOK
    /\ RequestsOK
    /\ Wiring
    /\ pc \in [Slots -> Locations]
    /\ hook \in [Slots -> Webhooks \cup {NoHook}]
    /\ reply \in [Slots -> Nat]
    /\ push \in [Orders -> PushRows]
    /\ received \in [Orders -> Nat]
    /\ sequence \in Nat
    /\ issued \in [Orders -> SUBSET Nat]
    /\ rec \in RunRecords
    /\ \A s \in Slots : pc[s] # "idle" => hook[s] \in Webhooks /\ OrderOf[hook[s]] \in Orders
  BY HooksAssumption DEF IInv, TypeOK
<1> Completion /\ References /\ Evidence
  BY DEF IInv
<1> \A w \in Webhooks : OrderOf[w] \in Orders
  BY HooksAssumption
<1> processed \subseteq Webhooks
  BY DEF IInv, TypeOK
<1> USE DEF Completion, ProcessedMeansDone, OrderAt, PushRows, At, Goto, execVars, dbVars, erpVars
<1>1. ASSUME NEW s \in Slots, MirrorOrder(s) PROVE Completion'
  BY <1>1 DEF MirrorOrder
<1>2. ASSUME NEW s \in Slots, CheckPrior(s) PROVE Completion'
  <2>1. OrderOf[hook[s]] \in Orders /\ OrderOf[hook[s]] \in mirrored
    BY <1>2 DEF CheckPrior, Evidence
  <2>2. push[OrderOf[hook[s]]].status = "confirmed" => issued[OrderOf[hook[s]]] # {}
    BY <2>1 DEF References, ConfirmedIsTruthful
  <2> QED
    BY <1>2, <2>1, <2>2 DEF CheckPrior
<1>3. ASSUME NEW s \in Slots, RecordIntent(s) PROVE Completion'
  BY <1>3 DEF RecordIntent
<1>4. ASSUME NEW s \in Slots, SendPost(s) PROVE Completion'
  <2>1. PICK p \in Requests : SendEffect(s, p)
    BY <1>4, SendPostFacts
  <2> QED
    BY <2>1 DEF SendEffect
<1>5. ASSUME NEW s \in Slots, SendFails(s) PROVE Completion'
  BY <1>5 DEF SendFails
<1>6. ASSUME NEW s \in Slots, ReceiveReference(s) PROVE Completion'
  <2>1. PICK p \in Requests : ReceiveEffect(s, p)
    BY <1>6, ReceiveReferenceFacts
  <2> QED
    BY <2>1 DEF ReceiveEffect
<1>7. ASSUME NEW s \in Slots, ReceiveRefusal(s) PROVE Completion'
  BY <1>7, ReceiveRefusalFacts
<1>8. ASSUME NEW s \in Slots, ReceiveBroken(s) PROVE Completion'
  <2>1. /\ At(s, "await") /\ HangUp(s) /\ pc' = [pc EXCEPT ![s] = "settle_failed"]
        /\ UNCHANGED <<hook, reply, dbVars, erpVars, rec>>
    BY <1>8 DEF ReceiveBroken
  <2> QED
    BY <2>1, HangUpFacts
<1>9. ASSUME NEW s \in Slots, Timeout(s) PROVE Completion'
  <2>1. /\ At(s, "await") /\ HangUp(s) /\ pc' = [pc EXCEPT ![s] = "settle_unknown"]
        /\ UNCHANGED <<hook, reply, dbVars, erpVars, rec>>
    BY <1>9 DEF Timeout
  <2> QED
    BY <2>1, HangUpFacts
<1>10. ASSUME NEW s \in Slots, RecordConfirmed(s) PROVE Completion'
  <2>1. OrderOf[hook[s]] \in Orders /\ OrderOf[hook[s]] \in mirrored
    BY <1>10 DEF RecordConfirmed, Evidence
  <2>2. issued[OrderOf[hook[s]]] # {}
    BY <1>10 DEF RecordConfirmed, References
  <2> QED
    BY <1>10, <2>1, <2>2 DEF RecordConfirmed
<1>11. ASSUME NEW s \in Slots, ConfirmThrows(s) PROVE Completion'
  BY <1>11 DEF ConfirmThrows
<1>12. ASSUME NEW s \in Slots, RecordFailure(s) PROVE Completion'
  BY <1>12 DEF RecordFailure, Leave
<1>13. ASSUME NEW s \in Slots, RecordEvent(s) PROVE Completion'
  BY <1>13 DEF RecordEvent, Leave
<1>14. ASSUME NEW s \in Slots, Abandon(s) PROVE Completion'
  BY <1>14, HangUpFacts DEF Abandon, Leave
<1>15. ASSUME NEW s \in Slots, NEW w \in Webhooks, Start(s, w) PROVE Completion'
  BY <1>15 DEF Start
<1>16. ASSUME NEW p \in Requests, ErpCheck(p) PROVE Completion'
  BY <1>16, ErpCheckFacts
<1>17. ASSUME NEW p \in Requests, ErpAccept(p) PROVE Completion'
  <2>1. PICK o \in Orders : AcceptEffect(p, o)
    BY <1>17, ErpAcceptFacts
  <2> QED
    BY <2>1 DEF AcceptEffect
<1>18. ASSUME NEW p \in Requests, LoseRequest(p) PROVE Completion'
  BY <1>18, LoseRequestFacts
<1>19. CASE ErpRestart
  <2>1. UNCHANGED <<execVars, dbVars, issued, rec>> /\ received' = [o \in Orders |-> 0] /\ sequence' = 0
    BY <1>19, Zenon DEF ErpRestart
  <2> QED
    BY <1>19, <2>1, RestartFacts
<1>20. CASE FetchRemote
  BY <1>20 DEF FetchRemote, NoRun
<1>21. CASE Classify
  BY <1>21 DEF Classify, Verdict
<1>22. CASE EndRun
  BY <1>22 DEF EndRun, NoRun
<1>23. ASSUME NEW o \in Orders, Repair(o) PROVE Completion'
  BY <1>23 DEF Repair
<1>24. ASSUME NEW o \in Orders, ForceUnknown(o) PROVE Completion'
  BY <1>24 DEF ForceUnknown
<1>25. CASE UNCHANGED vars
  BY <1>25 DEF vars
<1>26. QED
  BY <1>1, <1>2, <1>3, <1>4, <1>5, <1>6, <1>7, <1>8, <1>9, <1>10, <1>11, <1>12, <1>13, <1>14, <1>15, <1>16, <1>17, <1>18, <1>19, <1>20, <1>21, <1>22, <1>23, <1>24, <1>25 DEF Next, Advance, Erp, Script

(* A step keeps blocked orders away from the push. *)
LEMMA LocalityStep ==
  IInv /\ [Next]_vars => Locality'
<1> SUFFICES ASSUME IInv, [Next]_vars PROVE Locality'
  OBVIOUS
<1> /\ TypeOK
    /\ RequestsOK
    /\ Wiring
    /\ pc \in [Slots -> Locations]
    /\ hook \in [Slots -> Webhooks \cup {NoHook}]
    /\ reply \in [Slots -> Nat]
    /\ push \in [Orders -> PushRows]
    /\ received \in [Orders -> Nat]
    /\ sequence \in Nat
    /\ issued \in [Orders -> SUBSET Nat]
    /\ rec \in RunRecords
    /\ \A s \in Slots : pc[s] # "idle" => hook[s] \in Webhooks /\ OrderOf[hook[s]] \in Orders
  BY HooksAssumption DEF IInv, TypeOK
<1> Locality
  BY DEF IInv
<1> Blocked \subseteq Orders
  BY TestOrdersAssumption DEF Blocked
<1> USE DEF Locality, Pushing, Sending, OrderAt, PushRows, RunRecords, At, Goto, execVars, dbVars, erpVars
<1>1. ASSUME NEW s \in Slots, MirrorOrder(s) PROVE Locality'
  BY <1>1 DEF MirrorOrder
<1>2. ASSUME NEW s \in Slots, CheckPrior(s) PROVE Locality'
  BY <1>2 DEF CheckPrior
<1>3. ASSUME NEW s \in Slots, RecordIntent(s) PROVE Locality'
  BY <1>3 DEF RecordIntent
<1>4. ASSUME NEW s \in Slots, SendPost(s) PROVE Locality'
  <2>1. PICK p \in Requests : SendEffect(s, p)
    BY <1>4, SendPostFacts
  <2> QED
    BY <2>1 DEF SendEffect
<1>5. ASSUME NEW s \in Slots, SendFails(s) PROVE Locality'
  BY <1>5 DEF SendFails
<1>6. ASSUME NEW s \in Slots, ReceiveReference(s) PROVE Locality'
  <2>1. PICK p \in Requests : ReceiveEffect(s, p)
    BY <1>6, ReceiveReferenceFacts
  <2> QED
    BY <2>1 DEF ReceiveEffect
<1>7. ASSUME NEW s \in Slots, ReceiveRefusal(s) PROVE Locality'
  BY <1>7, ReceiveRefusalFacts
<1>8. ASSUME NEW s \in Slots, ReceiveBroken(s) PROVE Locality'
  <2>1. /\ At(s, "await") /\ HangUp(s) /\ pc' = [pc EXCEPT ![s] = "settle_failed"]
        /\ UNCHANGED <<hook, reply, dbVars, erpVars, rec>>
    BY <1>8 DEF ReceiveBroken
  <2> QED
    BY <2>1, HangUpFacts
<1>9. ASSUME NEW s \in Slots, Timeout(s) PROVE Locality'
  <2>1. /\ At(s, "await") /\ HangUp(s) /\ pc' = [pc EXCEPT ![s] = "settle_unknown"]
        /\ UNCHANGED <<hook, reply, dbVars, erpVars, rec>>
    BY <1>9 DEF Timeout
  <2> QED
    BY <2>1, HangUpFacts
<1>10. ASSUME NEW s \in Slots, RecordConfirmed(s) PROVE Locality'
  BY <1>10 DEF RecordConfirmed
<1>11. ASSUME NEW s \in Slots, ConfirmThrows(s) PROVE Locality'
  BY <1>11 DEF ConfirmThrows
<1>12. ASSUME NEW s \in Slots, RecordFailure(s) PROVE Locality'
  BY <1>12 DEF RecordFailure, Leave
<1>13. ASSUME NEW s \in Slots, RecordEvent(s) PROVE Locality'
  BY <1>13 DEF RecordEvent, Leave
<1>14. ASSUME NEW s \in Slots, Abandon(s) PROVE Locality'
  BY <1>14, HangUpFacts DEF Abandon, Leave
<1>15. ASSUME NEW s \in Slots, NEW w \in Webhooks, Start(s, w) PROVE Locality'
  BY <1>15 DEF Start
<1>16. ASSUME NEW p \in Requests, ErpCheck(p) PROVE Locality'
  BY <1>16, ErpCheckFacts
<1>17. ASSUME NEW p \in Requests, ErpAccept(p) PROVE Locality'
  <2>1. PICK o \in Orders : AcceptEffect(p, o)
    BY <1>17, ErpAcceptFacts
  <2> QED
    BY <2>1 DEF AcceptEffect
<1>18. ASSUME NEW p \in Requests, LoseRequest(p) PROVE Locality'
  BY <1>18, LoseRequestFacts
<1>19. CASE ErpRestart
  <2>1. UNCHANGED <<execVars, dbVars, issued, rec>> /\ received' = [o \in Orders |-> 0] /\ sequence' = 0
    BY <1>19, Zenon DEF ErpRestart
  <2> QED
    BY <1>19, <2>1, RestartFacts
<1>20. CASE FetchRemote
  BY <1>20 DEF FetchRemote, NoRun
<1>21. CASE Classify
  BY <1>21 DEF Classify, Verdict
<1>22. CASE EndRun
  BY <1>22 DEF EndRun, NoRun
<1>23. ASSUME NEW o \in Orders, Repair(o) PROVE Locality'
  <2>1. push[o].status # "absent"
    BY <1>23 DEF Repair, IInv, Evidence
  <2> QED
    BY <1>23, <2>1 DEF Repair
<1>24. ASSUME NEW o \in Orders, ForceUnknown(o) PROVE Locality'
  BY <1>24 DEF ForceUnknown
<1>25. CASE UNCHANGED vars
  BY <1>25 DEF vars
<1>26. QED
  BY <1>1, <1>2, <1>3, <1>4, <1>5, <1>6, <1>7, <1>8, <1>9, <1>10, <1>11, <1>12, <1>13, <1>14, <1>15, <1>16, <1>17, <1>18, <1>19, <1>20, <1>21, <1>22, <1>23, <1>24, <1>25 DEF Next, Advance, Erp, Script

(* A step gives no reference to two orders. *)
LEMMA NumberingStep ==
  IInv /\ [Next]_vars => Numbering'
<1> SUFFICES ASSUME IInv, [Next]_vars PROVE Numbering'
  OBVIOUS
<1> /\ TypeOK
    /\ RequestsOK
    /\ Wiring
    /\ pc \in [Slots -> Locations]
    /\ hook \in [Slots -> Webhooks \cup {NoHook}]
    /\ reply \in [Slots -> Nat]
    /\ push \in [Orders -> PushRows]
    /\ received \in [Orders -> Nat]
    /\ sequence \in Nat
    /\ issued \in [Orders -> SUBSET Nat]
    /\ rec \in RunRecords
    /\ \A s \in Slots : pc[s] # "idle" => hook[s] \in Webhooks /\ OrderOf[hook[s]] \in Orders
  BY HooksAssumption DEF IInv, TypeOK
<1> Numbering
  BY DEF IInv
<1> USE DEF Numbering, ReferencesAreUnique, At, Goto, execVars, dbVars, erpVars
<1>1. ASSUME NEW s \in Slots, MirrorOrder(s) PROVE Numbering'
  BY <1>1 DEF MirrorOrder
<1>2. ASSUME NEW s \in Slots, CheckPrior(s) PROVE Numbering'
  BY <1>2 DEF CheckPrior
<1>3. ASSUME NEW s \in Slots, RecordIntent(s) PROVE Numbering'
  BY <1>3 DEF RecordIntent
<1>4. ASSUME NEW s \in Slots, SendPost(s) PROVE Numbering'
  <2>1. PICK p \in Requests : SendEffect(s, p)
    BY <1>4, SendPostFacts
  <2> QED
    BY <2>1 DEF SendEffect
<1>5. ASSUME NEW s \in Slots, SendFails(s) PROVE Numbering'
  BY <1>5 DEF SendFails
<1>6. ASSUME NEW s \in Slots, ReceiveReference(s) PROVE Numbering'
  <2>1. PICK p \in Requests : ReceiveEffect(s, p)
    BY <1>6, ReceiveReferenceFacts
  <2> QED
    BY <2>1 DEF ReceiveEffect
<1>7. ASSUME NEW s \in Slots, ReceiveRefusal(s) PROVE Numbering'
  BY <1>7, ReceiveRefusalFacts
<1>8. ASSUME NEW s \in Slots, ReceiveBroken(s) PROVE Numbering'
  <2>1. /\ At(s, "await") /\ HangUp(s) /\ pc' = [pc EXCEPT ![s] = "settle_failed"]
        /\ UNCHANGED <<hook, reply, dbVars, erpVars, rec>>
    BY <1>8 DEF ReceiveBroken
  <2> QED
    BY <2>1, HangUpFacts
<1>9. ASSUME NEW s \in Slots, Timeout(s) PROVE Numbering'
  <2>1. /\ At(s, "await") /\ HangUp(s) /\ pc' = [pc EXCEPT ![s] = "settle_unknown"]
        /\ UNCHANGED <<hook, reply, dbVars, erpVars, rec>>
    BY <1>9 DEF Timeout
  <2> QED
    BY <2>1, HangUpFacts
<1>10. ASSUME NEW s \in Slots, RecordConfirmed(s) PROVE Numbering'
  BY <1>10 DEF RecordConfirmed
<1>11. ASSUME NEW s \in Slots, ConfirmThrows(s) PROVE Numbering'
  BY <1>11 DEF ConfirmThrows
<1>12. ASSUME NEW s \in Slots, RecordFailure(s) PROVE Numbering'
  BY <1>12 DEF RecordFailure, Leave
<1>13. ASSUME NEW s \in Slots, RecordEvent(s) PROVE Numbering'
  BY <1>13 DEF RecordEvent, Leave
<1>14. ASSUME NEW s \in Slots, Abandon(s) PROVE Numbering'
  BY <1>14, HangUpFacts DEF Abandon, Leave
<1>15. ASSUME NEW s \in Slots, NEW w \in Webhooks, Start(s, w) PROVE Numbering'
  BY <1>15 DEF Start
<1>16. ASSUME NEW p \in Requests, ErpCheck(p) PROVE Numbering'
  BY <1>16, ErpCheckFacts
<1>17. ASSUME NEW p \in Requests, ErpAccept(p) PROVE Numbering'
  <2>1. PICK o \in Orders : AcceptEffect(p, o)
    BY <1>17, ErpAcceptFacts
  <2> QED
    BY <2>1 DEF AcceptEffect
<1>18. ASSUME NEW p \in Requests, LoseRequest(p) PROVE Numbering'
  BY <1>18, LoseRequestFacts
<1>19. CASE ErpRestart
  <2>1. UNCHANGED <<execVars, dbVars, issued, rec>> /\ received' = [o \in Orders |-> 0] /\ sequence' = 0
    BY <1>19, Zenon DEF ErpRestart
  <2> QED
    BY <1>19, <2>1, RestartFacts
<1>20. CASE FetchRemote
  BY <1>20 DEF FetchRemote, NoRun
<1>21. CASE Classify
  BY <1>21 DEF Classify, Verdict
<1>22. CASE EndRun
  BY <1>22 DEF EndRun, NoRun
<1>23. ASSUME NEW o \in Orders, Repair(o) PROVE Numbering'
  BY <1>23 DEF Repair
<1>24. ASSUME NEW o \in Orders, ForceUnknown(o) PROVE Numbering'
  BY <1>24 DEF ForceUnknown
<1>25. CASE UNCHANGED vars
  BY <1>25 DEF vars
<1>26. QED
  BY <1>1, <1>2, <1>3, <1>4, <1>5, <1>6, <1>7, <1>8, <1>9, <1>10, <1>11, <1>12, <1>13, <1>14, <1>15, <1>16, <1>17, <1>18, <1>19, <1>20, <1>21, <1>22, <1>23, <1>24, <1>25 DEF Next, Advance, Erp, Script

-----------------------------------------------------------------------------
(* The theorems.                                                           *)

(* Every reachable state satisfies the inductive invariant.                *)
THEOREM Invariance == Spec => []IInv
<1>1. IInv /\ [Next]_vars => IInv'
  BY TypeStep, WiringStep, ReferencesStep, EvidenceStep, CompletionStep, LocalityStep,
     NumberingStep DEF IInv
<1> QED
  BY InitIInv, <1>1, PTL DEF Spec

(* The variables keep their types, and a busy slot always has its webhook. *)
THEOREM TypeCorrect == Spec => []TypeOK
<1>1. IInv => TypeOK
  BY DEF IInv
<1> QED
  BY Invariance, <1>1, PTL

(* `confirmed` is never written, by a handler or by a repair, with a       *)
(* reference the ERP did not create for that order.                        *)
THEOREM ConfirmedAlwaysTruthful == Spec => []ConfirmedIsTruthful
<1>1. IInv => ConfirmedIsTruthful
  BY DEF IInv, References
<1> QED
  BY Invariance, <1>1, PTL

(* No crash, timeout or ERP restart leaves the ERP with an order, or with  *)
(* a request for one, that the database has no row for.                    *)
THEOREM EvidenceAlwaysFirst == Spec => []EvidenceOfPush
<1>1. IInv => EvidenceOfPush
  BY DEF IInv, Evidence
<1> QED
  BY Invariance, <1>1, PTL

(* A webhook that will not be run again has had its effect.                *)
THEOREM ProcessedAlwaysDone == Spec => []ProcessedMeansDone
<1>1. IInv => ProcessedMeansDone
  BY DEF IInv, Completion
<1> QED
  BY Invariance, <1>1, PTL

(* No interleaving takes a blocked test order to the ERP.                  *)
THEOREM TestOrdersAlwaysLocal == Spec => []TestOrdersStayLocal
<1>1. ASSUME IInv PROVE TestOrdersStayLocal
  <2>1. ASSUME NEW o \in Blocked PROVE push[o].status = "absent" /\ o \in Orders
    BY <1>1, TestOrdersAssumption DEF IInv, Locality, Blocked
  <2>2. ASSUME NEW o \in Blocked PROVE issued[o] = {}
    BY <1>1, <2>1 DEF IInv, Evidence, EvidenceOfPush
  <2>3. ASSUME NEW o \in Blocked, NEW p \in Requests PROVE req[p].order # o
    <3>1. CASE req[p].stage # "free"
      BY <1>1, <2>1, <3>1 DEF IInv, Evidence, EvidenceOfPush
    <3>2. CASE req[p].stage = "free"
      <4>1. req[p] = NoReq
        BY <1>1, <3>2 DEF IInv, TypeOK, RequestsOK
      <4>2. req[p].order = NoOrder
        BY <4>1 DEF NoReq
      <4> QED
        BY <2>1, <4>2, NamesAssumption
    <3> QED
      BY <3>1, <3>2
  <2> QED
    BY <2>1, <2>2, <2>3 DEF TestOrdersStayLocal
<1> QED
  BY Invariance, <1>1, PTL

(* Orders the ERP holds at the same time have different references.        *)
THEOREM ReferencesAlwaysUnique == Spec => []ReferencesAreUnique
<1>1. IInv => ReferencesAreUnique
  BY DEF IInv, Numbering
<1> QED
  BY Invariance, <1>1, PTL

-----------------------------------------------------------------------------
(* The pipeline implements the ledger.                                     *)

\* What the ledger's variables stand for.
OnRecord == {o \in Orders : push[o].status # "absent"}
Accepted == {o \in Orders : issued[o] # {}}
Claimed  == {o \in Orders : push[o].status = "confirmed"}

(* A write to one push row is one ledger step: the row appears, is claimed *)
(* or disclaimed, or nothing the ledger sees changes.                      *)
LEMMA RowWrite ==
  ASSUME NEW o \in Orders, push \in [Orders -> PushRows], push' \in [Orders -> PushRows],
         \A u \in Orders \ {o} : push'[u] = push[u],
         push'[o].status # "absent",
         push'[o].status = "confirmed" => push[o].status # "absent" /\ issued[o] # {},
         issued' = issued, processed' = processed
  PROVE  [Ledger!Next]_(Ledger!vars)
<1> USE DEF OnRecord, Accepted, Claimed
<1>1. Accepted' = Accepted
  OBVIOUS
<1>2. OnRecord' = OnRecord \cup {o}
  OBVIOUS
<1>3. Claimed' = IF push'[o].status = "confirmed" THEN Claimed \cup {o} ELSE Claimed \ {o}
  <2>1. CASE push'[o].status = "confirmed"
    BY <2>1
  <2>2. CASE push'[o].status # "confirmed"
    BY <2>2
  <2> QED
    BY <2>1, <2>2
<1>4. CASE push[o].status = "absent"
  <2>1. o \notin OnRecord /\ Claimed' = Claimed
    BY <1>3, <1>4
  <2>2. Ledger!Record(o)
    BY <1>1, <1>2, <2>1 DEF Ledger!Record
  <2> QED
    BY <2>2 DEF Ledger!Next
<1>5. CASE push[o].status # "absent" /\ push'[o].status = "confirmed" /\ o \notin Claimed
  <2>1. Ledger!Claim(o)
    BY <1>1, <1>2, <1>3, <1>5 DEF Ledger!Claim
  <2> QED
    BY <2>1 DEF Ledger!Next
<1>6. CASE push[o].status # "absent" /\ push'[o].status # "confirmed" /\ o \in Claimed
  <2>1. Ledger!Disclaim(o)
    BY <1>1, <1>2, <1>3, <1>6 DEF Ledger!Disclaim
  <2> QED
    BY <2>1 DEF Ledger!Next
<1>7. CASE push[o].status # "absent" /\ (push'[o].status = "confirmed" <=> o \in Claimed)
  <2>1. OnRecord' = OnRecord /\ Claimed' = Claimed
    BY <1>2, <1>3, <1>7
  <2> QED
    BY <1>1, <2>1 DEF Ledger!vars
<1> QED
  BY <1>4, <1>5, <1>6, <1>7

(* Every step of the pipeline is a step of the ledger, or none. *)
LEMMA LedgerStep ==
  IInv /\ [Next]_vars => [Ledger!Next]_(Ledger!vars)
<1> SUFFICES ASSUME IInv, [Next]_vars PROVE [Ledger!Next]_(Ledger!vars)
  OBVIOUS
<1> /\ TypeOK
    /\ RequestsOK
    /\ Wiring
    /\ pc \in [Slots -> Locations]
    /\ hook \in [Slots -> Webhooks \cup {NoHook}]
    /\ reply \in [Slots -> Nat]
    /\ push \in [Orders -> PushRows]
    /\ received \in [Orders -> Nat]
    /\ sequence \in Nat
    /\ issued \in [Orders -> SUBSET Nat]
    /\ rec \in RunRecords
    /\ \A s \in Slots : pc[s] # "idle" => hook[s] \in Webhooks /\ OrderOf[hook[s]] \in Orders
  BY HooksAssumption DEF IInv, TypeOK
<1> USE DEF execVars, dbVars, erpVars, At
<1>1. ASSUME NEW s \in Slots, MirrorOrder(s) PROVE [Ledger!Next]_(Ledger!vars)
  <2>1. push' = push /\ issued' = issued /\ processed' = processed
    BY <1>1 DEF MirrorOrder
  <2> QED
    BY <2>1 DEF Ledger!vars
<1>2. ASSUME NEW s \in Slots, CheckPrior(s) PROVE [Ledger!Next]_(Ledger!vars)
  <2>1. push' = push /\ issued' = issued /\ processed' = processed
    BY <1>2 DEF CheckPrior
  <2> QED
    BY <2>1 DEF Ledger!vars
<1>3. ASSUME NEW s \in Slots, RecordIntent(s) PROVE [Ledger!Next]_(Ledger!vars)
  <2>1. OrderAt(s) \in Orders
    BY <1>3, OrderAtType DEF RecordIntent
  <2>2. /\ push' \in [Orders -> PushRows]
        /\ \A u \in Orders \ {OrderAt(s)} : push'[u] = push[u]
        /\ push'[OrderAt(s)].status = "attempting"
        /\ issued' = issued /\ processed' = processed
    BY <1>3, <2>1 DEF RecordIntent, PushRows, Statuses
  <2> QED
    BY <2>1, <2>2, RowWrite
<1>4. ASSUME NEW s \in Slots, SendPost(s) PROVE [Ledger!Next]_(Ledger!vars)
  <2>1. push' = push /\ issued' = issued /\ processed' = processed
    BY <1>4 DEF SendPost
  <2> QED
    BY <2>1 DEF Ledger!vars
<1>5. ASSUME NEW s \in Slots, SendFails(s) PROVE [Ledger!Next]_(Ledger!vars)
  <2>1. push' = push /\ issued' = issued /\ processed' = processed
    BY <1>5 DEF SendFails
  <2> QED
    BY <2>1 DEF Ledger!vars
<1>6. ASSUME NEW s \in Slots, ReceiveReference(s) PROVE [Ledger!Next]_(Ledger!vars)
  <2>1. push' = push /\ issued' = issued /\ processed' = processed
    BY <1>6 DEF ReceiveReference
  <2> QED
    BY <2>1 DEF Ledger!vars
<1>7. ASSUME NEW s \in Slots, ReceiveRefusal(s) PROVE [Ledger!Next]_(Ledger!vars)
  <2>1. push' = push /\ issued' = issued /\ processed' = processed
    BY <1>7 DEF ReceiveRefusal
  <2> QED
    BY <2>1 DEF Ledger!vars
<1>8. ASSUME NEW s \in Slots, ReceiveBroken(s) PROVE [Ledger!Next]_(Ledger!vars)
  <2>1. push' = push /\ issued' = issued /\ processed' = processed
    BY <1>8 DEF ReceiveBroken
  <2> QED
    BY <2>1 DEF Ledger!vars
<1>9. ASSUME NEW s \in Slots, Timeout(s) PROVE [Ledger!Next]_(Ledger!vars)
  <2>1. push' = push /\ issued' = issued /\ processed' = processed
    BY <1>9 DEF Timeout
  <2> QED
    BY <2>1 DEF Ledger!vars
<1>10. ASSUME NEW s \in Slots, RecordConfirmed(s) PROVE [Ledger!Next]_(Ledger!vars)
  <2>1. /\ OrderAt(s) \in Orders
        /\ push[OrderAt(s)].status # "absent"
        /\ issued[OrderAt(s)] # {}
    BY <1>10, OrderAtType DEF RecordConfirmed, IInv, References, Evidence, Sending
  <2>2. /\ push' \in [Orders -> PushRows]
        /\ \A u \in Orders \ {OrderAt(s)} : push'[u] = push[u]
        /\ push'[OrderAt(s)].status = "confirmed"
        /\ issued' = issued /\ processed' = processed
    BY <1>10, <2>1 DEF RecordConfirmed, PushRows, Statuses
  <2> QED
    BY <2>1, <2>2, RowWrite
<1>11. ASSUME NEW s \in Slots, ConfirmThrows(s) PROVE [Ledger!Next]_(Ledger!vars)
  <2>1. push' = push /\ issued' = issued /\ processed' = processed
    BY <1>11 DEF ConfirmThrows
  <2> QED
    BY <2>1 DEF Ledger!vars
<1>12. ASSUME NEW s \in Slots, RecordFailure(s) PROVE [Ledger!Next]_(Ledger!vars)
  <2>1. OrderAt(s) \in Orders
    BY <1>12, OrderAtType DEF RecordFailure
  <2>2. PICK st \in {"unknown", "failed"} : push' = [push EXCEPT ![OrderAt(s)].status = st]
    BY <1>12 DEF RecordFailure
  <2>3. /\ push' \in [Orders -> PushRows]
        /\ \A u \in Orders \ {OrderAt(s)} : push'[u] = push[u]
        /\ push'[OrderAt(s)].status \in {"unknown", "failed"}
    BY <2>1, <2>2 DEF PushRows, Statuses
  <2>4. issued' = issued /\ processed' = processed
    BY <1>12 DEF RecordFailure
  <2> QED
    BY <2>1, <2>3, <2>4, RowWrite
<1>13. ASSUME NEW s \in Slots, RecordEvent(s) PROVE [Ledger!Next]_(Ledger!vars)
  <2>1. /\ hook[s] \in Webhooks /\ OrderAt(s) \in Orders /\ pc[s] = "record"
        /\ push' = push /\ issued' = issued
    BY <1>13, OrderAtType DEF RecordEvent
  <2>2. OrderAt(s) \in Accepted \cup Blocked
    BY <2>1 DEF IInv, Completion, Accepted
  <2>3. CASE processed' = processed
    BY <2>1, <2>3 DEF Ledger!vars
  <2>4. CASE processed' = processed \cup {hook[s]}
    <3>1. Ledger!Settle(hook[s])
      BY <2>1, <2>2, <2>4 DEF Ledger!Settle, Accepted, OrderAt
    <3> QED
      BY <2>1, <3>1 DEF Ledger!Next
  <2> QED
    BY <1>13, <2>3, <2>4 DEF RecordEvent
<1>14. ASSUME NEW s \in Slots, Abandon(s) PROVE [Ledger!Next]_(Ledger!vars)
  <2>1. push' = push /\ issued' = issued /\ processed' = processed
    BY <1>14 DEF Abandon
  <2> QED
    BY <2>1 DEF Ledger!vars
<1>15. ASSUME NEW s \in Slots, NEW w \in Webhooks, Start(s, w) PROVE [Ledger!Next]_(Ledger!vars)
  <2>1. push' = push /\ issued' = issued /\ processed' = processed
    BY <1>15 DEF Start
  <2> QED
    BY <2>1 DEF Ledger!vars
<1>16. ASSUME NEW p \in Requests, ErpCheck(p) PROVE [Ledger!Next]_(Ledger!vars)
  <2>1. push' = push /\ issued' = issued /\ processed' = processed
    BY <1>16 DEF ErpCheck
  <2> QED
    BY <2>1 DEF Ledger!vars
<1>17. ASSUME NEW p \in Requests, ErpAccept(p) PROVE [Ledger!Next]_(Ledger!vars)
  <2>0. PICK o \in Orders : o = req[p].order
    BY <1>17 DEF ErpAccept, RequestsOK, NoReq
  <2>1. /\ o \in Orders
        /\ push[o].status # "absent"
    BY <1>17, <2>0 DEF ErpAccept, IInv, Evidence, EvidenceOfPush, RequestsOK, NoReq
  <2>2. push' = push /\ processed' = processed
    BY <1>17 DEF ErpAccept
  <2>3. issued' = [issued EXCEPT ![o] = issued[o] \cup {sequence'}]
    BY <1>17, <2>0 DEF ErpAccept
  <2>4. Accepted' = Accepted \cup {o} /\ OnRecord' = OnRecord /\ Claimed' = Claimed /\ o \in OnRecord
    BY <2>1, <2>2, <2>3 DEF Accepted, OnRecord, Claimed
  <2>5. CASE o \in Accepted
    <3>1. Accepted' = Accepted
      BY <2>4, <2>5
    <3> QED
      BY <2>2, <2>4, <3>1 DEF Ledger!vars, Accepted, OnRecord, Claimed
  <2>6. CASE o \notin Accepted
    <3>1. Ledger!Accept(o)
      BY <2>2, <2>4, <2>6 DEF Ledger!Accept, Accepted, OnRecord, Claimed
    <3> QED
      BY <2>1, <3>1 DEF Ledger!Next
  <2> QED
    BY <2>5, <2>6
<1>18. ASSUME NEW p \in Requests, LoseRequest(p) PROVE [Ledger!Next]_(Ledger!vars)
  <2>1. push' = push /\ issued' = issued /\ processed' = processed
    BY <1>18 DEF LoseRequest
  <2> QED
    BY <2>1 DEF Ledger!vars
<1>19. CASE ErpRestart
  <2>1. push' = push /\ issued' = issued /\ processed' = processed
    BY <1>19, Zenon DEF ErpRestart
  <2> QED
    BY <2>1 DEF Ledger!vars
<1>20. CASE FetchRemote
  <2>1. push' = push /\ issued' = issued /\ processed' = processed
    BY <1>20 DEF FetchRemote
  <2> QED
    BY <2>1 DEF Ledger!vars
<1>21. CASE Classify
  <2>1. push' = push /\ issued' = issued /\ processed' = processed
    BY <1>21 DEF Classify
  <2> QED
    BY <2>1 DEF Ledger!vars
<1>22. CASE EndRun
  <2>1. push' = push /\ issued' = issued /\ processed' = processed
    BY <1>22 DEF EndRun
  <2> QED
    BY <2>1 DEF Ledger!vars
<1>23. ASSUME NEW o \in Orders, Repair(o) PROVE [Ledger!Next]_(Ledger!vars)
  <2>1. push[o].status # "absent" /\ issued[o] # {}
    BY <1>23 DEF Repair, IInv, References, Evidence
  <2>2. /\ push' \in [Orders -> PushRows]
        /\ \A u \in Orders \ {o} : push'[u] = push[u]
        /\ push'[o].status = "confirmed"
        /\ issued' = issued /\ processed' = processed
    BY <1>23, <2>1 DEF Repair, PushRows, Statuses, RunRecords
  <2> QED
    BY <2>1, <2>2, RowWrite
<1>24. ASSUME NEW o \in Orders, ForceUnknown(o) PROVE [Ledger!Next]_(Ledger!vars)
  <2>1. /\ push' \in [Orders -> PushRows]
        /\ \A u \in Orders \ {o} : push'[u] = push[u]
        /\ push'[o].status = "unknown"
        /\ issued' = issued /\ processed' = processed
    BY <1>24 DEF ForceUnknown, PushRows, Statuses
  <2> QED
    BY <2>1, RowWrite
<1>25. CASE UNCHANGED vars
  <2>1. push' = push /\ issued' = issued /\ processed' = processed
    BY <1>25 DEF vars
  <2> QED
    BY <2>1 DEF Ledger!vars
<1>26. QED
  BY <1>1, <1>2, <1>3, <1>4, <1>5, <1>6, <1>7, <1>8, <1>9, <1>10, <1>11, <1>12, <1>13, <1>14, <1>15, <1>16, <1>17, <1>18, <1>19, <1>20, <1>21, <1>22, <1>23, <1>24, <1>25 DEF Next, Advance, Erp, Script

(* The pipeline implements the ledger: nothing a reader of the rows could  *)
(* see breaks the promise, in any interleaving, crash or restart.          *)
THEOREM PipelineImplementsLedger == Spec => Ledger!Spec
<1>1. Init => Ledger!Init
  BY DEF Init, Ledger!Init, NoRow
<1>2. IInv /\ [Next]_vars => [Ledger!Next]_(Ledger!vars)
  BY LedgerStep
<1> QED
  BY Invariance, <1>1, <1>2, PTL DEF Spec, Ledger!Spec

=============================================================================
