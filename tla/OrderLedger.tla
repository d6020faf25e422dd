---------------------------- MODULE OrderLedger ----------------------------
(***************************************************************************)
(* What the order pipeline promises, with everything it does to keep the   *)
(* promise left out: an order is on record before the ERP can have it, a   *)
(* webhook is settled only when its order needs nothing more, and neither  *)
(* record is ever taken back.  OrderPush implements it.                    *)
(***************************************************************************)
CONSTANTS Orders, Webhooks, OrderOf, Blocked

VARIABLES
  onRecord,   \* orders with a push row: evidence that a push may have happened
  accepted,   \* orders the ERP has accepted at least once
  claimed,    \* orders recorded as confirmed
  settled     \* webhooks recorded as processed

vars == <<onRecord, accepted, claimed, settled>>

Init == onRecord = {} /\ accepted = {} /\ claimed = {} /\ settled = {}

Record(o) ==
  /\ o \notin onRecord
  /\ onRecord' = onRecord \cup {o}
  /\ UNCHANGED <<accepted, claimed, settled>>

Accept(o) ==
  /\ o \in onRecord \ accepted
  /\ accepted' = accepted \cup {o}
  /\ UNCHANGED <<onRecord, claimed, settled>>

\* Only an accepted order is claimed; a claim may be dropped again.
Claim(o) ==
  /\ o \in accepted \ claimed
  /\ claimed' = claimed \cup {o}
  /\ UNCHANGED <<onRecord, accepted, settled>>

Disclaim(o) ==
  /\ o \in claimed
  /\ claimed' = claimed \ {o}
  /\ UNCHANGED <<onRecord, accepted, settled>>

Settle(w) ==
  /\ OrderOf[w] \in accepted \cup Blocked
  /\ settled' = settled \cup {w}
  /\ UNCHANGED <<onRecord, accepted, claimed>>

Next ==
  \/ \E o \in Orders : Record(o) \/ Accept(o) \/ Claim(o) \/ Disclaim(o)
  \/ \E w \in Webhooks : Settle(w)

Spec == Init /\ [][Next]_vars
=============================================================================
