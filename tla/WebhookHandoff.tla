--------------------------- MODULE WebhookHandoff ---------------------------
(***************************************************************************)
(* What the queue promises the receiver before it and the handlers behind  *)
(* it, with jobs, locks, attempts and retention left out: a webhook that   *)
(* was received is kept until it has been served or is dropped openly, and *)
(* is given to one worker at a time.  WebhookQueue implements it.          *)
(***************************************************************************)
CONSTANTS Webhooks, Workers, Nothing

VARIABLES
  received,   \* webhooks Shopify has delivered
  kept,       \* webhooks the queue still has
  promised,   \* webhooks Shopify believes delivered
  served,     \* webhooks handled to the end at least once
  dropped,    \* webhooks given up, and not received again since
  working     \* the webhook each worker has been given

vars == <<received, kept, promised, served, dropped, working>>

Init ==
  /\ received = {} /\ kept = {} /\ promised = {} /\ served = {} /\ dropped = {}
  /\ working = [v \in Workers |-> Nothing]

Receive(w) ==
  /\ received' = received \cup {w}
  /\ kept' = kept \cup {w}
  /\ dropped' = dropped \ {w}
  /\ UNCHANGED <<promised, served, working>>

Promise(w) ==
  /\ w \in kept \cup served \cup dropped
  /\ promised' = promised \cup {w}
  /\ UNCHANGED <<received, kept, served, dropped, working>>

\* A webhook is given to one worker only.
Give(w, v) ==
  /\ w \in kept /\ working[v] = Nothing /\ \A u \in Workers : working[u] # w
  /\ working' = [working EXCEPT ![v] = w]
  /\ UNCHANGED <<received, kept, promised, served, dropped>>

\* Also a worker from which it has been taken may get to the end of it.
Serve(w) ==
  /\ w \in received
  /\ served' = served \cup {w}
  /\ UNCHANGED <<received, kept, promised, dropped, working>>

\* The worker is through with it, or it is taken from the worker.
TakeBack(v) ==
  /\ working[v] # Nothing
  /\ working' = [working EXCEPT ![v] = Nothing]
  /\ UNCHANGED <<received, kept, promised, served, dropped>>

\* Only what has been served is forgotten.
Forget(w) ==
  /\ w \in kept \cap served /\ \A u \in Workers : working[u] # w
  /\ kept' = kept \ {w}
  /\ UNCHANGED <<received, promised, served, dropped, working>>

Drop(W) ==
  /\ W \subseteq kept
  /\ kept' = kept \ W
  /\ dropped' = dropped \cup W
  /\ working' = [v \in Workers |-> IF working[v] \in W THEN Nothing ELSE working[v]]
  /\ UNCHANGED <<received, promised, served>>

Next ==
  \/ \E w \in Webhooks : Receive(w) \/ Promise(w) \/ Serve(w) \/ Forget(w)
  \/ \E w \in Webhooks, v \in Workers : Give(w, v)
  \/ \E v \in Workers : TakeBack(v)
  \/ \E W \in SUBSET Webhooks : Drop(W)

Spec == Init /\ [][Next]_vars
=============================================================================
