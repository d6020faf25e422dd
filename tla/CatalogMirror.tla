--------------------------- MODULE CatalogMirror ---------------------------
(***************************************************************************)
(* What the catalogue mirror promises its readers, with no handlers, runs  *)
(* or bulk operations: a row only ever shows a state its product really    *)
(* had, a change is announced to the warehouse at most once and in the     *)
(* step that shows it, and a row is only hidden when the product is gone,  *)
(* or was announced last by a message that had grown old on its way.       *)
(***************************************************************************)
CONSTANTS Products, Changes, NoChange

VARIABLES
  live,     \* products the shop has
  history,  \* the changes each product has been through
  shown,    \* the change each row shows, NoChange if there is no row
  hidden,   \* products whose row is marked deleted
  late,     \* products announced last by a message that was old by then
  told      \* changes the warehouse has been told of

vars == <<live, history, shown, hidden, late, told>>

Init ==
  /\ live = {}
  /\ history = [p \in Products |-> {}]
  /\ shown = [p \in Products |-> NoChange]
  /\ hidden = {}
  /\ late = {}
  /\ told = {}

\* A product appears or changes: an unheard-of change joins its history.
Change(p, c) ==
  /\ history[p] = {} \/ p \in live
  /\ \A q \in Products : c \notin history[q]
  /\ history' = [history EXCEPT ![p] = @ \cup {c}]
  /\ live' = live \cup {p}
  /\ UNCHANGED <<shown, hidden, late, told>>

Remove(p) ==
  /\ p \in live
  /\ live' = live \ {p}
  /\ UNCHANGED <<history, shown, hidden, late, told>>

\* Some rows are made to show states their products had, perhaps old ones.
Refresh(P) ==
  /\ shown' \in [Products -> Changes \cup {NoChange}]
  /\ \A p \in Products : IF p \in P THEN shown'[p] \in history[p] ELSE shown'[p] = shown[p]
  /\ hidden' = hidden \ P
  /\ late' = late \ P
  /\ UNCHANGED <<live, history, told>>

\* A change is shown and announced in one step.
Announce(p, c) ==
  /\ c \in history[p] \ told
  /\ shown' = [shown EXCEPT ![p] = c]
  /\ hidden' = hidden \ {p}
  /\ late' \in {late \cup {p}, late \ {p}}
  /\ told' = told \cup {c}
  /\ UNCHANGED <<live, history>>

Hide(P) ==
  /\ P \cap live \subseteq late
  /\ hidden' = hidden \cup P
  /\ UNCHANGED <<live, history, shown, late, told>>

Next ==
  \/ \E p \in Products : Remove(p)
  \/ \E p \in Products, c \in Changes : Change(p, c) \/ Announce(p, c)
  \/ \E P \in SUBSET Products : Refresh(P) \/ Hide(P)

Spec == Init /\ [][Next]_vars
=============================================================================
