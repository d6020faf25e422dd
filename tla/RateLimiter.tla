---------------------------- MODULE RateLimiter ----------------------------
(***************************************************************************)
(* The limiter every call to the Admin API passes (rate-limiter.ts): its   *)
(* state and what each method does to it.  ShopifyClient says when the     *)
(* methods are called.                                                     *)
(*                                                                         *)
(* The code extrapolates the bucket from the last reading and the clock.   *)
(* Here Restore lets time pass, so level is that projection.               *)
(***************************************************************************)
EXTENDS Naturals, FiniteSets, Sequences, FiniteSetsExt, Functions

CONSTANTS
  Calls,            \* calls of shopifyGraphQL
  Maximum,          \* size of Shopify's bucket, in points
  Floor,            \* points held back for other clients: reserveRatio of Maximum
  InitialEstimate,  \* cost assumed before any response has been observed
  CostWindow,       \* how many recent costs feed the estimate
  Costs,            \* what a query may really cost
  Readings,         \* levels of the bucket Shopify may report
  Rates             \* points restored in a unit of time, as Shopify reports them

ASSUME BucketAssumption == Maximum \in Nat /\ Floor \in 0 .. Maximum /\ Readings \subseteq Nat /\ Rates \subseteq Nat
ASSUME CostAssumption   == InitialEstimate \in Nat \ {0} /\ CostWindow \in Nat \ {0} /\ Costs \subseteq Nat \ {0}

VARIABLES
  seen,            \* whether a reading has ever been recorded
  level,           \* lastAvailable and what has been restored since
  rate,            \* restoreRate of the last reading
  recentCosts,     \* the last CostWindow costs
  reservedPoints,  \* points reserved for requests in flight
  inFlight,        \* requests in flight, as the limiter counts them
  queue,           \* calls inside acquire, the first of them in waitForCapacity
  cost,            \* what a call in waitForCapacity asks for, or was granted
  drift            \* history: the ways in which a release missed what was reserved

limiterVars == <<seen, level, rate, recentCosts, reservedPoints, inFlight, queue, cost, drift>>
readingVars == <<seen, level, rate, recentCosts>>

LimiterTypeOK ==
  /\ seen \in BOOLEAN /\ level \in 0 .. Maximum /\ rate \in Rates \cup {0}
  /\ recentCosts \in Seq(Costs) /\ Len(recentCosts) <= CostWindow
  /\ reservedPoints \in Nat /\ inFlight \in Nat
  /\ queue \in Seq(Calls) /\ cost \in [Calls -> Nat]
  /\ drift \subseteq {"over", "under"}

LimiterInit ==
  /\ seen = FALSE /\ level = 0 /\ rate = 0
  /\ recentCosts = <<>> /\ reservedPoints = 0 /\ inFlight = 0
  /\ queue = <<>> /\ cost = [c \in Calls |-> 0] /\ drift = {}

\* FAULT: a refill is not capped at the size of the bucket.
Smaller_first(a, b) == a

Smaller(a, b) == IF a < b THEN a ELSE b
Less(a, b)    == IF a < b THEN 0 ELSE a - b

\* Half-way between mean and peak of the recent costs, rounded up.
EstimatedCost ==
  LET n     == Len(recentCosts)
      total == MapThenSumSet(LAMBDA i : recentCosts[i], 1 .. n)
      peak  == Max(Range(recentCosts))
  IN  IF n = 0 THEN InitialEstimate ELSE (total + peak * n + 2 * n - 1) \div (2 * n)

\* FAULT: what is reserved for requests in flight is not subtracted.
HasCapacity_ignoresReserved(e) == ~seen \/ rate = 0 \/ level >= Floor + e

\* FAULT: a bucket that is not being restored is waited for.
HasCapacity_waitsForEver(e) == ~seen \/ level >= reservedPoints + Floor + e

\* waitForCapacity stops waiting for e points: nothing is known of the bucket,
\* the points are there, or the bucket is not being restored.
HasCapacity(e) == ~seen \/ rate = 0 \/ level >= reservedPoints + Floor + e

Acquire(c) ==
  /\ queue' = Append(queue, c)
  /\ UNCHANGED <<readingVars, reservedPoints, inFlight, cost, drift>>

InLine(c)  == queue # <<>> /\ Head(queue) = c
Waiting(c) == InLine(c) /\ cost[c] > 0

Reserve(c, e) ==
  /\ HasCapacity(e)
  /\ reservedPoints' = reservedPoints + e
  /\ inFlight' = inFlight + 1
  /\ cost' = [cost EXCEPT ![c] = e]
  /\ queue' = Tail(queue)
  /\ UNCHANGED <<readingVars, drift>>

\* A call's turn comes: it fixes its cost, and goes if it can.
EnterAndGo(c) == InLine(c) /\ ~Waiting(c) /\ Reserve(c, EstimatedCost)

EnterAndWait(c) ==
  /\ InLine(c) /\ ~Waiting(c) /\ ~HasCapacity(EstimatedCost)
  /\ cost' = [cost EXCEPT ![c] = EstimatedCost]
  /\ UNCHANGED <<readingVars, reservedPoints, inFlight, queue, drift>>

\* It wakes from its sleep; the cost is the one fixed on entry.
WakeAndGo(c) == Waiting(c) /\ Reserve(c, cost[c])

\* How a release of e points misses what c reserved: by too much or too little.
Misses(c, e) == {d \in {"over", "under"} : IF d = "over" THEN e > cost[c] ELSE e < cost[c]}

\* FAULT: only the count is corrected.
Release_keepsPoints(c) ==
  /\ drift' = drift \cup Misses(c, EstimatedCost)
  /\ inFlight' = Less(inFlight, 1)
  /\ cost' = [cost EXCEPT ![c] = 0]
  /\ UNCHANGED <<reservedPoints, queue>>

\* What is given back is the estimate of now, not what was reserved: the method
\* does not know which call it is for.
Release(c) ==
  /\ reservedPoints' = Less(reservedPoints, EstimatedCost)
  /\ drift' = drift \cup Misses(c, EstimatedCost)
  /\ inFlight' = Less(inFlight, 1)
  /\ cost' = [cost EXCEPT ![c] = 0]
  /\ UNCHANGED queue

\* An actual cost of 0 stands for none reported.
Record(available, restores, actual) ==
  /\ seen' = TRUE /\ rate' = restores
  /\ level' = Smaller(available, Maximum)
  /\ recentCosts' = IF actual = 0 THEN recentCosts
                    ELSE IF Len(recentCosts) = CostWindow THEN Append(Tail(recentCosts), actual)
                    ELSE Append(recentCosts, actual)

\* A throttled response may or may not carry a reading; its level is not believed.
MarkThrottled ==
  /\ level' = 0
  /\ UNCHANGED recentCosts
  /\ \/ UNCHANGED <<seen, rate>>
     \/ seen' = TRUE /\ rate' \in Rates

Restore ==
  /\ seen /\ rate > 0 /\ level < Maximum
  /\ level' = Smaller(level + rate, Maximum)
  /\ UNCHANGED <<seen, rate, recentCosts, reservedPoints, inFlight, queue, cost, drift>>
=============================================================================
