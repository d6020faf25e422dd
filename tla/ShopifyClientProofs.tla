------------------------ MODULE ShopifyClientProofs ------------------------
(***************************************************************************)
(* Theorems about ShopifyClient, for any number of calls, attempts and     *)
(* tokens, any bucket and any costs: first the client's own state, then    *)
(* the limiter it shares, whose reservations are right up to what releases *)
(* have missed.                                                            *)
(***************************************************************************)
EXTENDS ShopifyClient, SumLemmas, TLAPS

(***************************************************************************)
(* What a step can do to the client's own variables.                       *)
(***************************************************************************)

\* The steps of Call, each under its name.
LEMMA CallSteps ==
  ASSUME NEW c \in Calls, Call(c)
  PROVE  \/ UseCached(c) \/ AskToken(c) \/ TokenArrives(c) \/ TokenRetry(c) \/ TokenFails(c)
         \/ Join(c) \/ WaitForCapacity(c) \/ Send(c)
         \/ Refused(c) \/ Transient(c) \/ Fatal(c) \/ Throttled(c) \/ Answered(c)
  BY Zenon DEF Call

\* What time does changes no call, and no token but the freshness of the cached one.
LEMMA TimeSteps ==
  ASSUME Expire \/ TimePasses \/ UNCHANGED vars
  PROVE  /\ UNCHANGED <<cachedToken, issued, pc, attempt, asks, token, sends, refused, inFlight>>
         /\ expired \in BOOLEAN => expired' \in BOOLEAN
  BY DEF Expire, TimePasses, Restore, vars, limiterVars, readingVars, tokenVars

\* What every end of a request that is out has in common.
Landed(c) ==
  /\ At(c, "sent")
  /\ Retry(c) \/ Throw(c) \/ Settle(c)
  /\ UNCHANGED <<issued, asks, token, sends>>
  /\ \/ UNCHANGED <<cachedToken, expired, refused>>
     \/ /\ cachedToken' = 0 /\ expired' = FALSE
        /\ refused' = [refused EXCEPT ![c] = @ \cup {token[c]}]
  /\ inFlight' = Less(inFlight, 1)

LEMMA Landing ==
  ASSUME NEW c \in Calls, Refused(c) \/ Transient(c) \/ Fatal(c) \/ Throttled(c) \/ Answered(c)
  PROVE  Landed(c)
  <1>1. CASE Refused(c)
    BY <1>1 DEF Refused, Release, Landed
  <1>2. CASE Transient(c)
    BY <1>2 DEF Transient, Release, Landed, tokenVars
  <1>3. CASE Fatal(c)
    BY <1>3 DEF Fatal, Release, Landed, tokenVars
  <1>4. CASE Throttled(c)
    BY <1>4 DEF Throttled, Release, Landed, tokenVars
  <1>5. CASE Answered(c)
    BY <1>5 DEF Answered, Release, Landed, tokenVars
  <1> QED BY <1>1, <1>2, <1>3, <1>4, <1>5

(***************************************************************************)
(* Types of the client's variables.                                        *)
(***************************************************************************)
LEMMA Limits == MaxAttempts \in Nat \ {0} /\ TokenAttempts \in Nat \ {0}
  BY CallAssumption

LEMMA TypeInit == Init => ClientTypeOK
  <1> SUFFICES ASSUME Init PROVE ClientTypeOK
    OBVIOUS
  <1>1. cachedToken \in 0 .. issued /\ issued \in Nat
    BY DEF Init
  <1>2. expired \in BOOLEAN
    BY Zenon DEF Init
  <1>3. pc \in [Calls -> Locations] /\ sends \in [Calls -> Nat]
    BY DEF Init, Locations
  <1>4. 1 \in 1 .. MaxAttempts /\ 0 \in 0 .. TokenAttempts /\ 0 \in 0 .. issued
    BY Limits DEF Init
  <1>5. /\ attempt \in [Calls -> 1 .. MaxAttempts] /\ asks \in [Calls -> 0 .. TokenAttempts]
        /\ token \in [Calls -> 0 .. issued]
    BY <1>4 DEF Init
  <1>6. refused \in [Calls -> SUBSET (0 .. issued)]
    BY DEF Init
  <1> QED BY <1>1, <1>2, <1>3, <1>5, <1>6 DEF ClientTypeOK

LEMMA RetryTypes ==
  ASSUME ClientTypeOK, NEW c \in Calls,
         Retry(c) \/ Throw(c) \/ Settle(c)
  PROVE  /\ pc' \in [Calls -> Locations] /\ attempt' \in [Calls -> 1 .. MaxAttempts]
         /\ \E l \in {"begin", "returned", "threw"} : pc' = [pc EXCEPT ![c] = l]
         /\ c \notin Idempotent => pc'[c] # "begin"
  BY Limits DEF ClientTypeOK, Retry, Replayable, Throw, Settle, Goto, Locations

\* The client's part of the type invariant of ShopifyClient holds of every step.
LEMMA TypeStep ==
  ASSUME ClientTypeOK, [Next]_vars
  PROVE  ClientTypeOK'
  <1> USE Limits
  <1>1. CASE Expire \/ TimePasses \/ UNCHANGED vars
    BY <1>1, TimeSteps DEF ClientTypeOK
  <1>2. ASSUME NEW c \in Calls, Call(c)
        PROVE  ClientTypeOK'
    <2>1. CASE UseCached(c)
      BY <2>1 DEF UseCached, ClientTypeOK, tokenVars, Goto, Locations
    <2>2. CASE AskToken(c)
      BY <2>2 DEF AskToken, ClientTypeOK, tokenVars, Goto, Locations
    <2>3. CASE TokenArrives(c)
      <3>1. 0 .. issued \subseteq 0 .. issued' /\ issued' \in Nat /\ issued + 1 \in 0 .. issued'
        BY <2>3 DEF TokenArrives, ClientTypeOK
      <3>2. token' \in [Calls -> 0 .. issued'] /\ cachedToken' \in 0 .. issued' /\ expired' \in BOOLEAN
        BY <2>3, <3>1 DEF TokenArrives, ClientTypeOK
      <3>3. refused' \in [Calls -> SUBSET (0 .. issued')]
        BY <2>3, <3>1 DEF TokenArrives, ClientTypeOK
      <3>4. pc' \in [Calls -> Locations] /\ UNCHANGED <<attempt, asks, sends>>
        BY <2>3 DEF TokenArrives, ClientTypeOK, Goto, Locations
      <3> QED BY <3>1, <3>2, <3>3, <3>4 DEF ClientTypeOK
    <2>4. CASE TokenRetry(c)
      BY <2>4 DEF TokenRetry, ClientTypeOK, tokenVars
    <2>5. CASE TokenFails(c)
      BY <2>5 DEF TokenFails, Throw, ClientTypeOK, tokenVars, Goto, Locations
    <2>6. CASE Join(c)
      BY <2>6 DEF Join, ClientTypeOK, tokenVars, Goto, Locations
    <2>7. CASE WaitForCapacity(c)
      BY <2>7 DEF WaitForCapacity, ClientTypeOK, tokenVars
    <2>8. CASE Send(c)
      BY <2>8 DEF Send, ClientTypeOK, tokenVars, Goto, Locations
    <2>9. CASE Landed(c)
      <3>1. pc' \in [Calls -> Locations] /\ attempt' \in [Calls -> 1 .. MaxAttempts]
        BY <2>9, RetryTypes DEF Landed
      <3>2. cachedToken' \in 0 .. issued
        BY <2>9 DEF Landed, ClientTypeOK
      <3>3. expired' \in BOOLEAN
        BY <2>9, Zenon DEF Landed, ClientTypeOK
      <3>4. refused[c] \cup {token[c]} \in SUBSET (0 .. issued)
        BY DEF ClientTypeOK
      <3>5. refused' \in [Calls -> SUBSET (0 .. issued)]
        BY <2>9, <3>4 DEF Landed, ClientTypeOK
      <3> QED BY <2>9, <3>1, <3>2, <3>3, <3>5 DEF Landed, ClientTypeOK
    <2> QED
      BY <1>2, CallSteps, Landing, <2>1, <2>2, <2>3, <2>4, <2>5, <2>6, <2>7, <2>8, <2>9
  <1> QED BY <1>1, <1>2 DEF Next

\* The client's variables keep their types: attempts stay within MaxAttempts and
\* requests for a token within TokenAttempts (withRetry).
THEOREM ClientTypeCorrect == Spec => []ClientTypeOK
  <1>1. Init => ClientTypeOK
    BY TypeInit
  <1>2. ClientTypeOK /\ [Next]_vars => ClientTypeOK'
    BY TypeStep
  <1> QED BY <1>1, <1>2, PTL DEF Spec

(***************************************************************************)
(* At most one request for a mutation that must not be replayed.  Before   *)
(* it is out none was sent, and from there no way leads back to begin.     *)
(***************************************************************************)
Before == {"begin", "asking", "ready", "acquiring"}

SentInv ==
  \A c \in Calls \ Idempotent : IF pc[c] \in Before THEN sends[c] = 0 ELSE sends[c] <= 1

LEMMA SentStep ==
  ASSUME ClientTypeOK, SentInv, [Next]_vars
  PROVE  SentInv'
  <1>1. CASE Expire \/ TimePasses \/ UNCHANGED vars
    BY <1>1, TimeSteps DEF SentInv
  <1>2. ASSUME NEW c \in Calls, Call(c)
        PROVE  SentInv'
    <2>1. CASE UseCached(c) \/ AskToken(c) \/ TokenArrives(c) \/ TokenRetry(c) \/ TokenFails(c)
      BY <2>1 DEF UseCached, AskToken, TokenArrives, TokenRetry, TokenFails, Throw, At, Goto,
                  SentInv, ClientTypeOK, Before
    <2>2. CASE Join(c) \/ WaitForCapacity(c)
      BY <2>2 DEF Join, WaitForCapacity, At, Goto, SentInv, ClientTypeOK, Before
    <2>3. CASE Send(c)
      BY <2>3 DEF Send, At, Goto, SentInv, ClientTypeOK, Before
    <2>4. CASE Landed(c)
      <3>1. PICK l \in {"begin", "returned", "threw"} : pc' = [pc EXCEPT ![c] = l]
        BY <2>4, RetryTypes DEF Landed
      <3>2. c \notin Idempotent => l # "begin"
        BY <2>4, <3>1, RetryTypes DEF Landed, ClientTypeOK
      <3> QED BY <2>4, <3>1, <3>2 DEF Landed, At, SentInv, ClientTypeOK, Before
    <2> QED BY <1>2, CallSteps, Landing, <2>1, <2>2, <2>3, <2>4
  <1> QED BY <1>1, <1>2 DEF Next

\* A mutation that must not be replayed goes out at most once (mutate in
\* mutations.ts), whatever the answers, however often a token was asked for.
THEOREM SentAlwaysOnce == Spec => []SentOnce
  <1>1. Init => SentInv
    BY DEF Init, SentInv
  <1>2. ClientTypeOK /\ SentInv /\ [Next]_vars => SentInv'
    BY SentStep
  <1>3. ClientTypeOK /\ SentInv => SentOnce
    BY DEF SentInv, SentOnce, ClientTypeOK
  <1> QED BY <1>1, <1>2, <1>3, ClientTypeCorrect, PTL DEF Spec

(***************************************************************************)
(* No refused token is used again by the call that saw it refused.  The    *)
(* cache never holds one: tokens are new, and a refusal empties the cache. *)
(***************************************************************************)
Holding == {"ready", "acquiring", "sent"}

TokenInv ==
  \A c \in Calls :
    /\ cachedToken # 0 => cachedToken \notin refused[c]
    /\ pc[c] \in Holding => token[c] \notin refused[c]

LEMMA TokenStep ==
  ASSUME ClientTypeOK, TokenInv, [Next]_vars
  PROVE  TokenInv'
  <1>1. CASE Expire \/ TimePasses \/ UNCHANGED vars
    BY <1>1, TimeSteps DEF TokenInv
  <1>2. ASSUME NEW c \in Calls, Call(c)
        PROVE  TokenInv'
    <2>1. CASE UseCached(c) \/ AskToken(c) \/ TokenRetry(c) \/ TokenFails(c)
      BY <2>1 DEF UseCached, AskToken, TokenRetry, TokenFails, Throw, At, Goto, tokenVars,
                  TokenInv, ClientTypeOK, Holding
    <2>2. CASE TokenArrives(c)
      <3>1. \A d \in Calls : issued + 1 \notin refused[d]
        BY DEF ClientTypeOK
      <3> QED BY <2>2, <3>1 DEF TokenArrives, At, Goto, TokenInv, ClientTypeOK, Holding
    <2>3. CASE Join(c) \/ WaitForCapacity(c) \/ Send(c)
      BY <2>3 DEF Join, WaitForCapacity, Send, At, Goto, tokenVars, TokenInv, ClientTypeOK, Holding
    <2>4. CASE Landed(c)
      <3>1. PICK l \in {"begin", "returned", "threw"} : pc' = [pc EXCEPT ![c] = l]
        BY <2>4, RetryTypes DEF Landed
      <3> QED BY <2>4, <3>1 DEF Landed, TokenInv, ClientTypeOK, Holding
    <2> QED BY <1>2, CallSteps, Landing, <2>1, <2>2, <2>3, <2>4
  <1> QED BY <1>1, <1>2 DEF Next

\* The request after a 401 never carries the token that was refused
\* (invalidateToken in shopify.ts), whatever other calls do to the cache.
THEOREM RefusedAlwaysDropped == Spec => RefusedTokenIsDropped
  <1>1. Init => TokenInv
    BY DEF Init, TokenInv
  <1>2. ClientTypeOK /\ TokenInv /\ [Next]_vars => TokenInv'
    BY TokenStep
  <1>3. TokenInv => [\A c \in Calls : Send(c) => token[c] \notin refused[c]]_vars
    BY DEF TokenInv, Send, At, Holding
  <1> QED BY <1>1, <1>2, <1>3, ClientTypeCorrect, PTL DEF Spec, RefusedTokenIsDropped

(***************************************************************************)
(* The limiter's count.                                                    *)
(***************************************************************************)
CountInv == IsFiniteSet(InAir) /\ inFlight = Cardinality(InAir)

LEMMA CountStep ==
  ASSUME ClientTypeOK, CountInv, [Next]_vars
  PROVE  CountInv'
  <1>1. CASE Expire \/ TimePasses \/ UNCHANGED vars
    BY <1>1, TimeSteps DEF CountInv, InAir, At
  <1>2. ASSUME NEW c \in Calls, Call(c)
        PROVE  CountInv'
    <2>1. CASE \/ UseCached(c) \/ AskToken(c) \/ TokenArrives(c) \/ TokenRetry(c) \/ TokenFails(c)
               \/ Join(c) \/ WaitForCapacity(c)
      <3>1. inFlight' = inFlight
        BY <2>1 DEF UseCached, AskToken, TokenArrives, TokenRetry, TokenFails, Join, Acquire,
                    WaitForCapacity, EnterAndWait, limiterVars
      <3>2. InAir' = InAir
        BY <2>1 DEF UseCached, AskToken, TokenArrives, TokenRetry, TokenFails, Throw, Join,
                    WaitForCapacity, At, Goto, InAir, ClientTypeOK
      <3> QED BY <3>1, <3>2 DEF CountInv
    <2>2. CASE Send(c)
      <3>1. inFlight' = inFlight + 1
        BY <2>2 DEF Send, EnterAndGo, WakeAndGo, Reserve
      <3>2. InAir' = InAir \cup {c} /\ c \notin InAir
        BY <2>2 DEF Send, At, Goto, InAir, ClientTypeOK
      <3> QED BY <3>1, <3>2, FS_AddElement DEF CountInv
    <2>3. CASE Landed(c)
      <3>1. PICK l \in {"begin", "returned", "threw"} : pc' = [pc EXCEPT ![c] = l]
        BY <2>3, RetryTypes DEF Landed
      <3>2. InAir' = InAir \ {c} /\ c \in InAir
        BY <2>3, <3>1 DEF Landed, At, InAir, ClientTypeOK
      <3>3. IsFiniteSet(InAir') /\ Cardinality(InAir') = Cardinality(InAir) - 1
        BY <3>2, FS_RemoveElement DEF CountInv
      <3>4. Cardinality(InAir) \in Nat /\ Cardinality(InAir) # 0
        BY <3>2, FS_CardinalityType, FS_EmptySet DEF CountInv
      <3>5. inFlight' = inFlight - 1
        BY <2>3, <3>4 DEF Landed, Less, CountInv
      <3> QED BY <3>3, <3>5 DEF CountInv
    <2> QED BY <1>2, CallSteps, Landing, <2>1, <2>2, <2>3
  <1> QED BY <1>1, <1>2 DEF Next

\* Every grant of the limiter is given back exactly once, on every way out of an
\* attempt: it counts the requests that are out (the finally of shopifyGraphQL).
THEOREM CountAlwaysExact == Spec => []CountsWhatIsOut
  <1>1. Init => CountInv
    <2>1. Init => InAir = {} /\ inFlight = 0
      BY DEF Init, LimiterInit, InAir, At
    <2> QED BY <2>1, FS_EmptySet DEF CountInv
  <1>2. ClientTypeOK /\ CountInv /\ [Next]_vars => CountInv'
    BY CountStep
  <1>3. CountInv => CountsWhatIsOut
    BY DEF CountInv, CountsWhatIsOut
  <1> QED BY <1>1, <1>2, <1>3, ClientTypeCorrect, PTL DEF Spec

(***************************************************************************)
(* Types of the limiter's variables.  What needs an argument is that the   *)
(* estimate is a number of points: it is made of the sum and the peak of   *)
(* the recent costs.                                                       *)
(***************************************************************************)

\* A finite set of numbers that is not empty has a maximum.
LEMMA MaxOfFinite ==
  ASSUME NEW S, IsFiniteSet(S), S \subseteq Nat, S # {}
  PROVE  Max(S) \in S
  <1> DEFINE HasMax(T) == \E m \in T : \A y \in T : m >= y
             G == {T \in SUBSET S : T = {} \/ HasMax(T)}
  <1>1. ASSUME NEW T \in SUBSET S, \A x \in T : T \ {x} \in G
        PROVE  T \in G
    <2>1. CASE T = {}
      BY <2>1
    <2>2. CASE T # {}
      <3>1. PICK x \in T : x \in Nat
        BY <2>2
      <3>2. CASE T \ {x} = {}
        BY <3>1, <3>2
      <3>3. CASE T \ {x} # {}
        <4>1. PICK m \in T \ {x} : \A y \in T \ {x} : m >= y
          BY <1>1, <3>1, <3>3
        <4>2. m \in Nat /\ (m >= x \/ x >= m)
          BY <3>1
        <4>3. CASE m >= x
          BY <4>1, <4>3
        <4>4. CASE x >= m
          BY <3>1, <4>1, <4>2, <4>4
        <4> QED BY <4>2, <4>3, <4>4
      <3> QED BY <3>2, <3>3
    <2> QED BY <2>1, <2>2
  <1> HIDE DEF G
  <1>2. \A T \in SUBSET S : T \in G
    BY <1>1, SubsetInduction
  <1> QED BY <1>2 DEF G, Max

LEMMA RecentCosts ==
  ASSUME recentCosts \in Seq(Costs), recentCosts # <<>>
  PROVE  /\ Len(recentCosts) \in Nat \ {0}
         /\ \A i \in 1 .. Len(recentCosts) : recentCosts[i] \in Costs /\ recentCosts[i] \in Nat
         /\ IsFiniteSet(1 .. Len(recentCosts)) /\ Cardinality(1 .. Len(recentCosts)) = Len(recentCosts)
         /\ Max(Range(recentCosts)) \in Range(recentCosts) /\ Range(recentCosts) \subseteq Costs
  <1>1. /\ Len(recentCosts) \in Nat \ {0} /\ DOMAIN recentCosts = 1 .. Len(recentCosts)
        /\ \A i \in 1 .. Len(recentCosts) : recentCosts[i] \in Costs
    OBVIOUS
  <1>2. Costs \subseteq Nat
    BY CostAssumption
  <1>3. IsFiniteSet(1 .. Len(recentCosts)) /\ Cardinality(1 .. Len(recentCosts)) = Len(recentCosts)
    BY <1>1, FS_Interval
  <1>4. Range(recentCosts) \subseteq Costs /\ Range(recentCosts) # {}
    BY <1>1 DEF Range
  <1>5. recentCosts \in Surjection(1 .. Len(recentCosts), Range(recentCosts))
    BY <1>1 DEF Surjection, Range
  <1>6. IsFiniteSet(Range(recentCosts))
    BY <1>3, <1>5, FS_Surjection
  <1>7. Max(Range(recentCosts)) \in Range(recentCosts)
    BY <1>2, <1>4, <1>6, MaxOfFinite
  <1> QED BY <1>1, <1>2, <1>3, <1>4, <1>7

\* The parts of the estimate.
LEMMA EstimateParts ==
  ASSUME recentCosts \in Seq(Costs)
  PROVE  IF recentCosts = <<>> THEN EstimatedCost = InitialEstimate
         ELSE EstimatedCost =
                (Total(recentCosts, 1 .. Len(recentCosts))
                  + Max(Range(recentCosts)) * Len(recentCosts) + 2 * Len(recentCosts) - 1)
                \div (2 * Len(recentCosts))
  <1>1. Len(recentCosts) = 0 <=> recentCosts = <<>>
    OBVIOUS
  <1> QED BY <1>1 DEF EstimatedCost, Total

\* A division of numbers of points.
LEMMA RoundedUp ==
  ASSUME NEW t \in Nat, NEW p \in Nat, NEW n \in Nat \ {0}
  PROVE  (t + p * n + 2 * n - 1) \div (2 * n) \in Nat
  <1>1. t + p * n + 2 * n - 1 \in Nat /\ 2 * n \in Nat \ {0}
    OBVIOUS
  <1>2. \A a \in Nat : \A b \in Nat \ {0} : a \div b \in Nat
    OBVIOUS
  <1> QED BY <1>1, <1>2

LEMMA EstimateTyped ==
  ASSUME recentCosts \in Seq(Costs)
  PROVE  EstimatedCost \in Nat
  <1>1. CASE recentCosts = <<>>
    BY <1>1, EstimateParts, CostAssumption
  <1>2. CASE recentCosts # <<>>
    <2>1. Total(recentCosts, 1 .. Len(recentCosts)) \in Nat
      BY <1>2, RecentCosts, SumNat
    <2>2. Max(Range(recentCosts)) \in Nat /\ Len(recentCosts) \in Nat \ {0}
      BY <1>2, RecentCosts, CostAssumption
    <2> QED BY <1>2, <2>1, <2>2, EstimateParts, RoundedUp
  <1> QED BY <1>1, <1>2

\* What the end of a request does to the limiter.
LEMMA LandedLimiter ==
  ASSUME NEW c \in Calls, Refused(c) \/ Transient(c) \/ Fatal(c) \/ Throttled(c) \/ Answered(c)
  PROVE  /\ Release(c)
         /\ \/ UNCHANGED readingVars
            \/ MarkThrottled
            \/ \E a \in Readings, r \in Rates, n \in Costs \cup {0} : Record(a, r, n)
  BY Zenon DEF Refused, Transient, Fatal, Throttled, Answered

LEMMA Points ==
  /\ Maximum \in Nat /\ Floor \in Nat /\ Readings \subseteq Nat /\ Rates \subseteq Nat
  /\ InitialEstimate \in Nat /\ Costs \subseteq Nat \ {0} /\ CostWindow \in Nat \ {0}
  BY BucketAssumption, CostAssumption

\* The limiter's readings keep their types.
ReadingsOK ==
  /\ seen \in BOOLEAN /\ level \in 0 .. Maximum /\ rate \in Rates \cup {0}
  /\ recentCosts \in Seq(Costs) /\ Len(recentCosts) <= CostWindow

LEMMA ReadingStep ==
  ASSUME ReadingsOK,
         \/ UNCHANGED readingVars \/ Restore \/ MarkThrottled
         \/ \E a \in Readings, r \in Rates, n \in Costs \cup {0} : Record(a, r, n)
  PROVE  ReadingsOK'
  <1> USE Points DEF ReadingsOK
  <1>1. CASE UNCHANGED readingVars
    BY <1>1 DEF readingVars
  <1>2. CASE Restore
    <2>1. level' \in 0 .. Maximum
      BY <1>2 DEF Restore, Smaller
    <2> QED BY <1>2, <2>1 DEF Restore
  <1>3. CASE MarkThrottled
    <2>1. level' \in 0 .. Maximum /\ UNCHANGED recentCosts /\ rate' \in Rates \cup {0}
      BY <1>3 DEF MarkThrottled
    <2>2. seen' \in BOOLEAN
      BY <1>3 DEF MarkThrottled
    <2> QED BY <2>1, <2>2
  <1>4. ASSUME NEW a \in Readings, NEW r \in Rates, NEW n \in Costs \cup {0}, Record(a, r, n)
        PROVE  ReadingsOK'
    <2>1. level' \in 0 .. Maximum /\ rate' \in Rates \cup {0}
      BY <1>4 DEF Record, Smaller
    <2>2. seen' \in BOOLEAN
      BY <1>4 DEF Record
    <2>3. recentCosts' \in Seq(Costs) /\ Len(recentCosts') <= CostWindow
      <3>1. CASE n = 0
        BY <1>4, <3>1 DEF Record
      <3>2. CASE n # 0 /\ Len(recentCosts) = CostWindow
        <4>1. recentCosts' = Append(Tail(recentCosts), n) /\ n \in Costs /\ recentCosts # <<>>
          BY <1>4, <3>2 DEF Record
        <4>2. Tail(recentCosts) \in Seq(Costs) /\ Len(Tail(recentCosts)) = CostWindow - 1
          BY <3>2, <4>1
        <4> QED BY <4>1, <4>2
      <3>3. CASE n # 0 /\ Len(recentCosts) # CostWindow
        <4>1. recentCosts' = Append(recentCosts, n) /\ n \in Costs
          BY <1>4, <3>3 DEF Record
        <4> QED BY <3>3, <4>1
      <3> QED BY <3>1, <3>2, <3>3
    <2> QED BY <2>1, <2>2, <2>3
  <1> QED BY <1>1, <1>2, <1>3, <1>4

\* The limiter's accounts keep their types.
AccountsOK ==
  /\ reservedPoints \in Nat /\ inFlight \in Nat
  /\ queue \in Seq(Calls) /\ cost \in [Calls -> Nat]
  /\ drift \subseteq {"over", "under"}

LEMMA AccountStep ==
  ASSUME recentCosts \in Seq(Costs), AccountsOK, NEW c \in Calls, Call(c)
  PROVE  AccountsOK'
  <1> USE DEF AccountsOK
  <1>1. CASE UseCached(c) \/ AskToken(c) \/ TokenArrives(c) \/ TokenRetry(c) \/ TokenFails(c)
    BY <1>1 DEF UseCached, AskToken, TokenArrives, TokenRetry, TokenFails, limiterVars
  <1>2. CASE Join(c)
    BY <1>2 DEF Join, Acquire
  <1>3. CASE WaitForCapacity(c)
    BY <1>3, EstimateTyped DEF WaitForCapacity, EnterAndWait
  <1>4. ASSUME NEW e \in Nat, InLine(c), Reserve(c, e) PROVE AccountsOK'
    BY <1>4 DEF InLine, Reserve
  <1>5. CASE Send(c)
    BY <1>4, <1>5, EstimateTyped DEF Send, EnterAndGo, WakeAndGo, Waiting
  <1>6. CASE Release(c)
    <2>1. Misses(c, EstimatedCost) \subseteq {"over", "under"}
      BY DEF Misses
    <2>2. drift' \subseteq {"over", "under"}
      BY <1>6, <2>1 DEF Release
    <2>3. reservedPoints' \in Nat /\ inFlight' \in Nat /\ queue' \in Seq(Calls) /\ cost' \in [Calls -> Nat]
      BY <1>6, EstimateTyped DEF Release, Less
    <2> QED BY <2>2, <2>3
  <1> QED BY <1>1, <1>2, <1>3, <1>5, <1>6, CallSteps, LandedLimiter

\* The only steps of a call that touch the readings are the ends of a request.
LEMMA ReadingFrame ==
  ASSUME NEW c \in Calls, Call(c)
  PROVE  \/ UNCHANGED readingVars \/ MarkThrottled
         \/ \E a \in Readings, r \in Rates, n \in Costs \cup {0} : Record(a, r, n)
  <1>1. CASE UseCached(c) \/ AskToken(c) \/ TokenArrives(c) \/ TokenRetry(c) \/ TokenFails(c)
             \/ Join(c) \/ WaitForCapacity(c) \/ Send(c)
    BY <1>1 DEF UseCached, AskToken, TokenArrives, TokenRetry, TokenFails, Join, Acquire,
                WaitForCapacity, EnterAndWait, Send, EnterAndGo, WakeAndGo, Reserve, limiterVars, readingVars
  <1> QED BY <1>1, CallSteps, LandedLimiter

LEMMA LimiterStep ==
  ASSUME LimiterTypeOK, [Next]_vars
  PROVE  LimiterTypeOK'
  <1>0. ReadingsOK /\ AccountsOK
    BY DEF LimiterTypeOK, ReadingsOK, AccountsOK
  <1>1. CASE Expire \/ UNCHANGED vars
    BY <1>1 DEF Expire, vars, limiterVars, readingVars, LimiterTypeOK
  <1>2. CASE TimePasses
    <2>1. ReadingsOK' /\ AccountsOK'
      BY <1>0, <1>2, ReadingStep DEF TimePasses, Restore, AccountsOK
    <2> QED BY <2>1 DEF LimiterTypeOK, ReadingsOK, AccountsOK
  <1>3. ASSUME NEW c \in Calls, Call(c) PROVE LimiterTypeOK'
    <2>1. ReadingsOK' /\ AccountsOK'
      BY <1>0, <1>3, ReadingFrame, ReadingStep, AccountStep DEF ReadingsOK
    <2> QED BY <2>1 DEF LimiterTypeOK, ReadingsOK, AccountsOK
  <1> QED BY <1>1, <1>2, <1>3 DEF Next

\* The limiter's variables keep theirs too: the reservations never go below zero, the
\* window of costs is never longer than it is set to, and every estimate is a number
\* (rate-limiter.ts).
THEOREM TypeCorrect == Spec => []TypeOK
  <1>1. Init => LimiterTypeOK
    <2> SUFFICES ASSUME LimiterInit PROVE LimiterTypeOK
      BY DEF Init
    <2>1. seen \in BOOLEAN
      BY Zenon DEF LimiterInit
    <2>2. /\ level \in 0 .. Maximum /\ rate \in Rates \cup {0}
          /\ recentCosts \in Seq(Costs) /\ Len(recentCosts) <= CostWindow
      BY Points DEF LimiterInit
    <2>3. /\ reservedPoints \in Nat /\ inFlight \in Nat /\ queue \in Seq(Calls)
          /\ cost \in [Calls -> Nat] /\ drift \subseteq {"over", "under"}
      BY DEF LimiterInit
    <2> QED BY <2>1, <2>2, <2>3 DEF LimiterTypeOK
  <1>2. LimiterTypeOK /\ [Next]_vars => LimiterTypeOK'
    BY LimiterStep
  <1>3. LimiterTypeOK /\ ClientTypeOK => TypeOK
    BY DEF TypeOK
  <1> QED BY <1>1, <1>2, <1>3, ClientTypeCorrect, PTL DEF Spec

(***************************************************************************)
(* The points reserved.  A call adds to the reservation what it adds to    *)
(* the sum over the requests out; a release takes its own points from the  *)
(* sum, and from the reservation the estimate of the moment, which is no   *)
(* more than they are unless that is noted in drift, and no less unless    *)
(* that is.                                                                *)
(***************************************************************************)
LEMMA ReservedIsTotal ==
  ASSUME NEW k, NEW D
  PROVE  Reserved(k, D) = Total(k, D)
  BY DEF Reserved, Total

\* With c among the requests in D, and without it.
LEMMA OneApart ==
  ASSUME NEW k, NEW k2, NEW D, NEW c \in D,
         IsFiniteSet(D), \A d \in D : k[d] \in Nat, \A d \in D \ {c} : k2[d] = k[d]
  PROVE  /\ Total(k, D) = k[c] + Total(k2, D \ {c})
         /\ Total(k2, D \ {c}) \in Nat
  <1>1. IsFiniteSet(D \ {c})
    BY FS_RemoveElement
  <1>2. Total(k, D) = k[c] + Total(k, D \ {c})
    BY SumAdds
  <1>3. Total(k2, D \ {c}) = Total(k, D \ {c})
    BY <1>1, SumSame
  <1>4. Total(k, D \ {c}) \in Nat
    BY <1>1, SumNat
  <1> QED BY <1>2, <1>3, <1>4

\* What a release gives back, against what its call had reserved.
LEMMA GivenBack ==
  ASSUME NEW e \in Nat, NEW k \in Nat, NEW p \in Nat, NEW rest \in Nat
  PROVE  /\ e <= k /\ k + rest <= p => rest <= Less(p, e)
         /\ k <= e /\ p <= k + rest => Less(p, e) <= rest
  BY DEF Less

LEMMA ReservedStep ==
  ASSUME TypeOK, CountInv, ReservesWhatIsOut, [Next]_vars
  PROVE  ReservesWhatIsOut'
  <1>0. /\ ClientTypeOK /\ EstimatedCost \in Nat /\ reservedPoints \in Nat
        /\ cost \in [Calls -> Nat] /\ IsFiniteSet(InAir) /\ InAir \subseteq Calls
    BY EstimateTyped DEF TypeOK, LimiterTypeOK, CountInv, InAir
  <1>1. CASE Expire \/ TimePasses \/ UNCHANGED vars
    <2>1. UNCHANGED <<reservedPoints, cost, pc, drift>>
      BY <1>1 DEF Expire, TimePasses, Restore, vars, limiterVars
    <2>2. InAir' = InAir
      BY <2>1 DEF InAir, At
    <2> QED BY <2>1, <2>2 DEF ReservesWhatIsOut
  <1>2. ASSUME NEW c \in Calls, Call(c)
        PROVE  ReservesWhatIsOut'
    <2>1. CASE \/ UseCached(c) \/ AskToken(c) \/ TokenArrives(c) \/ TokenRetry(c) \/ TokenFails(c)
               \/ Join(c)
      <3>1. UNCHANGED <<reservedPoints, cost, drift>>
        BY <2>1 DEF UseCached, AskToken, TokenArrives, TokenRetry, TokenFails, Join, Acquire, limiterVars
      <3>2. InAir' = InAir
        BY <1>0, <2>1 DEF UseCached, AskToken, TokenArrives, TokenRetry, TokenFails, Throw, Join,
                    At, Goto, InAir, ClientTypeOK
      <3> QED BY <3>1, <3>2 DEF ReservesWhatIsOut
    <2>2. CASE WaitForCapacity(c)
      <3>1. InAir' = InAir /\ c \notin InAir /\ UNCHANGED <<reservedPoints, drift>>
        BY <2>2 DEF WaitForCapacity, EnterAndWait, InAir, At
      <3>2. cost' = [cost EXCEPT ![c] = EstimatedCost]
        BY <2>2 DEF WaitForCapacity, EnterAndWait
      <3>3. \A d \in InAir : cost[d] \in Nat /\ cost'[d] = cost[d]
        BY <1>0, <3>1, <3>2
      <3>4. Total(cost', InAir) = Total(cost, InAir)
        BY <1>0, <3>3, SumSame
      <3> QED BY <3>1, <3>4, ReservedIsTotal DEF ReservesWhatIsOut
    <2>3. CASE Send(c)
      <3>1. PICK e \in Nat : reservedPoints' = reservedPoints + e /\ cost' = [cost EXCEPT ![c] = e]
        BY <1>0, <2>3 DEF Send, EnterAndGo, WakeAndGo, Reserve
      <3>2. drift' = drift
        BY <2>3 DEF Send, EnterAndGo, WakeAndGo, Reserve
      <3>3. InAir' = InAir \cup {c} /\ c \notin InAir
        BY <1>0, <2>3 DEF Send, At, Goto, InAir, ClientTypeOK
      <3>4. /\ c \in InAir' /\ \A d \in InAir' : cost'[d] \in Nat
            /\ \A d \in InAir' \ {c} : cost[d] = cost'[d]
        BY <1>0, <3>1, <3>3
      <3>5. Total(cost', InAir') = e + Total(cost, InAir) /\ Total(cost, InAir) \in Nat
        <4>1. IsFiniteSet(InAir')
          BY <1>0, <3>3, FS_AddElement
        <4>2. /\ Total(cost', InAir') = cost'[c] + Total(cost, InAir' \ {c})
              /\ Total(cost, InAir' \ {c}) \in Nat
          BY <3>4, <4>1, OneApart
        <4>3. InAir' \ {c} = InAir /\ cost'[c] = e
          BY <1>0, <3>1, <3>3
        <4> QED BY <4>2, <4>3
      <3>6. /\ "over" \notin drift => Total(cost, InAir) <= reservedPoints
            /\ "under" \notin drift => reservedPoints <= Total(cost, InAir)
        BY ReservedIsTotal DEF ReservesWhatIsOut
      <3>7. /\ "over" \notin drift' => Total(cost', InAir') <= reservedPoints'
            /\ "under" \notin drift' => reservedPoints' <= Total(cost', InAir')
        BY <1>0, <3>1, <3>2, <3>5, <3>6
      <3> QED BY <3>7, ReservedIsTotal DEF ReservesWhatIsOut
    <2>4. CASE Landed(c) /\ Release(c)
      <3>1. PICK l \in {"begin", "returned", "threw"} : pc' = [pc EXCEPT ![c] = l]
        BY <1>0, <2>4, RetryTypes DEF Landed
      <3>2. InAir' = InAir \ {c} /\ c \in InAir
        BY <1>0, <2>4, <3>1 DEF Landed, At, InAir, ClientTypeOK
      <3>3. /\ reservedPoints' = Less(reservedPoints, EstimatedCost)
            /\ cost' = [cost EXCEPT ![c] = 0]
            /\ drift' = drift \cup Misses(c, EstimatedCost)
        BY <2>4 DEF Release
      <3>4. (\A d \in InAir : cost[d] \in Nat) /\ \A d \in InAir \ {c} : cost'[d] = cost[d]
        BY <1>0, <3>3
      <3>5. /\ Total(cost, InAir) = cost[c] + Total(cost', InAir')
            /\ Total(cost', InAir') \in Nat /\ cost[c] \in Nat
        BY <1>0, <3>2, <3>4, OneApart
      <3>6. /\ "over" \notin drift' => "over" \notin drift /\ EstimatedCost <= cost[c]
            /\ "under" \notin drift' => "under" \notin drift /\ cost[c] <= EstimatedCost
        BY <1>0, <3>3, <3>5 DEF Misses
      <3>7. /\ "over" \notin drift => Total(cost, InAir) <= reservedPoints
            /\ "under" \notin drift => reservedPoints <= Total(cost, InAir)
        BY ReservedIsTotal DEF ReservesWhatIsOut
      <3>8. /\ "over" \notin drift' => Total(cost', InAir') <= reservedPoints'
            /\ "under" \notin drift' => reservedPoints' <= Total(cost', InAir')
        BY <1>0, <3>3, <3>5, <3>6, <3>7, GivenBack
      <3> QED BY <3>8, ReservedIsTotal DEF ReservesWhatIsOut
    <2> QED BY <1>2, CallSteps, Landing, LandedLimiter, <2>1, <2>2, <2>3, <2>4
  <1> QED BY <1>1, <1>2 DEF Next

LEMMA InitReserved == Init => CountInv /\ ReservesWhatIsOut
  <1> SUFFICES ASSUME Init PROVE CountInv /\ ReservesWhatIsOut
    OBVIOUS
  <1>1. InAir = {} /\ inFlight = 0 /\ reservedPoints = 0
    BY DEF Init, LimiterInit, InAir, At
  <1>2. IsFiniteSet(InAir) /\ Cardinality(InAir) = 0
    BY <1>1, FS_EmptySet
  <1>3. Columns(cost, InAir) = {}
    BY <1>1 DEF Columns
  <1>4. Total(cost, InAir) = 0
    BY <1>1, <1>2, <1>3, SumIsSize
  <1> QED BY <1>1, <1>2, <1>4, ReservedIsTotal DEF CountInv, ReservesWhatIsOut

\* Whatever queries cost, and on every way an attempt can end, the reservation is that
\* of the requests that are out, but for what releases have missed: it is too small
\* only after one gave back more than its call had reserved, too large only after one
\* gave back less (reservedPoints of rate-limiter.ts; the runs client_shared and
\* client_leak show where each leads).
THEOREM ReservesAlwaysExact == Spec => []ReservesWhatIsOut
  <1>1. TypeOK /\ CountInv /\ ReservesWhatIsOut /\ [Next]_vars => CountInv' /\ ReservesWhatIsOut'
    BY ReservedStep, CountStep DEF TypeOK
  <1> QED BY <1>1, InitReserved, TypeCorrect, PTL DEF Spec

\* Until a release gives back more than its call had reserved, two calls never go out
\* on the same headroom, whatever queries cost: each is let out only when the bucket,
\* as last read, holds what all the requests out reserve and the floor (acquire of
\* rate-limiter.ts).
THEOREM HeadroomNeverShared == Spec => HeadroomIsNotShared
  <1>1. TypeOK /\ CountInv /\ ReservesWhatIsOut /\ [Next]_vars => CountInv' /\ ReservesWhatIsOut'
    BY ReservedStep, CountStep DEF TypeOK
  <1>2. TypeOK /\ CountInv' /\ ReservesWhatIsOut' /\ [Next]_vars
        => [\A c \in Calls : "over" \notin drift => HasItsOwnHeadroom(c)]_vars
    <2> SUFFICES ASSUME TypeOK, CountInv', ReservesWhatIsOut',
                        NEW c \in Calls, Send(c), "over" \notin drift, seen, rate > 0
                 PROVE  Reserved(cost', InAir') + Floor <= level
      BY DEF HasItsOwnHeadroom
    <2>1. /\ level \in Nat /\ rate \in Nat /\ reservedPoints \in Nat /\ Floor \in Nat
          /\ EstimatedCost \in Nat /\ cost \in [Calls -> Nat] /\ cost[c] \in Nat
      BY Points, EstimateTyped DEF TypeOK, LimiterTypeOK
    <2>2. PICK e \in Nat : reservedPoints' = reservedPoints + e /\ HasCapacity(e)
                            /\ cost' = [cost EXCEPT ![c] = e] /\ drift' = drift
      BY <2>1 DEF Send, EnterAndGo, WakeAndGo, Reserve
    <2>3. reservedPoints' + Floor <= level
      BY <2>1, <2>2 DEF HasCapacity
    <2>4. Total(cost', InAir') <= reservedPoints'
      BY <2>2, ReservedIsTotal DEF ReservesWhatIsOut
    <2>5. Total(cost', InAir') \in Nat
      <3>1. InAir' \subseteq Calls /\ IsFiniteSet(InAir')
        BY DEF InAir, CountInv
      <3>2. \A d \in InAir' : cost'[d] \in Nat
        BY <2>1, <2>2, <3>1
      <3> QED BY <3>1, <3>2, SumNat
    <2> QED BY <2>1, <2>2, <2>3, <2>4, <2>5, ReservedIsTotal
  <1> QED BY <1>1, <1>2, InitReserved, TypeCorrect, PTL DEF Spec, HeadroomIsNotShared
=============================================================================
