--------------------------- MODULE ShopifyClient ---------------------------
(***************************************************************************)
(* Calls to Shopify's Admin API made concurrently by one process           *)
(* (shopify.ts, retry.ts, mutations.ts) through one token cache and one    *)
(* limiter.                                                                *)
(*                                                                         *)
(* Tokens are numbered in the order Shopify issues them, none is 0.        *)
(* A delay between attempts reads and changes nothing: the next attempt    *)
(* may simply begin at any time.                                           *)
(***************************************************************************)
EXTENDS RateLimiter

CONSTANTS
  Idempotent,    \* calls with retry on: queries and idempotent mutations
  MaxAttempts,   \* attempts of a request
  TokenAttempts  \* attempts of the token request inside one attempt

ASSUME CallAssumption == Idempotent \subseteq Calls /\ {MaxAttempts, TokenAttempts} \subseteq Nat \ {0}

VARIABLES
  cachedToken,  \* the cached token, 0 if null
  expired,      \* whether the cached token's expiresAt has passed
  issued,       \* Shopify: tokens issued
  pc,           \* where each call stands
  attempt,      \* its attempts so far, this one included
  asks,         \* requests for a token in this attempt
  token,        \* the token it holds
  sends,        \* history: requests of the call that went out
  refused       \* history: tokens the call has had refused

tokenVars == <<cachedToken, expired, issued>>
vars      == <<limiterVars, tokenVars, pc, attempt, asks, token, sends, refused>>

\* begin     an attempt is about to start
\* asking    a token request is out
\* ready     a token in hand, about to call acquire
\* acquiring inside acquire
\* sent      the request is out
Locations == {"begin", "asking", "ready", "acquiring", "sent", "returned", "threw"}

ClientTypeOK ==
  /\ cachedToken \in 0 .. issued /\ expired \in BOOLEAN /\ issued \in Nat
  /\ pc \in [Calls -> Locations]
  /\ attempt \in [Calls -> 1 .. MaxAttempts] /\ asks \in [Calls -> 0 .. TokenAttempts]
  /\ token \in [Calls -> 0 .. issued]
  /\ sends \in [Calls -> Nat] /\ refused \in [Calls -> SUBSET (0 .. issued)]

TypeOK == LimiterTypeOK /\ ClientTypeOK

Init ==
  /\ LimiterInit
  /\ cachedToken = 0 /\ expired = FALSE /\ issued = 0
  /\ pc = [c \in Calls |-> "begin"] /\ attempt = [c \in Calls |-> 1]
  /\ asks = [c \in Calls |-> 0] /\ token = [c \in Calls |-> 0]
  /\ sends = [c \in Calls |-> 0] /\ refused = [c \in Calls |-> {}]

At(c, l)   == pc[c] = l
Goto(c, l) == pc' = [pc EXCEPT ![c] = l]

(***************************************************************************)
(* withRetry around the request.                                           *)
(***************************************************************************)
Throw(c) == Goto(c, "threw") /\ UNCHANGED attempt

\* mutate turns retry off for what must not be replayed.
Replayable(c) == c \in Idempotent

\* assertNoUserErrors may still throw on a good answer.
Settle(c) == (Goto(c, "returned") \/ Goto(c, "threw")) /\ UNCHANGED attempt

\* FAULT: a mutation is retried like a query.
Retry_always(c) ==
  \/ /\ attempt[c] < MaxAttempts
     /\ attempt' = [attempt EXCEPT ![c] = @ + 1]
     /\ Goto(c, "begin")
  \/ attempt[c] = MaxAttempts /\ Throw(c)

\* A retryable error: another attempt, if this call has any.
Retry(c) ==
  \/ /\ Replayable(c) /\ attempt[c] < MaxAttempts
     /\ attempt' = [attempt EXCEPT ![c] = @ + 1]
     /\ Goto(c, "begin")
  \/ /\ ~Replayable(c) \/ attempt[c] = MaxAttempts
     /\ Throw(c)

(***************************************************************************)
(* getAccessToken.                                                         *)
(***************************************************************************)
UseCached(c) ==
  /\ At(c, "begin") /\ cachedToken # 0 /\ ~expired
  /\ token' = [token EXCEPT ![c] = cachedToken]
  /\ Goto(c, "ready")
  /\ UNCHANGED <<limiterVars, tokenVars, attempt, asks, sends, refused>>

AskToken(c) ==
  /\ At(c, "begin") /\ (cachedToken = 0 \/ expired)
  /\ asks' = [asks EXCEPT ![c] = 1]
  /\ Goto(c, "asking")
  /\ UNCHANGED <<limiterVars, tokenVars, attempt, token, sends, refused>>

TokenArrives(c) ==
  /\ At(c, "asking")
  /\ issued' = issued + 1 /\ cachedToken' = issued + 1 /\ expired' = FALSE
  /\ token' = [token EXCEPT ![c] = issued + 1]
  /\ Goto(c, "ready")
  /\ UNCHANGED <<limiterVars, attempt, asks, sends, refused>>

\* 429, 5xx or no answer, and an attempt left.
TokenRetry(c) ==
  /\ At(c, "asking") /\ asks[c] < TokenAttempts
  /\ asks' = [asks EXCEPT ![c] = @ + 1]
  /\ UNCHANGED <<limiterVars, tokenVars, pc, attempt, token, sends, refused>>

\* The request is refused for good, the answer has the wrong shape, or the
\* attempts are used up.  None of these errors is retryable.
TokenFails(c) ==
  /\ At(c, "asking")
  /\ Throw(c)
  /\ UNCHANGED <<limiterVars, tokenVars, asks, token, sends, refused>>

Expire ==
  /\ cachedToken # 0 /\ ~expired
  /\ expired' = TRUE
  /\ UNCHANGED <<limiterVars, cachedToken, issued, pc, attempt, asks, token, sends, refused>>

(***************************************************************************)
(* One attempt, from acquire on.                                           *)
(***************************************************************************)
Join(c) ==
  /\ At(c, "ready") /\ Acquire(c)
  /\ Goto(c, "acquiring")
  /\ UNCHANGED <<tokenVars, attempt, asks, token, sends, refused>>

WaitForCapacity(c) ==
  /\ At(c, "acquiring") /\ EnterAndWait(c)
  /\ UNCHANGED <<tokenVars, pc, attempt, asks, token, sends, refused>>

\* The promise of acquire resolves and the request goes out.
Send(c) ==
  /\ At(c, "acquiring") /\ (EnterAndGo(c) \/ WakeAndGo(c))
  /\ sends' = [sends EXCEPT ![c] = @ + 1]
  /\ Goto(c, "sent")
  /\ UNCHANGED <<tokenVars, attempt, asks, token, refused>>

\* FAULT: the retry after a 401 finds the same token in the cache.
Refused_keepsToken(c) ==
  /\ At(c, "sent") /\ Release(c) /\ Retry(c)
  /\ refused' = [refused EXCEPT ![c] = @ \cup {token[c]}]
  /\ UNCHANGED <<readingVars, tokenVars, asks, token, sends>>

\* 401: whatever token is cached is dropped.
Refused(c) ==
  /\ At(c, "sent") /\ Release(c) /\ Retry(c)
  /\ cachedToken' = 0 /\ expired' = FALSE
  /\ refused' = [refused EXCEPT ![c] = @ \cup {token[c]}]
  /\ UNCHANGED <<readingVars, issued, asks, token, sends>>

\* 429, 5xx, or the connection failed.
Transient(c) ==
  /\ At(c, "sent") /\ Release(c) /\ Retry(c)
  /\ UNCHANGED <<readingVars, tokenVars, asks, token, sends, refused>>

\* FAULT: release is not in a finally block.
Fatal_keepsReservation(c) ==
  /\ At(c, "sent") /\ Throw(c)
  /\ UNCHANGED <<limiterVars, tokenVars, asks, token, sends, refused>>

\* Any other status, or a body that is not JSON.
Fatal(c) ==
  /\ At(c, "sent") /\ Release(c) /\ Throw(c)
  /\ UNCHANGED <<readingVars, tokenVars, asks, token, sends, refused>>

Throttled(c) ==
  /\ At(c, "sent") /\ Release(c) /\ MarkThrottled /\ Retry(c)
  /\ UNCHANGED <<tokenVars, asks, token, sends, refused>>

\* A body, with its cost or without.
Answered(c) ==
  /\ At(c, "sent") /\ Release(c) /\ Settle(c)
  /\ \/ \E a \in Readings, r \in Rates, n \in Costs \cup {0} : Record(a, r, n)
     \/ UNCHANGED readingVars
  /\ UNCHANGED <<tokenVars, asks, token, sends, refused>>

Call(c) ==
  \/ UseCached(c) \/ AskToken(c) \/ TokenArrives(c) \/ TokenRetry(c) \/ TokenFails(c)
  \/ Join(c) \/ WaitForCapacity(c) \/ Send(c)
  \/ Refused(c) \/ Transient(c) \/ Fatal(c) \/ Throttled(c) \/ Answered(c)

TimePasses == Restore /\ UNCHANGED <<tokenVars, pc, attempt, asks, token, sends, refused>>

Next == Expire \/ TimePasses \/ \E c \in Calls : Call(c)

Spec == Init /\ [][Next]_vars

\* The event loop runs every continuation, an awaited fetch settles, and time passes.
FairSpec == Spec /\ WF_vars(TimePasses) /\ \A c \in Calls : WF_vars(Call(c))

(***************************************************************************)
(* Properties.                                                             *)
(***************************************************************************)
InAir == {c \in Calls : At(c, "sent")}

\* However an attempt ends (an answer, a refusal, a throw, a throttle), the
\* limiter forgets it: it counts exactly the requests that are out (the finally
\* of shopifyGraphQL).
CountsWhatIsOut == inFlight = Cardinality(InAir)

Reserved(k, D) == MapThenSumSet(LAMBDA c : k[c], D)

\* The points reserved are those of the requests that are out (reservedPoints of
\* rate-limiter.ts): no fewer unless a release gave back more than its call had
\* reserved, no more unless one gave back less.
ReservesWhatIsOut ==
  /\ "over" \notin drift => Reserved(cost, InAir) <= reservedPoints
  /\ "under" \notin drift => reservedPoints <= Reserved(cost, InAir)

\* When c is let out on a reading, the bucket holds the points of all that are
\* out, and the floor.
HasItsOwnHeadroom(c) ==
  Send(c) /\ seen /\ rate > 0 => Reserved(cost', InAir') + Floor <= level

\* Two calls are let out on the same points only after a release gave back more
\* than its call had reserved, whatever costs are observed (acquire serializes,
\* waitForCapacity reserves; what goes wrong after that is client_shared's).
HeadroomIsNotShared ==
  [][\A c \in Calls : "over" \notin drift => HasItsOwnHeadroom(c)]_vars

\* A mutation that must not be replayed goes out at most once, whatever the
\* answer, though the token request before it is retried (mutate, GraphQLOptions).
SentOnce == \A c \in Calls \ Idempotent : sends[c] <= 1

\* A token refused to a call is not presented by it again: whatever other calls
\* do to the cache meanwhile, the retry after a 401 has another token.
RefusedTokenIsDropped ==
  [][\A c \in Calls : Send(c) => token[c] \notin refused[c]]_vars

\* Every call returns or throws, no attempt being lost in the limiter's queue and
\* the retries being bounded, unless a release gave back less than its call had
\* reserved (where that leads is client_leak's).
EveryCallSettles ==
  <>("under" \in drift \/ \A c \in Calls : pc[c] \in {"returned", "threw"})

(***************************************************************************)
(* What the comments of rate-limiter.ts say and the code does not do.      *)
(***************************************************************************)
\* "Serialized so concurrent callers cannot both see the same headroom"
\* (rate-limiter.ts:90), of all costs and releases.
CallersSeeTheirOwnHeadroom == [][\A c \in Calls : HasItsOwnHeadroom(c)]_vars

\* "Waits until the projected bucket can absorb the estimated cost"
\* (rate-limiter.ts:88): with no request out and the bucket full, there is room
\* for any call whose cost and the floor a full bucket can hold.
FullBucketServes ==
  seen /\ rate > 0 /\ level = Maximum /\ inFlight = 0 =>
    \A c \in Calls : Waiting(c) /\ cost[c] + Floor <= Maximum => HasCapacity(cost[c])
=============================================================================
