---------------------------- MODULE BatchScripts ----------------------------
(***************************************************************************)
(* The scripts that write to the shop item by item: generate-products      *)
(* creates products, teardown-products deletes the tagged ones,            *)
(* populate-inventory activates and stocks them.  Each lists its items     *)
(* (the latter two with paginate.ts) and works them off with a pool whose  *)
(* workers share an index; every write is a mutate() of mutations.ts,      *)
(* retried by retry.ts only when it is idempotent.                         *)
(*                                                                         *)
(* Several scripts run at once on one shop, which is external: it may      *)
(* refuse a write, lose an answer, or carry a write out long after its     *)
(* caller gave up, and its search index lags behind the tags.  A variant   *)
(* is not told from its product.                                           *)
(***************************************************************************)
EXTENDS Naturals, Sequences, FiniteSets

CONSTANTS
  Scripts,     \* runs of the scripts
  Scenes,      \* which script each run may be, and what may happen to it
  Lanes,       \* the pool of a run has workers 1 .. Lanes[s]
  Attempts,    \* maxAttempts of an idempotent request
  PageSize,    \* products on a page
  Count,       \* COUNT, the products a generator makes
  Limit,       \* LIMIT, or more than there are items
  Locations,   \* the shop's locations
  Plan,        \* buildPlan: the locations a run writes for its i-th item
  Seeded,      \* products 1 .. Seeded are in the shop from the start
  MaxProducts, \* bound: products the shop ever has
  MaxItems     \* bound: items of a run

Kinds   == {"generate", "teardown", "populate"}
Ids     == 1 .. MaxProducts
Items   == 1 .. MaxItems
Workers(s) == 1 .. Lanes[s]
Threads == UNION {{s} \X Workers(s) : s \in Scripts}

ASSUME SizeAssumption ==
  /\ Lanes \in [Scripts -> Nat \ {0}] /\ Attempts \in Nat \ {0} /\ PageSize \in Nat \ {0}
  /\ Count \in Nat /\ Limit \in Nat \ {0}
  /\ MaxProducts \in Nat /\ Seeded \in 0 .. MaxProducts
  /\ MaxItems \in Nat /\ Count <= MaxItems
ASSUME SceneAssumption ==
  Scenes \subseteq [kind     : [Scripts -> Kinds],  \* the scripts
                    untag    : SUBSET Ids,          \* bound: products that may lack the tag, or lose it
                    stalling : SUBSET Scripts,      \* bound: runs whose cursor may stall
                    stuck    : SUBSET Scripts,      \* those of them whose cursor always does
                    mortal   : SUBSET Scripts,      \* bound: runs that may be killed
                    starved  : SUBSET Scripts,      \* runs of which a call may wait for ever in the limiter
                    losses   : Nat]                 \* bound: answers that are lost
ASSUME ScriptAssumption == Scripts \cap {"none", "active"} = {}
ASSUME PlanAssumption == Plan \in [Scripts \X Items -> Seq(Locations)]

VARIABLES
  live, last,       \* shop: products it has; the last id given out
  tagged, indexed,  \* shop: products with GENERATED_TAG; those a search for it finds
  level, keys,      \* shop: who set the stock of a product at a location; idempotency keys seen
  lost,             \* answers lost so far
  late,             \* requests whose caller has given up, not yet carried out
  scene,            \* which of the scenes is played
  pc,               \* how far it is
  cursor, before,   \* paginate: cursor and previousCursor, 0 for null
  list,             \* the items of a run
  next,             \* the index its workers share
  result,           \* the outcome of each item
  item, step,       \* worker: the index it works on, and which of its requests
  attempt, call,    \* worker: attempt of the request, and what has become of it
  effects,          \* history: how often the write of an item took effect
  untagged,         \* history: products without the tag ever since the run began
  stayed            \* history: products a search has found ever since the run began

shopVars   == <<live, last, tagged, indexed, level, keys, effects, untagged, stayed>>
listVars   == <<cursor, before, list>>
kind       == scene.kind
poolVars   == <<next, result, item, step, attempt, call>>
vars       == <<shopVars, lost, late, scene, pc, listVars, poolVars>>

Levels    == {"none", "active"} \cup Scripts
Requests  == [op : {"create", "delete", "activate", "set"}, s : Scripts, i : Items, step : Nat, n : 1 .. Attempts]
Found     == live \cap tagged \cap indexed
Smaller(m, n) == IF m < n THEN m ELSE n

TypeOK ==
  /\ live \subseteq Ids /\ last \in 0 .. MaxProducts /\ tagged \subseteq Ids /\ indexed \subseteq Ids
  /\ level \in [Ids \X Locations -> Levels] /\ late \subseteq Requests /\ lost \in 0 .. scene.losses
  /\ scene \in Scenes
  /\ pc \in [Scripts -> {"scopes", "list", "work", "done", "failed", "killed"}]
  /\ cursor \in [Scripts -> 0 .. MaxProducts] /\ before \in [Scripts -> 0 .. MaxProducts]
  /\ list \in [Scripts -> Seq(Nat)] /\ \A s \in Scripts : Len(list[s]) <= MaxItems
  /\ next \in [Scripts -> Nat \ {0}] /\ result \in [Scripts \X Items -> {"none", "ok", "failed"}]
  /\ item \in [Threads -> Nat] /\ step \in [Threads -> Nat] /\ attempt \in [Threads -> 1 .. Attempts]
  /\ call \in [Threads -> {"idle", "sent", "left"}]
  /\ \A t \in Threads : call[t] = "sent" => item[t] \in 1 .. Len(list[t[1]])
  /\ effects \in [Scripts \X Items -> Nat]
  /\ untagged \in [Scripts -> SUBSET Ids] /\ stayed \in [Scripts -> SUBSET Ids]

\* The index may be older than the tags.
Init ==
  /\ scene \in Scenes
  /\ live = 1 .. Seeded /\ last = Seeded /\ tagged \in {(1 .. Seeded) \ un : un \in SUBSET scene.untag}
  /\ indexed \in {tagged, 1 .. Seeded}
  /\ level = [at \in Ids \X Locations |-> "none"] /\ keys = {} /\ late = {} /\ lost = 0
  /\ pc = [s \in Scripts |-> "scopes"]
  /\ cursor = [s \in Scripts |-> 0] /\ before = [s \in Scripts |-> 0]
  /\ list = [s \in Scripts |-> <<>>] /\ next = [s \in Scripts |-> 1]
  /\ result = [w \in Scripts \X Items |-> "none"]
  /\ item = [t \in Threads |-> 0] /\ step = [t \in Threads |-> 1]
  /\ attempt = [t \in Threads |-> 1] /\ call = [t \in Threads |-> "idle"]
  /\ effects = [w \in Scripts \X Items |-> 0]
  /\ untagged = [s \in Scripts |-> {}] /\ stayed = [s \in Scripts |-> {}]

(***************************************************************************)
(* The shop.  A write is carried out whole or refused with userErrors.     *)
(***************************************************************************)
Product(r) == list[r.s][r.i]
Places(r)  == Plan[<<r.s, r.i>>]

\* idempotencyKey: what is written and where, the same in every run.
KeyOf(r) ==
  IF r.op = "activate"
  THEN <<"activate", Product(r), {Places(r)[r.step]}>>
  ELSE <<"set", Product(r), {Places(r)[k] : k \in DOMAIN Places(r)}>>

Took(r) == effects' = [effects EXCEPT ![<<r.s, r.i>>] = @ + 1]

\* productSet without an id makes a product; a search may not find it yet.
Create(r) ==
  /\ r.op = "create" /\ last < MaxProducts
  /\ last' = last + 1
  /\ live' = live \cup {last + 1} /\ tagged' = tagged \cup {last + 1}
  /\ indexed' \in {indexed, indexed \cup {last + 1}}
  /\ untagged' = [s \in Scripts |-> untagged[s] \ {last + 1}]
  /\ Took(r)
  /\ UNCHANGED <<level, keys, stayed>>

\* productDelete of a product that is gone is refused.
Delete(r) ==
  /\ r.op = "delete" /\ Product(r) \in live
  /\ live' = live \ {Product(r)}
  /\ stayed' = [s \in Scripts |-> stayed[s] \ {Product(r)}]
  /\ Took(r)
  /\ UNCHANGED <<last, tagged, indexed, level, keys, untagged>>

\* inventoryActivate leaves the level of an active item as it is.
Activate(r) ==
  /\ r.op = "activate" /\ Product(r) \in live
  /\ keys' = keys \cup {KeyOf(r)}
  /\ level' = [level EXCEPT ![<<Product(r), Places(r)[r.step]>>] =
                 IF KeyOf(r) \in keys \/ @ # "none" THEN @ ELSE "active"]
  /\ UNCHANGED <<live, last, tagged, indexed, effects, untagged, stayed>>

\* A key seen before answers inventorySetQuantities with the earlier success.  It
\* may or may not be refused for an item that is not active.
Set(r) ==
  /\ r.op = "set" /\ Product(r) \in live
  /\ \/ /\ KeyOf(r) \in keys
        /\ UNCHANGED <<level, keys, effects>>
     \/ /\ KeyOf(r) \notin keys
        /\ keys' = keys \cup {KeyOf(r)}
        /\ level' = [at \in Ids \X Locations |->
                       IF at[1] = Product(r) /\ \E k \in DOMAIN Places(r) : Places(r)[k] = at[2]
                       THEN r.s ELSE level[at]]
        /\ Took(r)
  /\ UNCHANGED <<live, last, tagged, indexed, untagged, stayed>>

Accept(r) == Create(r) \/ Delete(r) \/ Activate(r) \/ Set(r)

\* The merchant takes the tag off a product.
Untag(p) ==
  /\ p \in scene.untag \cap live \cap tagged
  /\ tagged' = tagged \ {p}
  /\ stayed' = [s \in Scripts |-> stayed[s] \ {p}]
  /\ UNCHANGED <<live, last, indexed, level, keys, effects, untagged, lost, late, scene, pc, listVars, poolVars>>

\* The index catches up with a product.
Reindex(p) ==
  /\ (p \in tagged) # (p \in indexed)
  /\ indexed' = IF p \in tagged THEN indexed \cup {p} ELSE indexed \ {p}
  /\ UNCHANGED <<live, last, tagged, level, keys, effects, untagged, stayed, lost, late, scene, pc, listVars, poolVars>>

(***************************************************************************)
(* The pool.  A worker takes the next index when it is done with its item; *)
(* nothing runs between the two.                                           *)
(***************************************************************************)
\* Places the workers on the first items.
Begin(s, items) ==
  /\ list' = [list EXCEPT ![s] = items]
  /\ pc' = [pc EXCEPT ![s] = IF items = <<>> THEN "done" ELSE "work"]
  /\ next' = [next EXCEPT ![s] = Lanes[s] + 1]
  /\ item' = [t \in Threads |-> IF t[1] = s THEN t[2] ELSE item[t]]
  /\ call' = [t \in Threads |-> IF t[1] # s THEN call[t]
                                ELSE IF t[2] <= Len(items) THEN "sent" ELSE "left"]
  /\ UNCHANGED <<result, step, attempt>>

\* FAULT: a worker goes on to the index after its own.
Claim_own(t) ==
  LET s == t[1]
  IN /\ item' = [item EXCEPT ![t] = @ + 1]
     /\ call' = [call EXCEPT ![t] = IF item[t] + 1 <= Len(list[s]) THEN "sent" ELSE "left"]
     /\ next' = [next EXCEPT ![s] = @ + 1]
     /\ step' = [step EXCEPT ![t] = 1] /\ attempt' = [attempt EXCEPT ![t] = 1]

\* FAULT: a worker does not notice the first index past the end.
Claim_over(t) ==
  LET s == t[1]
  IN /\ item' = [item EXCEPT ![t] = next[s]]
     /\ call' = [call EXCEPT ![t] = IF next[s] <= Len(list[s]) + 1 THEN "sent" ELSE "left"]
     /\ next' = [next EXCEPT ![s] = @ + 1]
     /\ step' = [step EXCEPT ![t] = 1] /\ attempt' = [attempt EXCEPT ![t] = 1]

Claim(t) ==
  LET s == t[1]
  IN /\ item' = [item EXCEPT ![t] = next[s]]
     /\ call' = [call EXCEPT ![t] = IF next[s] <= Len(list[s]) THEN "sent" ELSE "left"]
     /\ next' = [next EXCEPT ![s] = @ + 1]
     /\ step' = [step EXCEPT ![t] = 1] /\ attempt' = [attempt EXCEPT ![t] = 1]

\* The requests an item takes: a product is activated at each of its places,
\* then its levels are set.
Steps(s, i)  == IF kind[s] = "populate" THEN Len(Plan[<<s, i>>]) + 1 ELSE 1
OpOf(t)      == CASE kind[t[1]] = "generate" -> "create"
                  [] kind[t[1]] = "teardown" -> "delete"
                  [] OTHER -> IF step[t] < Steps(t[1], item[t]) THEN "activate" ELSE "set"
Request(t)   == [op |-> OpOf(t), s |-> t[1], i |-> item[t], step |-> step[t], n |-> attempt[t]]

Outcome(t, o) == result' = [result EXCEPT ![<<t[1], item[t]>>] = o] /\ Claim(t)

Accepted(t) ==
  IF step[t] < Steps(t[1], item[t])
  THEN /\ step' = [step EXCEPT ![t] = @ + 1] /\ attempt' = [attempt EXCEPT ![t] = 1]
       /\ UNCHANGED <<next, result, item, call>>
  ELSE Outcome(t, "ok")

\* FAULT: userErrors in an answer are not looked at.
Refused_unread(t) == Accepted(t)

\* A refusal is read from userErrors, or from errors.  An activation has no
\* userErrors to ask for, and one answered with a null level passes for done.
Refused(t) ==
  \/ Outcome(t, "failed")
  \/ OpOf(t) = "activate" /\ Accepted(t)

\* The shop carries a request out or refuses it, and its answer comes back:
\* the next request of the item, or its outcome.
Answer(t) ==
  /\ pc[t[1]] = "work" /\ call[t] = "sent"
  /\ \/ Accept(Request(t)) /\ Accepted(t)
     \/ UNCHANGED shopVars /\ Refused(t)
  /\ UNCHANGED <<lost, late, scene, pc, listVars>>

\* FAULT: a create is retried like the others.
MayRetry_any(t) == attempt[t] < Attempts

\* mutate retries what is declared idempotent.
MayRetry(t) == kind[t[1]] # "generate" /\ attempt[t] < Attempts

\* No answer arrives, or one that is an error: the request has been carried
\* out, never reaches the shop, or is carried out later.  Not every error is
\* one withRetry retries.
Lose(t) ==
  /\ pc[t[1]] = "work" /\ call[t] = "sent"
  /\ lost < scene.losses /\ lost' = lost + 1
  /\ \/ Accept(Request(t)) /\ UNCHANGED late
     \/ UNCHANGED <<shopVars, late>>
     \/ late' = late \cup {Request(t)} /\ UNCHANGED shopVars
  /\ \/ /\ MayRetry(t)
        /\ attempt' = [attempt EXCEPT ![t] = @ + 1]
        /\ UNCHANGED <<next, result, item, step, call>>
     \/ Outcome(t, "failed")
  /\ UNCHANGED <<scene, pc, listVars>>

LateServe(r) ==
  /\ r \in late
  /\ late' = late \ {r}
  /\ Accept(r) \/ UNCHANGED shopVars
  /\ UNCHANGED <<lost, scene, pc, listVars, poolVars>>

\* Promise.all: every worker has run out of items.
Finish(s) ==
  /\ pc[s] = "work" /\ \A k \in Workers(s) : call[<<s, k>>] = "left"
  /\ pc' = [pc EXCEPT ![s] = "done"]
  /\ UNCHANGED <<shopVars, lost, late, scene, listVars, poolVars>>

(***************************************************************************)
(* Listing.                                                                *)
(***************************************************************************)
Stop(s) == pc' = [pc EXCEPT ![s] = "failed"] /\ UNCHANGED <<list, poolVars>>

\* assertScopes; a generator goes on to its pool, the others list first.
Start(s) ==
  /\ pc[s] = "scopes"
  /\ \/ Stop(s)
     \/ /\ kind[s] = "generate"
        /\ Begin(s, [i \in 1 .. Smaller(Count, Limit) |-> i])
     \/ /\ kind[s] # "generate"
        /\ pc' = [pc EXCEPT ![s] = "list"]
        /\ UNCHANGED <<list, poolVars>>
  /\ untagged' = [untagged EXCEPT ![s] = Ids \ tagged]
  /\ stayed' = [stayed EXCEPT ![s] = Found]
  /\ UNCHANGED <<live, last, tagged, indexed, level, keys, effects, lost, late, scene, cursor, before>>

\* FAULT: pages are counted off, not taken after a product.
After_offset(s) == {p \in live \cap indexed : Cardinality({q \in live \cap indexed : q <= p}) > cursor[s]}

\* The products a search finds after the cursor, in the order of their ids.
After(s)    == {p \in live \cap indexed : p > cursor[s]}
PageOf(s)   == {p \in After(s) : Cardinality({q \in After(s) : q <= p}) <= PageSize}
InOrder(ps) == {q \in [1 .. Cardinality(ps) -> ps] : /\ \A p \in ps : \E i \in DOMAIN q : q[i] = p
                                                     /\ \A i, j \in DOMAIN q : i < j => q[i] < q[j]}

\* FAULT: what the search finds is not checked for the tag.
Kept_all(s) == PageOf(s)

\* A teardown checks the tag, which the search may have wrong.
Kept(s) == IF kind[s] = "teardown" THEN PageOf(s) \cap tagged ELSE PageOf(s)

\* LIMIT is for generate and populate.
Chosen(s, items) == IF kind[s] = "teardown" THEN items ELSE SubSeq(items, 1, Smaller(Len(items), Limit))

\* FAULT: the cursor is not checked.
Turn_on(s, end) ==
  /\ cursor' = [cursor EXCEPT ![s] = end] /\ before' = [before EXCEPT ![s] = cursor[s]]
  /\ UNCHANGED <<pc, poolVars>>

\* hasNextPage: on to the next page, unless the cursor is the one before the last.
Turn(s, end) ==
  IF end = before[s]
  THEN pc' = [pc EXCEPT ![s] = "failed"] /\ UNCHANGED <<cursor, before, poolVars>>
  ELSE /\ cursor' = [cursor EXCEPT ![s] = end] /\ before' = [before EXCEPT ![s] = cursor[s]]
       /\ UNCHANGED <<pc, poolVars>>

\* A page arrives.  The shop may answer with the cursor it was given.
FetchPage(s) ==
  /\ pc[s] = "list"
  /\ \E found \in InOrder(Kept(s)) :
       LET page    == PageOf(s)
           items   == list[s] \o found
           stalled == s \in scene.stuck /\ cursor[s] # 0
       IN /\ Len(items) <= MaxItems
          /\ \/ /\ page = After(s) /\ ~stalled
                /\ Begin(s, Chosen(s, items))
                /\ UNCHANGED <<cursor, before>>
             \/ /\ list' = [list EXCEPT ![s] = items]
                /\ \/ /\ page # After(s) /\ ~stalled
                      /\ \E p \in page : (\A q \in page : q <= p) /\ Turn(s, p)
                   \/ s \in scene.stalling /\ cursor[s] # 0 /\ Turn(s, cursor[s])
  /\ UNCHANGED <<shopVars, lost, late, scene>>

\* The request fails, its page does not parse or names no cursor, or there is
\* no location that ships.
FetchFails(s) ==
  /\ pc[s] = "list" /\ Stop(s)
  /\ UNCHANGED <<shopVars, lost, late, scene, cursor, before>>

\* The process is killed; what it sent may still arrive.
Kill(s) ==
  /\ s \in scene.mortal /\ pc[s] \in {"scopes", "list", "work"}
  /\ pc' = [pc EXCEPT ![s] = "killed"]
  /\ call' = [t \in Threads |-> IF t[1] = s THEN "left" ELSE call[t]]
  /\ \E under \in SUBSET {Request(t) : t \in {u \in Threads : u[1] = s /\ call[u] = "sent"}} :
       late' = late \cup under
  /\ UNCHANGED <<shopVars, lost, scene, listVars, next, result, item, step, attempt>>

AdvanceOf(s) ==
  \/ Start(s) \/ FetchPage(s) \/ Finish(s)
  \/ \E k \in Workers(s) : Answer(<<s, k>>) \/ Lose(<<s, k>>)

Advance == \E s \in Scripts : AdvanceOf(s)

Next ==
  \/ Advance
  \/ \E s \in Scripts : FetchFails(s) \/ Kill(s)
  \/ \E r \in late : LateServe(r)
  \/ \E p \in Ids : Untag(p) \/ Reindex(p)

Spec == Init /\ [][Next]_vars

\* A request is answered or given up, and a run goes on, unless its limiter holds
\* a call back for ever (FullBucketServes of ShopifyClient).
FairSpec == Spec /\ WF_vars(\E s \in Scripts \ scene.starved : AdvanceOf(s))

(***************************************************************************)
(* Properties.                                                             *)
(***************************************************************************)
\* Retries, answers that are lost and requests that arrive late never make a
\* write take effect twice: a create is sent once, a deleted product stays
\* deleted, and a key stops the second set (mutations.ts, idempotencyKey).
EffectOnce == \A w \in Scripts \X Items : effects[w] <= 1

\* What a run counts as done is done: the product was made, is gone, or has
\* levels that a run of populate has set at every place of its plan.
OkMeansDone ==
  \A s \in Scripts, i \in Items : result[<<s, i>>] = "ok" =>
    \/ kind[s] = "generate" /\ effects[<<s, i>>] > 0
    \/ kind[s] # "generate" /\ list[s][i] \notin live
    \/ /\ kind[s] = "populate"
       /\ \A k \in DOMAIN Plan[<<s, i>>] : level[<<list[s][i], Plan[<<s, i>>][k]>>] \in Scripts

\* "Seeded test data is not affected": whatever the index says, a teardown
\* deletes no product that had lost its tag before the run began.
SparesUntagged ==
  \A s \in Scripts : kind[s] = "teardown" =>
    \A i \in DOMAIN list[s] : effects[<<s, i>>] > 0 => list[s][i] \notin untagged[s]

\* Two workers are never on one item, and a run that is done has an outcome
\* for each of its items.
EachItemOnce ==
  \A s \in Scripts :
    /\ \A j, k \in Workers(s) :
         j # k /\ call[<<s, j>>] = "sent" /\ call[<<s, k>>] = "sent" => item[<<s, j>>] # item[<<s, k>>]
    /\ pc[s] = "done" => \A i \in DOMAIN list[s] : result[<<s, i>>] # "none"

\* While products come and go between pages, a teardown lists each one that a
\* search would have found all along.
ListedWhatStayed ==
  \A s \in Scripts : kind[s] = "teardown" /\ pc[s] \in {"work", "done"} =>
    stayed[s] \subseteq {list[s][i] : i \in DOMAIN list[s]}

\* The runs end, also when the shop's cursor does not advance (paginate.ts), and
\* beside others that are held back for ever; those need not.
ScriptsEnd == <>(\A s \in Scripts \ scene.starved : pc[s] \in {"done", "failed", "killed"})
=============================================================================
