------------------------- MODULE BatchScriptsProofs -------------------------
(***************************************************************************)
(* Theorems about BatchScripts, for any number of scripts, workers,        *)
(* attempts, products and items, and any plan.                             *)
(***************************************************************************)
EXTENDS BatchScripts, FiniteSetTheorems, SequenceTheorems, TLAPS

\* The steps of Next by what they do.
Listing(s) == Start(s) \/ FetchPage(s) \/ FetchFails(s)
Ending(s)  == Finish(s) \/ Kill(s)
Calling(t) == Answer(t) \/ Lose(t)
Churn(p)   == Untag(p) \/ Reindex(p)

LEMMA NextSteps ==
  ASSUME [Next]_vars
  PROVE  \/ \E s \in Scripts : Listing(s) \/ Ending(s)
         \/ \E t \in Threads : Calling(t)
         \/ \E r \in late : LateServe(r)
         \/ \E p \in Ids : Churn(p)
         \/ UNCHANGED vars
  <1>1. ASSUME Advance
        PROVE  \/ \E s \in Scripts : Listing(s) \/ Ending(s)
               \/ \E t \in Threads : Calling(t)
    <2>1. PICK s \in Scripts : AdvanceOf(s)
      BY <1>1 DEF Advance
    <2>2. CASE Start(s) \/ FetchPage(s) \/ Finish(s)
      BY <2>2, Zenon DEF Listing, Ending
    <2>3. ASSUME NEW k \in Workers(s), Answer(<<s, k>>) \/ Lose(<<s, k>>)
          PROVE  \E t \in Threads : Calling(t)
      <3>1. <<s, k>> \in Threads
        BY DEF Threads
      <3> QED BY <2>3, <3>1, Zenon DEF Calling
    <2> QED BY <2>1, <2>2, <2>3, Zenon DEF AdvanceOf
  <1> QED BY <1>1, Zenon DEF Next, Listing, Ending, Churn

(***************************************************************************)
(* Types.                                                                  *)
(***************************************************************************)
ShopTypes ==
  /\ live \subseteq Ids /\ last \in 0 .. MaxProducts /\ tagged \subseteq Ids /\ indexed \subseteq Ids
  /\ level \in [Ids \X Locations -> Levels]
  /\ effects \in [Scripts \X Items -> Nat]
  /\ untagged \in [Scripts -> SUBSET Ids] /\ stayed \in [Scripts -> SUBSET Ids]
NetTypes == late \subseteq Requests /\ lost \in 0 .. scene.losses /\ scene \in Scenes
RunTypes ==
  /\ pc \in [Scripts -> {"scopes", "list", "work", "done", "failed", "killed"}]
  /\ cursor \in [Scripts -> 0 .. MaxProducts] /\ before \in [Scripts -> 0 .. MaxProducts]
ListTypes == list \in [Scripts -> Seq(Nat)] /\ \A s \in Scripts : Len(list[s]) <= MaxItems
PoolTypes ==
  /\ next \in [Scripts -> Nat \ {0}] /\ result \in [Scripts \X Items -> {"none", "ok", "failed"}]
  /\ item \in [Threads -> Nat] /\ step \in [Threads -> Nat] /\ attempt \in [Threads -> 1 .. Attempts]
  /\ call \in [Threads -> {"idle", "sent", "left"}]
OnItems == \A t \in Threads : call[t] = "sent" => item[t] \in 1 .. Len(list[t[1]])

LEMMA TypeParts == TypeOK <=> ShopTypes /\ NetTypes /\ RunTypes /\ ListTypes /\ PoolTypes /\ OnItems
  BY Zenon DEF TypeOK, ShopTypes, NetTypes, RunTypes, ListTypes, PoolTypes, OnItems

LEMMA TypePartsNext ==
  ASSUME ShopTypes', NetTypes', RunTypes', ListTypes', PoolTypes', OnItems'
  PROVE  TypeOK'
  BY Zenon DEF TypeOK, ShopTypes, NetTypes, RunTypes, ListTypes, PoolTypes, OnItems

LEMMA ThreadParts ==
  /\ \A t \in Threads : t[1] \in Scripts /\ t[2] \in Workers(t[1]) /\ t = <<t[1], t[2]>>
  /\ \A s \in Scripts : \A k \in Workers(s) : <<s, k>> \in Threads
  BY DEF Threads

LEMMA WorkerNumbers == \A s \in Scripts : Lanes[s] \in Nat /\ Lanes[s] >= 1 /\ Workers(s) = 1 .. Lanes[s]
  BY SizeAssumption DEF Workers

LEMMA SceneKinds ==
  ASSUME scene \in Scenes
  PROVE  /\ kind \in [Scripts -> Kinds] /\ scene.untag \subseteq Ids /\ scene.losses \in Nat
  BY SceneAssumption DEF kind

\* A request as a thread makes it.
LEMMA RequestType ==
  ASSUME NetTypes, ListTypes, PoolTypes, OnItems, NEW t \in Threads, call[t] = "sent"
  PROVE  /\ Request(t) \in Requests
         /\ Request(t).s = t[1] /\ Request(t).i = item[t] /\ Request(t).op = OpOf(t)
         /\ Request(t).step = step[t] /\ Request(t).n = attempt[t]
         /\ item[t] \in 1 .. Len(list[t[1]]) /\ item[t] \in Items
  <1>1. t[1] \in Scripts /\ item[t] \in 1 .. Len(list[t[1]]) /\ Len(list[t[1]]) \in Nat /\ Len(list[t[1]]) <= MaxItems
    BY ThreadParts DEF OnItems, ListTypes
  <1>2. item[t] \in Items
    BY <1>1, SizeAssumption DEF Items
  <1>3. step[t] \in Nat /\ attempt[t] \in 1 .. Attempts
    BY DEF PoolTypes
  <1>4. OpOf(t) \in {"create", "delete", "activate", "set"}
    BY DEF OpOf
  <1> QED BY <1>1, <1>2, <1>3, <1>4 DEF Request, Requests

LEMMA ShopStepTypes ==
  ASSUME ShopTypes, NEW r \in Requests, Accept(r)
  PROVE  ShopTypes'
  <1>0. r.s \in Scripts /\ r.i \in Items /\ <<r.s, r.i>> \in Scripts \X Items
    BY DEF Requests
  <1>1. Took(r) => effects' \in [Scripts \X Items -> Nat]
    BY <1>0 DEF Took, ShopTypes
  <1>2. CASE Create(r)
    <2>1. last \in Nat /\ last + 1 \in Ids /\ last + 1 \in 0 .. MaxProducts
      BY <1>2, SizeAssumption DEF Create, ShopTypes, Ids
    <2> QED BY <1>1, <1>2, <2>1 DEF Create, ShopTypes
  <1>3. CASE Delete(r)
    BY <1>1, <1>3 DEF Delete, ShopTypes
  <1>4. CASE Activate(r)
    <2>1. level' \in [Ids \X Locations -> Levels]
      BY <1>4 DEF Activate, ShopTypes, Levels
    <2> QED BY <1>4, <2>1 DEF Activate, ShopTypes
  <1>5. CASE Set(r)
    <2>1. level' \in [Ids \X Locations -> Levels]
      BY <1>0, <1>5 DEF Set, ShopTypes, Levels
    <2>2. effects' \in [Scripts \X Items -> Nat]
      BY <1>1, <1>5 DEF Set, ShopTypes
    <2> QED BY <1>5, <2>1, <2>2 DEF Set, ShopTypes
  <1> QED BY <1>2, <1>3, <1>4, <1>5 DEF Accept

\* Where a thread goes after its item.
LEMMA ClaimSteps ==
  ASSUME ListTypes, PoolTypes, NEW t \in Threads, Claim(t)
  PROVE  /\ next' = [next EXCEPT ![t[1]] = next[t[1]] + 1] /\ next' \in [Scripts -> Nat \ {0}]
         /\ item' \in [Threads -> Nat] /\ step' \in [Threads -> Nat] /\ attempt' \in [Threads -> 1 .. Attempts]
         /\ call' \in [Threads -> {"idle", "sent", "left"}]
         /\ item'[t] = next[t[1]] /\ step'[t] = 1 /\ attempt'[t] = 1
         /\ next[t[1]] <= Len(list[t[1]]) => call'[t] = "sent"
         /\ next[t[1]] > Len(list[t[1]]) => call'[t] = "left"
         /\ \A u \in Threads \ {t} : /\ item'[u] = item[u] /\ step'[u] = step[u]
                                     /\ attempt'[u] = attempt[u] /\ call'[u] = call[u]
  <1>0. t[1] \in Scripts /\ next[t[1]] \in Nat \ {0} /\ Len(list[t[1]]) \in Nat
    BY ThreadParts DEF ListTypes, PoolTypes
  <1>1. 1 \in 1 .. Attempts
    BY SizeAssumption
  <1>2. /\ item' = [item EXCEPT ![t] = next[t[1]]]
        /\ call' = [call EXCEPT ![t] = IF next[t[1]] <= Len(list[t[1]]) THEN "sent" ELSE "left"]
        /\ next' = [next EXCEPT ![t[1]] = @ + 1]
        /\ step' = [step EXCEPT ![t] = 1] /\ attempt' = [attempt EXCEPT ![t] = 1]
    BY Zenon DEF Claim
  <1>3. next' = [next EXCEPT ![t[1]] = next[t[1]] + 1] /\ next' \in [Scripts -> Nat \ {0}]
    BY <1>0, <1>2 DEF PoolTypes
  <1>4. /\ item' \in [Threads -> Nat] /\ item'[t] = next[t[1]]
        /\ \A u \in Threads \ {t} : item'[u] = item[u]
    BY <1>0, <1>2 DEF PoolTypes
  <1>5. /\ step' \in [Threads -> Nat] /\ step'[t] = 1 /\ \A u \in Threads \ {t} : step'[u] = step[u]
    BY <1>2 DEF PoolTypes
  <1>6. /\ attempt' \in [Threads -> 1 .. Attempts] /\ attempt'[t] = 1
        /\ \A u \in Threads \ {t} : attempt'[u] = attempt[u]
    BY <1>1, <1>2 DEF PoolTypes
  <1>7. /\ call' \in [Threads -> {"idle", "sent", "left"}]
        /\ next[t[1]] <= Len(list[t[1]]) => call'[t] = "sent"
        /\ next[t[1]] > Len(list[t[1]]) => call'[t] = "left"
        /\ \A u \in Threads \ {t} : call'[u] = call[u]
    BY <1>0, <1>2 DEF PoolTypes
  <1> QED BY <1>3, <1>4, <1>5, <1>6, <1>7

LEMMA ClaimTypes ==
  ASSUME ListTypes, PoolTypes, OnItems, UNCHANGED list, NEW t \in Threads, Claim(t),
         result' \in [Scripts \X Items -> {"none", "ok", "failed"}]
  PROVE  PoolTypes' /\ OnItems'
  <1>1. PoolTypes'
    BY ClaimSteps DEF PoolTypes
  <1>2. t[1] \in Scripts /\ next[t[1]] \in Nat \ {0} /\ Len(list[t[1]]) \in Nat
    BY ThreadParts DEF ListTypes, PoolTypes
  <1>3. call'[t] = "sent" => item'[t] \in 1 .. Len(list[t[1]])
    <2>1. item'[t] = next[t[1]] /\ (next[t[1]] > Len(list[t[1]]) => call'[t] = "left")
      BY ClaimSteps
    <2> QED BY <1>2, <2>1
  <1>4. \A u \in Threads \ {t} : call'[u] = "sent" => item'[u] \in 1 .. Len(list[u[1]])
    BY ClaimSteps DEF OnItems
  <1> QED BY <1>1, <1>3, <1>4 DEF OnItems

LEMMA OutcomeTypes ==
  ASSUME NetTypes, ListTypes, PoolTypes, OnItems, UNCHANGED list, NEW t \in Threads, call[t] = "sent",
         NEW o \in {"ok", "failed"}, Outcome(t, o)
  PROVE  PoolTypes' /\ OnItems'
  <1>1. result' = [result EXCEPT ![<<t[1], item[t]>>] = o]
    BY Zenon DEF Outcome
  <1>2. result' \in [Scripts \X Items -> {"none", "ok", "failed"}]
    BY <1>1 DEF PoolTypes
  <1> QED BY <1>2, ClaimTypes DEF Outcome

\* An item goes on to its next request, or is done.
LEMMA AcceptedTypes ==
  ASSUME NetTypes, ListTypes, PoolTypes, OnItems, UNCHANGED list, NEW t \in Threads, call[t] = "sent",
         Accepted(t)
  PROVE  PoolTypes' /\ OnItems'
  <1>1. CASE step[t] < Steps(t[1], item[t])
    <2>1. /\ step' = [step EXCEPT ![t] = step[t] + 1] /\ attempt' = [attempt EXCEPT ![t] = 1]
          /\ UNCHANGED <<next, result, item, call>>
      BY <1>1 DEF Accepted
    <2>2. step[t] + 1 \in Nat /\ 1 \in 1 .. Attempts
      BY SizeAssumption DEF PoolTypes
    <2> QED BY <2>1, <2>2 DEF PoolTypes, OnItems
  <1>2. CASE ~(step[t] < Steps(t[1], item[t]))
    BY <1>2, OutcomeTypes DEF Accepted
  <1> QED BY <1>1, <1>2

\* A refusal is an outcome, or an activation passed over.
LEMMA Refusals ==
  ASSUME NEW t \in Threads, Refused(t)
  PROVE  \/ Outcome(t, "failed")
         \/ kind[t[1]] # "generate" /\ step[t] < Steps(t[1], item[t]) /\ Accepted(t)
  BY DEF Refused, OpOf

LEMMA AnswerTypes ==
  ASSUME TypeOK, NEW t \in Threads, Answer(t)
  PROVE  TypeOK'
  <1>0. ShopTypes /\ NetTypes /\ RunTypes /\ ListTypes /\ PoolTypes /\ OnItems
    BY TypeParts
  <1>1. call[t] = "sent" /\ UNCHANGED <<lost, late, scene, pc, cursor, before, list>>
    BY Zenon DEF Answer, listVars
  <1>2. NetTypes' /\ RunTypes' /\ ListTypes'
    BY <1>0, <1>1 DEF NetTypes, RunTypes, ListTypes
  <1>3. CASE Accept(Request(t)) /\ Accepted(t)
    <2>1. ShopTypes'
      BY <1>0, <1>1, <1>3, RequestType, ShopStepTypes
    <2>2. PoolTypes' /\ OnItems'
      BY <1>0, <1>1, <1>3, AcceptedTypes
    <2> QED BY <1>2, <2>1, <2>2, TypePartsNext
  <1>4. CASE UNCHANGED shopVars /\ Refused(t)
    <2>1. ShopTypes'
      BY <1>0, <1>4 DEF ShopTypes, shopVars
    <2>2. PoolTypes' /\ OnItems'
      BY <1>0, <1>1, <1>4, Refusals, AcceptedTypes, OutcomeTypes
    <2> QED BY <1>2, <2>1, <2>2, TypePartsNext
  <1>5. \/ Accept(Request(t)) /\ Accepted(t)
        \/ UNCHANGED shopVars /\ Refused(t)
    BY Zenon DEF Answer
  <1> QED BY <1>3, <1>4, <1>5

LEMMA LoseTypes ==
  ASSUME TypeOK, NEW t \in Threads, Lose(t)
  PROVE  TypeOK'
  <1>0. ShopTypes /\ NetTypes /\ RunTypes /\ ListTypes /\ PoolTypes /\ OnItems
    BY TypeParts
  <1>1. /\ call[t] = "sent" /\ UNCHANGED <<scene, pc, cursor, before, list>>
        /\ lost < scene.losses /\ lost' = lost + 1
    BY Zenon DEF Lose, listVars
  <1>2. RunTypes' /\ ListTypes'
    BY <1>0, <1>1 DEF RunTypes, ListTypes
  <1>3. lost' \in 0 .. scene'.losses
    BY <1>0, <1>1, SceneKinds DEF NetTypes
  <1>4. ShopTypes' /\ late' \subseteq Requests
    <2>1. CASE Accept(Request(t)) /\ UNCHANGED late
      BY <1>0, <1>1, <2>1, RequestType, ShopStepTypes DEF NetTypes
    <2>2. CASE UNCHANGED <<shopVars, late>>
      BY <1>0, <2>2 DEF ShopTypes, NetTypes, shopVars
    <2>3. CASE late' = late \cup {Request(t)} /\ UNCHANGED shopVars
      <3>1. ShopTypes'
        BY <1>0, <2>3 DEF ShopTypes, shopVars
      <3>2. Request(t) \in Requests
        BY <1>0, <1>1, RequestType
      <3> QED BY <1>0, <2>3, <3>1, <3>2 DEF NetTypes
    <2> QED BY <2>1, <2>2, <2>3 DEF Lose
  <1>5. NetTypes'
    BY <1>0, <1>1, <1>3, <1>4 DEF NetTypes
  <1>6. PoolTypes' /\ OnItems'
    <2>1. CASE MayRetry(t) /\ attempt' = [attempt EXCEPT ![t] = @ + 1] /\ UNCHANGED <<next, result, item, step, call>>
      <3>1. attempt[t] + 1 \in 1 .. Attempts
        BY <1>0, <2>1, SizeAssumption DEF MayRetry, PoolTypes
      <3>2. attempt' = [attempt EXCEPT ![t] = attempt[t] + 1]
        BY <2>1
      <3> QED BY <1>0, <1>1, <2>1, <3>1, <3>2 DEF PoolTypes, OnItems
    <2>2. CASE Outcome(t, "failed")
      BY <1>0, <1>1, <2>2, OutcomeTypes
    <2> QED BY <2>1, <2>2 DEF Lose
  <1> QED BY <1>2, <1>4, <1>5, <1>6, TypePartsNext

\* What a pool begins with.
LEMMA BeginSteps ==
  ASSUME ListTypes, PoolTypes, RunTypes, NEW s \in Scripts, NEW items \in Seq(Nat), Len(items) <= MaxItems,
         Begin(s, items)
  PROVE  /\ list' = [list EXCEPT ![s] = items] /\ list' \in [Scripts -> Seq(Nat)]
         /\ \A u \in Scripts : Len(list'[u]) <= MaxItems
         /\ pc' = [pc EXCEPT ![s] = IF items = <<>> THEN "done" ELSE "work"]
         /\ next' \in [Scripts -> Nat \ {0}] /\ next'[s] = Lanes[s] + 1
         /\ \A u \in Scripts \ {s} : next'[u] = next[u]
         /\ item' \in [Threads -> Nat] /\ call' \in [Threads -> {"idle", "sent", "left"}]
         /\ \A t \in Threads : t[1] = s => /\ item'[t] = t[2] /\ t[2] >= 1
                                           /\ t[2] <= Len(items) => call'[t] = "sent"
                                           /\ t[2] > Len(items) => call'[t] = "left"
         /\ \A t \in Threads : t[1] # s => item'[t] = item[t] /\ call'[t] = call[t]
         /\ UNCHANGED <<result, step, attempt>>
  <1>0. /\ list' = [list EXCEPT ![s] = items]
        /\ pc' = [pc EXCEPT ![s] = IF items = <<>> THEN "done" ELSE "work"]
        /\ next' = [next EXCEPT ![s] = Lanes[s] + 1]
        /\ item' = [t \in Threads |-> IF t[1] = s THEN t[2] ELSE item[t]]
        /\ call' = [t \in Threads |-> IF t[1] # s THEN call[t]
                                      ELSE IF t[2] <= Len(items) THEN "sent" ELSE "left"]
        /\ UNCHANGED <<result, step, attempt>>
    BY Zenon DEF Begin
  <1>1. list' \in [Scripts -> Seq(Nat)] /\ \A u \in Scripts : Len(list'[u]) <= MaxItems
    BY <1>0 DEF ListTypes
  <1>2. /\ next' \in [Scripts -> Nat \ {0}] /\ next'[s] = Lanes[s] + 1
        /\ \A u \in Scripts \ {s} : next'[u] = next[u]
    BY <1>0, WorkerNumbers DEF PoolTypes
  <1>3. \A t \in Threads : t[2] \in Nat /\ t[2] >= 1
    BY ThreadParts, WorkerNumbers
  <1>4. /\ item' \in [Threads -> Nat]
        /\ \A t \in Threads : (t[1] = s => item'[t] = t[2]) /\ (t[1] # s => item'[t] = item[t])
    BY <1>0, <1>3 DEF PoolTypes
  <1>5. call' \in [Threads -> {"idle", "sent", "left"}]
    BY <1>0 DEF PoolTypes
  <1>6. \A t \in Threads : /\ t[1] = s /\ t[2] <= Len(items) => call'[t] = "sent"
                           /\ t[1] = s /\ t[2] > Len(items) => call'[t] = "left"
                           /\ t[1] # s => call'[t] = call[t]
    BY <1>0, <1>3
  <1> QED BY <1>0, <1>1, <1>2, <1>3, <1>4, <1>5, <1>6

LEMMA BeginTypes ==
  ASSUME ListTypes, PoolTypes, OnItems, RunTypes, NEW s \in Scripts, NEW items \in Seq(Nat),
         Len(items) <= MaxItems, Begin(s, items)
  PROVE  ListTypes' /\ PoolTypes' /\ OnItems'
         /\ pc' \in [Scripts -> {"scopes", "list", "work", "done", "failed", "killed"}]
  <1>1. ListTypes'
    BY BeginSteps DEF ListTypes
  <1>2. PoolTypes'
    BY BeginSteps DEF PoolTypes
  <1>3. ASSUME NEW t \in Threads, call'[t] = "sent"
        PROVE  item'[t] \in 1 .. Len(list'[t[1]])
    <2>1. CASE t[1] = s
      <3>1. list'[s] = items /\ Len(items) \in Nat
        BY BeginSteps DEF ListTypes
      <3>2. t[2] \in Nat /\ item'[t] = t[2] /\ t[2] >= 1 /\ (t[2] > Len(items) => call'[t] = "left")
        BY <2>1, BeginSteps, ThreadParts, WorkerNumbers
      <3> QED BY <1>3, <2>1, <3>1, <3>2
    <2>2. CASE t[1] # s
      <3>1. t[1] \in Scripts
        BY ThreadParts
      <3>2. list' = [list EXCEPT ![s] = items] /\ item'[t] = item[t] /\ call'[t] = call[t]
        BY <2>2, BeginSteps
      <3>3. list'[t[1]] = list[t[1]]
        BY <2>2, <3>1, <3>2 DEF ListTypes
      <3> QED BY <1>3, <3>2, <3>3 DEF OnItems
    <2> QED BY <2>1, <2>2
  <1>4. pc' \in [Scripts -> {"scopes", "list", "work", "done", "failed", "killed"}]
    BY BeginSteps DEF RunTypes
  <1> QED BY <1>1, <1>2, <1>3, <1>4 DEF OnItems

\* What a page holds, and the items of a run after it.
LEMMA FoundTypes ==
  ASSUME ShopTypes, NEW s \in Scripts, NEW found \in InOrder(Kept(s))
  PROVE  /\ found \in Seq(Nat) /\ \A i \in DOMAIN found : found[i] \in Kept(s)
         /\ \A p \in Kept(s) : \E i \in DOMAIN found : found[i] = p
         /\ Kept(s) \subseteq live
  <1>1. MaxProducts \in Nat /\ IsFiniteSet(Ids) /\ Ids \subseteq Nat
    BY SizeAssumption, FS_Interval DEF Ids
  <1>2. Kept(s) \subseteq live /\ Kept(s) \subseteq Ids
    BY DEF Kept, PageOf, After, ShopTypes
  <1>3. IsFiniteSet(Kept(s))
    BY <1>1, <1>2, FS_Subset
  <1>4. Cardinality(Kept(s)) \in Nat
    BY <1>3, FS_CardinalityType
  <1>5. /\ found \in [1 .. Cardinality(Kept(s)) -> Kept(s)]
        /\ \A p \in Kept(s) : \E i \in DOMAIN found : found[i] = p
    BY Zenon DEF InOrder
  <1>6. found \in [1 .. Cardinality(Kept(s)) -> Nat]
    BY <1>1, <1>2, <1>5
  <1>7. found \in Seq(Nat)
    BY <1>4, <1>6, SeqDef
  <1> QED BY <1>2, <1>5, <1>7

LEMMA ChosenTypes ==
  ASSUME NEW s \in Scripts, NEW items \in Seq(Nat)
  PROVE  /\ Chosen(s, items) \in Seq(Nat) /\ Len(Chosen(s, items)) \in Nat /\ Len(items) \in Nat
         /\ Len(Chosen(s, items)) <= Len(items)
         /\ \A i \in DOMAIN Chosen(s, items) : i \in DOMAIN items /\ Chosen(s, items)[i] = items[i]
  <1>1. Limit \in Nat /\ Len(items) \in Nat
    BY SizeAssumption
  <1>2. Smaller(Len(items), Limit) \in 0 .. Len(items)
    BY <1>1 DEF Smaller
  <1>3. /\ SubSeq(items, 1, Smaller(Len(items), Limit)) \in Seq(Nat)
        /\ Len(SubSeq(items, 1, Smaller(Len(items), Limit))) = Smaller(Len(items), Limit)
        /\ \A i \in 1 .. Smaller(Len(items), Limit) :
             SubSeq(items, 1, Smaller(Len(items), Limit))[i] = items[i]
    BY <1>1, <1>2
  <1> QED BY <1>1, <1>2, <1>3 DEF Chosen

LEMMA TurnTypes ==
  ASSUME RunTypes, PoolTypes, NEW s \in Scripts, NEW end \in 0 .. MaxProducts, Turn(s, end)
  PROVE  /\ RunTypes' /\ UNCHANGED poolVars
         /\ pc' = pc \/ pc' = [pc EXCEPT ![s] = "failed"]
  <1>1. CASE end = before[s]
    BY <1>1 DEF Turn, RunTypes
  <1>2. CASE end # before[s]
    BY <1>2 DEF Turn, RunTypes
  <1> QED BY <1>1, <1>2

LEMMA LongerList ==
  ASSUME ListTypes, OnItems, NEW s \in Scripts, NEW more \in Seq(Nat), Len(list[s] \o more) <= MaxItems,
         list' = [list EXCEPT ![s] = list[s] \o more], UNCHANGED poolVars
  PROVE  ListTypes' /\ OnItems'
  <1>1. list[s] \in Seq(Nat) /\ list[s] \o more \in Seq(Nat) /\ Len(list[s]) <= Len(list[s] \o more)
        /\ Len(list[s]) \in Nat /\ Len(list[s] \o more) \in Nat
    BY DEF ListTypes
  <1>2. ListTypes'
    BY <1>1 DEF ListTypes
  <1>3. item' = item /\ call' = call
    BY DEF poolVars
  <1>4. \A t \in Threads : Len(list'[t[1]]) \in Nat /\ Len(list[t[1]]) \in Nat /\ Len(list[t[1]]) <= Len(list'[t[1]])
    BY <1>1, ThreadParts DEF ListTypes
  <1>5. OnItems'
    BY <1>3, <1>4 DEF OnItems
  <1> QED BY <1>2, <1>5

LEMMA StartTypes ==
  ASSUME TypeOK, NEW s \in Scripts, Start(s)
  PROVE  TypeOK'
  <1>0. ShopTypes /\ NetTypes /\ RunTypes /\ ListTypes /\ PoolTypes /\ OnItems
    BY TypeParts
  <1>1. /\ UNCHANGED <<live, last, tagged, indexed, level, effects, lost, late, scene, cursor, before>>
        /\ untagged' = [untagged EXCEPT ![s] = Ids \ tagged] /\ stayed' = [stayed EXCEPT ![s] = Found]
    BY Zenon DEF Start
  <1>2. Found \subseteq Ids
    BY <1>0 DEF Found, ShopTypes
  <1>3. ShopTypes' /\ NetTypes'
    BY <1>0, <1>1, <1>2 DEF ShopTypes, NetTypes
  <1>4. ListTypes' /\ PoolTypes' /\ OnItems'
        /\ pc' \in [Scripts -> {"scopes", "list", "work", "done", "failed", "killed"}]
    <2>1. CASE Stop(s)
      BY <1>0, <2>1 DEF Stop, poolVars, ListTypes, PoolTypes, OnItems, RunTypes
    <2>2. CASE Begin(s, [i \in 1 .. Smaller(Count, Limit) |-> i])
      <3> DEFINE items == [i \in 1 .. Smaller(Count, Limit) |-> i]
      <3>1. Smaller(Count, Limit) \in Nat /\ Smaller(Count, Limit) <= MaxItems
        BY SizeAssumption DEF Smaller
      <3>2. items \in Seq(Nat) /\ Len(items) <= MaxItems
        BY <3>1
      <3> HIDE DEF items
      <3>3. Begin(s, items)
        BY <2>2 DEF items
      <3> QED BY <1>0, <3>2, <3>3, BeginTypes
    <2>3. CASE pc' = [pc EXCEPT ![s] = "list"] /\ UNCHANGED <<list, poolVars>>
      BY <1>0, <2>3 DEF poolVars, ListTypes, PoolTypes, OnItems, RunTypes
    <2>4. \/ Stop(s)
          \/ Begin(s, [i \in 1 .. Smaller(Count, Limit) |-> i])
          \/ pc' = [pc EXCEPT ![s] = "list"] /\ UNCHANGED <<list, poolVars>>
      BY Zenon DEF Start
    <2> QED BY <2>1, <2>2, <2>3, <2>4
  <1>5. RunTypes'
    BY <1>0, <1>1, <1>4 DEF RunTypes
  <1> QED BY <1>3, <1>4, <1>5, TypePartsNext

\* What a page does: the pool begins, or the listing goes on or fails.
LEMMA FetchSteps ==
  ASSUME TypeOK, NEW s \in Scripts, FetchPage(s)
  PROVE  /\ pc[s] = "list" /\ UNCHANGED <<shopVars, lost, late, scene>>
         /\ \E found \in InOrder(Kept(s)) :
              /\ list[s] \o found \in Seq(Nat) /\ Len(list[s] \o found) <= MaxItems
              /\ \/ /\ Begin(s, Chosen(s, list[s] \o found)) /\ PageOf(s) = After(s)
                    /\ UNCHANGED <<cursor, before>>
                 \/ /\ list' = [list EXCEPT ![s] = list[s] \o found]
                    /\ \E end \in 0 .. MaxProducts : Turn(s, end)
  <1>0. ShopTypes /\ NetTypes /\ RunTypes /\ ListTypes /\ PoolTypes /\ OnItems
    BY TypeParts
  <1>1. pc[s] = "list" /\ UNCHANGED <<shopVars, lost, late, scene>>
    BY Zenon DEF FetchPage
  <1>2. PICK found \in InOrder(Kept(s)) :
          /\ Len(list[s] \o found) <= MaxItems
          /\ \/ /\ PageOf(s) = After(s) /\ Begin(s, Chosen(s, list[s] \o found))
                /\ UNCHANGED <<cursor, before>>
             \/ /\ list' = [list EXCEPT ![s] = list[s] \o found]
                /\ \/ \E p \in PageOf(s) : Turn(s, p)
                   \/ Turn(s, cursor[s])
    BY Zenon DEF FetchPage
  <1>3. list[s] \o found \in Seq(Nat)
    BY <1>0, FoundTypes DEF ListTypes
  <1>4. \A p \in PageOf(s) : p \in 0 .. MaxProducts
    BY <1>0, SizeAssumption DEF PageOf, After, ShopTypes, Ids
  <1>5. cursor[s] \in 0 .. MaxProducts
    BY <1>0 DEF RunTypes
  <1> QED BY <1>1, <1>2, <1>3, <1>4, <1>5

LEMMA FetchTypes ==
  ASSUME TypeOK, NEW s \in Scripts, FetchPage(s)
  PROVE  TypeOK'
  <1>0. ShopTypes /\ NetTypes /\ RunTypes /\ ListTypes /\ PoolTypes /\ OnItems
    BY TypeParts
  <1>1. UNCHANGED <<shopVars, lost, late, scene>>
    BY FetchSteps
  <1>2. ShopTypes' /\ NetTypes'
    BY <1>0, <1>1 DEF ShopTypes, NetTypes, shopVars
  <1>3. PICK found \in InOrder(Kept(s)) :
              /\ list[s] \o found \in Seq(Nat) /\ Len(list[s] \o found) <= MaxItems
              /\ \/ Begin(s, Chosen(s, list[s] \o found)) /\ UNCHANGED <<cursor, before>>
                 \/ /\ list' = [list EXCEPT ![s] = list[s] \o found]
                    /\ \E end \in 0 .. MaxProducts : Turn(s, end)
    BY FetchSteps
  <1>4. RunTypes' /\ ListTypes' /\ PoolTypes' /\ OnItems'
    <2>1. CASE Begin(s, Chosen(s, list[s] \o found)) /\ UNCHANGED <<cursor, before>>
      <3>1. /\ Chosen(s, list[s] \o found) \in Seq(Nat) /\ Len(Chosen(s, list[s] \o found)) \in Nat
            /\ Len(Chosen(s, list[s] \o found)) <= Len(list[s] \o found) /\ Len(list[s] \o found) \in Nat
        BY <1>3, ChosenTypes
      <3>2. Len(Chosen(s, list[s] \o found)) <= MaxItems
        BY <1>3, <3>1, SizeAssumption
      <3>3. ListTypes' /\ PoolTypes' /\ OnItems'
            /\ pc' \in [Scripts -> {"scopes", "list", "work", "done", "failed", "killed"}]
        BY <1>0, <2>1, <3>1, <3>2, BeginTypes
      <3> QED BY <1>0, <2>1, <3>3 DEF RunTypes
    <2>2. CASE /\ list' = [list EXCEPT ![s] = list[s] \o found]
               /\ \E end \in 0 .. MaxProducts : Turn(s, end)
      <3>1. RunTypes' /\ UNCHANGED poolVars
        BY <1>0, <2>2, TurnTypes
      <3>2. found \in Seq(Nat)
        BY <1>0, FoundTypes
      <3>3. ListTypes' /\ OnItems'
        BY <1>0, <1>3, <2>2, <3>1, <3>2, LongerList
      <3>4. PoolTypes'
        BY <1>0, <3>1 DEF PoolTypes, poolVars
      <3> QED BY <3>1, <3>3, <3>4
    <2> QED BY <1>3, <2>1, <2>2
  <1> QED BY <1>2, <1>4, TypePartsNext

LEMMA EndTypes ==
  ASSUME TypeOK, NEW s \in Scripts, FetchFails(s) \/ Finish(s)
  PROVE  TypeOK'
  <1>0. ShopTypes /\ NetTypes /\ RunTypes /\ ListTypes /\ PoolTypes /\ OnItems
    BY TypeParts
  <1>1. /\ UNCHANGED <<shopVars, lost, late, scene, listVars, poolVars>>
        /\ pc' = [pc EXCEPT ![s] = "failed"] \/ pc' = [pc EXCEPT ![s] = "done"]
    BY Zenon DEF FetchFails, Finish, Stop, listVars
  <1>2. ShopTypes' /\ NetTypes' /\ RunTypes'
    BY <1>0, <1>1 DEF ShopTypes, NetTypes, RunTypes, shopVars, listVars
  <1>3. ListTypes' /\ PoolTypes' /\ OnItems'
    BY <1>0, <1>1 DEF ListTypes, PoolTypes, OnItems, listVars, poolVars
  <1> QED BY <1>2, <1>3, TypePartsNext

\* What a kill leaves: no thread of the run, and requests of its threads.
LEMMA KillSteps ==
  ASSUME TypeOK, NEW s \in Scripts, Kill(s)
  PROVE  /\ pc[s] \in {"scopes", "list", "work"} /\ pc' = [pc EXCEPT ![s] = "killed"]
         /\ UNCHANGED <<shopVars, lost, scene, listVars, next, result, item, step, attempt>>
         /\ \A t \in Threads : (t[1] = s => call'[t] = "left") /\ (t[1] # s => call'[t] = call[t])
         /\ call' \in [Threads -> {"idle", "sent", "left"}]
         /\ late \subseteq late'
         /\ \A r \in late' : r \in late \/ \E t \in Threads : t[1] = s /\ call[t] = "sent" /\ r = Request(t)
  <1>1. /\ pc[s] \in {"scopes", "list", "work"} /\ pc' = [pc EXCEPT ![s] = "killed"]
        /\ UNCHANGED <<shopVars, lost, scene, listVars, next, result, item, step, attempt>>
        /\ call' = [t \in Threads |-> IF t[1] = s THEN "left" ELSE call[t]]
    BY Zenon DEF Kill
  <1>2. PICK under \in SUBSET {Request(t) : t \in {u \in Threads : u[1] = s /\ call[u] = "sent"}} :
          late' = late \cup under
    BY Zenon DEF Kill
  <1>3. \A r \in under : \E t \in Threads : t[1] = s /\ call[t] = "sent" /\ r = Request(t)
    BY <1>2
  <1>4. call' \in [Threads -> {"idle", "sent", "left"}]
    BY <1>1 DEF TypeOK
  <1>5. \A t \in Threads : (t[1] = s => call'[t] = "left") /\ (t[1] # s => call'[t] = call[t])
    BY <1>1
  <1> QED BY <1>1, <1>2, <1>3, <1>4, <1>5

LEMMA KillTypes ==
  ASSUME TypeOK, NEW s \in Scripts, Kill(s)
  PROVE  TypeOK'
  <1>0. ShopTypes /\ NetTypes /\ RunTypes /\ ListTypes /\ PoolTypes /\ OnItems
    BY TypeParts
  <1>1. /\ pc' = [pc EXCEPT ![s] = "killed"]
        /\ UNCHANGED <<shopVars, lost, scene, listVars, next, result, item, step, attempt>>
        /\ \A t \in Threads : (t[1] = s => call'[t] = "left") /\ (t[1] # s => call'[t] = call[t])
        /\ call' \in [Threads -> {"idle", "sent", "left"}]
        /\ \A r \in late' : r \in late \/ \E t \in Threads : t[1] = s /\ call[t] = "sent" /\ r = Request(t)
    BY KillSteps
  <1>2. ShopTypes' /\ RunTypes' /\ ListTypes' /\ PoolTypes'
    BY <1>0, <1>1 DEF ShopTypes, RunTypes, ListTypes, PoolTypes, shopVars, listVars
  <1>3. \A t \in Threads : call[t] = "sent" => Request(t) \in Requests
    BY <1>0, RequestType
  <1>4. late' \subseteq Requests
    BY <1>0, <1>1, <1>3 DEF NetTypes
  <1>5. NetTypes'
    BY <1>0, <1>1, <1>4 DEF NetTypes
  <1>6. list' = list
    BY <1>1 DEF listVars
  <1>7. OnItems'
    BY <1>0, <1>1, <1>6 DEF OnItems
  <1> QED BY <1>2, <1>5, <1>7, TypePartsNext

LEMMA LateTypes ==
  ASSUME TypeOK, NEW r \in late, LateServe(r)
  PROVE  TypeOK'
  <1>0. ShopTypes /\ NetTypes /\ RunTypes /\ ListTypes /\ PoolTypes /\ OnItems
    BY TypeParts
  <1>1. /\ late' = late \ {r} /\ UNCHANGED <<lost, scene, pc, listVars, poolVars>>
        /\ Accept(r) \/ UNCHANGED shopVars
    BY Zenon DEF LateServe
  <1>2. NetTypes' /\ RunTypes'
    BY <1>0, <1>1 DEF NetTypes, RunTypes, listVars
  <1>3. ListTypes' /\ PoolTypes' /\ OnItems'
    BY <1>0, <1>1 DEF ListTypes, PoolTypes, OnItems, listVars, poolVars
  <1>4. r \in Requests
    BY <1>0 DEF NetTypes
  <1>5. CASE Accept(r)
    BY <1>0, <1>2, <1>3, <1>4, <1>5, ShopStepTypes, TypePartsNext
  <1>6. CASE UNCHANGED shopVars
    <2>1. ShopTypes'
      BY <1>0, <1>6 DEF ShopTypes, shopVars
    <2> QED BY <1>2, <1>3, <2>1, TypePartsNext
  <1> QED BY <1>1, <1>5, <1>6

LEMMA ChurnSteps ==
  ASSUME NEW p \in Ids, Churn(p)
  PROVE  /\ UNCHANGED <<live, last, level, keys, effects, untagged, lost, late, scene, pc, listVars, poolVars>>
         /\ \/ /\ p \in scene.untag /\ tagged' = tagged \ {p} /\ UNCHANGED indexed
               /\ stayed' = [s \in Scripts |-> stayed[s] \ {p}]
            \/ /\ indexed' \in {indexed \cup {p}, indexed \ {p}} /\ UNCHANGED <<tagged, stayed>>
               /\ p \in tagged => indexed' = indexed \cup {p}
  <1>1. CASE Untag(p)
    BY <1>1, Zenon DEF Untag
  <1>2. CASE Reindex(p)
    BY <1>2 DEF Reindex
  <1> QED BY <1>1, <1>2 DEF Churn

LEMMA ChurnTypes ==
  ASSUME TypeOK, NEW p \in Ids, Churn(p)
  PROVE  TypeOK'
  <1>0. ShopTypes /\ NetTypes /\ RunTypes /\ ListTypes /\ PoolTypes /\ OnItems
    BY TypeParts
  <1>1. /\ UNCHANGED <<live, last, level, keys, effects, untagged, lost, late, scene, pc, listVars, poolVars>>
        /\ tagged' = tagged \/ tagged' = tagged \ {p}
        /\ indexed' \in {indexed, indexed \cup {p}, indexed \ {p}}
        /\ stayed' = stayed \/ stayed' = [s \in Scripts |-> stayed[s] \ {p}]
    BY ChurnSteps
  <1>2. ShopTypes'
    BY <1>0, <1>1 DEF ShopTypes
  <1>3. NetTypes' /\ RunTypes'
    BY <1>0, <1>1 DEF NetTypes, RunTypes, listVars
  <1>4. ListTypes' /\ PoolTypes' /\ OnItems'
    BY <1>0, <1>1 DEF ListTypes, PoolTypes, OnItems, listVars, poolVars
  <1> QED BY <1>2, <1>3, <1>4, TypePartsNext

LEMMA TypeInit == Init => TypeOK
  <1> SUFFICES ASSUME Init PROVE TypeOK
    OBVIOUS
  <1>1. MaxProducts \in Nat /\ Seeded \in 0 .. MaxProducts /\ 1 .. Seeded \subseteq Ids /\ 1 \in 1 .. Attempts
    BY SizeAssumption DEF Ids
  <1>2. scene \in Scenes /\ scene.losses \in Nat
    BY SceneKinds DEF Init
  <1>3. ShopTypes
    BY <1>1 DEF Init, ShopTypes, Levels
  <1>4. NetTypes
    BY <1>2 DEF Init, NetTypes
  <1>5. RunTypes /\ ListTypes
    BY <1>1, SizeAssumption DEF Init, RunTypes, ListTypes
  <1>6. PoolTypes
    BY <1>1 DEF Init, PoolTypes
  <1>7. OnItems
    BY DEF Init, OnItems
  <1> QED BY <1>3, <1>4, <1>5, <1>6, <1>7, TypeParts

LEMMA TypeStep == TypeOK /\ [Next]_vars => TypeOK'
  <1> SUFFICES ASSUME TypeOK, [Next]_vars PROVE TypeOK'
    OBVIOUS
  <1>1. CASE \E s \in Scripts : Listing(s) \/ Ending(s)
    BY <1>1, StartTypes, FetchTypes, EndTypes, KillTypes DEF Listing, Ending
  <1>2. CASE \E t \in Threads : Calling(t)
    BY <1>2, AnswerTypes, LoseTypes DEF Calling
  <1>3. CASE \E r \in late : LateServe(r)
    BY <1>3, LateTypes
  <1>4. CASE \E p \in Ids : Churn(p)
    BY <1>4, ChurnTypes
  <1>5. CASE UNCHANGED vars
    BY <1>5, Zenon DEF vars, shopVars, listVars, poolVars, TypeOK
  <1> QED BY <1>1, <1>2, <1>3, <1>4, <1>5, NextSteps

\* Every state of the scripts and of the shop has its type: a run lists no
\* more than its bound, and a worker that is waiting is on one of its items.
THEOREM TypeCorrect == Spec => []TypeOK
  <1> QED BY TypeInit, TypeStep, PTL DEF Spec

(***************************************************************************)
(* The invariant, in layers.                                               *)
(***************************************************************************)
Waiting(s) == pc[s] \in {"scopes", "list"}
Sent(t)    == call[t] = "sent"
On(t, s, i) == t[1] = s /\ call[t] = "sent" /\ item[t] = i

\* A create takes one request, sent once.
Single == \A t \in Threads : kind[t[1]] = "generate" => step[t] = 1 /\ attempt[t] = 1

\* A run that lists has written nothing and counts nothing as done.
Quiet ==
  \A s \in Scripts :
    /\ Waiting(s) => \A i \in Items : effects[<<s, i>>] = 0 /\ result[<<s, i>>] = "none"
    /\ pc[s] = "scopes" => list[s] = <<>> /\ cursor[s] = 0

\* Workers are on items below the shared index, each on its own.
Apart ==
  /\ \A t \in Threads : Sent(t) => pc[t[1]] = "work" /\ item[t] < next[t[1]]
  /\ \A t, u \in Threads : t[1] = u[1] /\ t # u /\ Sent(t) /\ Sent(u) => item[t] # item[u]

\* What has no outcome yet is on its way or still to come.
Pending(s, i) ==
  /\ pc[s] = "work"
  /\ i >= next[s] \/ \E t \in Threads : On(t, s, i)
Accounted ==
  /\ \A t \in Threads : pc[t[1]] = "work" => Sent(t) \/ next[t[1]] > Len(list[t[1]])
  /\ \A s \in Scripts : pc[s] \in {"work", "done"} =>
       \A i \in DOMAIN list[s] : result[<<s, i>>] # "none" \/ Pending(s, i)

\* A request fits the script it is from.
Fits(r) ==
  /\ kind[r.s] = "generate" => r.op = "create" /\ r.step = 1 /\ r.n = 1
  /\ kind[r.s] = "teardown" => r.op = "delete"
  /\ kind[r.s] = "populate" => r.op \in {"activate", "set"}
Requested == \A r \in late : ~Waiting(r.s) /\ r.i \in 1 .. Len(list[r.s]) /\ r.i < next[r.s] /\ Fits(r)

\* An item of a generator that may still be sent has no product, and no
\* request of it is on its way.
Open(s, i) == Waiting(s) \/ i >= next[s] \/ \E t \in Threads : On(t, s, i)
Out(s, i)  == \E r \in late : r.s = s /\ r.i = i
FreshAt(s, i) ==
  /\ effects[<<s, i>>] <= 1
  /\ Open(s, i) => effects[<<s, i>>] = 0 /\ ~Out(s, i)
  /\ Out(s, i) => effects[<<s, i>>] = 0
Fresh == \A s \in Scripts : kind[s] = "generate" => \A i \in Items : FreshAt(s, i)

\* What a teardown deleted is gone, and its id is not given out again.
Gone ==
  /\ live \subseteq 1 .. last
  /\ \A s \in Scripts : kind[s] = "teardown" => \A i \in Items :
       /\ effects[<<s, i>>] <= 1
       /\ effects[<<s, i>>] > 0 \/ result[<<s, i>>] = "ok" => list[s][i] \in (1 .. last) \ live

\* A key stands for levels that are set, and what populate wrote has its key.
SetKey(s, i) == <<"set", list[s][i], {Plan[<<s, i>>][k] : k \in DOMAIN Plan[<<s, i>>]}>>
Stocked ==
  /\ \A p \in Ids, ls \in SUBSET Locations : <<"set", p, ls>> \in keys => \A l \in ls : level[<<p, l>>] \in Scripts
  /\ \A s \in Scripts : kind[s] = "populate" => \A i \in Items :
       /\ effects[<<s, i>>] <= 1
       /\ effects[<<s, i>>] > 0 \/ result[<<s, i>>] = "ok" => list[s][i] \in Ids /\ SetKey(s, i) \in keys

\* A generator that counts an item as done has made its product.
Made == \A s \in Scripts, i \in Items : kind[s] = "generate" /\ result[<<s, i>>] = "ok" => effects[<<s, i>>] > 0

\* A teardown lists nothing that was without the tag all along.
Spared ==
  \A s \in Scripts :
    /\ untagged[s] \cap tagged = {}
    /\ kind[s] = "teardown" => \A i \in DOMAIN list[s] : list[s][i] \notin untagged[s]

\* What a search has found all along is listed or comes after the cursor.
Listed(s) == {list[s][i] : i \in DOMAIN list[s]}
Covered ==
  \A s \in Scripts :
    /\ stayed[s] \subseteq Found
    /\ kind[s] = "teardown" /\ pc[s] = "list" => \A p \in stayed[s] : p > cursor[s] \/ p \in Listed(s)
    /\ kind[s] = "teardown" /\ pc[s] \in {"work", "done"} => stayed[s] \subseteq Listed(s)

Control == Single /\ Quiet /\ Apart /\ Accounted /\ Requested

(***************************************************************************)
(* What the steps do to what the invariant is about.                       *)
(***************************************************************************)
\* What a write changes of its item.
LEMMA AcceptSteps ==
  ASSUME ShopTypes, NEW r \in Requests, Accept(r)
  PROVE  /\ \A w \in Scripts \X Items : w # <<r.s, r.i>> => effects'[w] = effects[w]
         /\ effects'[<<r.s, r.i>>] \in {effects[<<r.s, r.i>>], effects[<<r.s, r.i>>] + 1}
         /\ r.op \in {"create", "delete"} => effects'[<<r.s, r.i>>] = effects[<<r.s, r.i>>] + 1
         /\ <<r.s, r.i>> \in Scripts \X Items /\ effects[<<r.s, r.i>>] \in Nat
  <1>0. <<r.s, r.i>> \in Scripts \X Items /\ effects[<<r.s, r.i>>] \in Nat
    BY DEF Requests, ShopTypes
  <1>1. Took(r) => /\ \A w \in Scripts \X Items : w # <<r.s, r.i>> => effects'[w] = effects[w]
                   /\ effects'[<<r.s, r.i>>] = effects[<<r.s, r.i>>] + 1
    BY <1>0 DEF Took, ShopTypes
  <1>2. CASE Create(r)
    BY <1>0, <1>1, <1>2 DEF Create
  <1>3. CASE Delete(r)
    BY <1>0, <1>1, <1>3 DEF Delete
  <1>4. CASE Activate(r)
    BY <1>0, <1>4 DEF Activate
  <1>5. CASE Set(r)
    BY <1>0, <1>1, <1>5 DEF Set
  <1> QED BY <1>2, <1>3, <1>4, <1>5 DEF Accept

\* A call ends in one of three ways at the shop and one of two at its worker.
LEMMA CallSteps ==
  ASSUME TypeOK, Single, NEW t \in Threads, Calling(t)
  PROVE  /\ pc[t[1]] = "work" /\ call[t] = "sent" /\ UNCHANGED <<scene, pc, listVars>>
         /\ \/ Accept(Request(t)) /\ late' = late
            \/ UNCHANGED shopVars /\ late' \in {late, late \cup {Request(t)}}
         /\ \/ kind[t[1]] # "generate" /\ UNCHANGED <<next, result, item, call>>
            \/ \E o \in {"ok", "failed"} :
                 /\ Outcome(t, o)
                 /\ o = "ok" => Accept(Request(t)) /\ ~(step[t] < Steps(t[1], item[t]))
  <1>0. ShopTypes /\ NetTypes /\ RunTypes /\ ListTypes /\ PoolTypes /\ OnItems
    BY TypeParts
  <1>1. pc[t[1]] = "work" /\ call[t] = "sent" /\ UNCHANGED <<scene, pc, listVars>>
    BY Zenon DEF Calling, Answer, Lose
  <1>2. \/ Accept(Request(t)) /\ late' = late
        \/ UNCHANGED shopVars /\ late' \in {late, late \cup {Request(t)}}
    BY Zenon DEF Calling, Answer, Lose
  <1>3. CASE Answer(t)
    <2>1. CASE Accept(Request(t)) /\ Accepted(t)
      <3>1. CASE step[t] < Steps(t[1], item[t])
        <4>1. kind[t[1]] # "generate"
          BY <3>1 DEF Single, Steps
        <4> QED BY <1>1, <1>2, <2>1, <3>1, <4>1 DEF Accepted
      <3>2. CASE ~(step[t] < Steps(t[1], item[t]))
        <4>1. Outcome(t, "ok")
          BY <2>1, <3>2 DEF Accepted
        <4> QED BY <1>1, <1>2, <2>1, <3>2, <4>1
      <3> QED BY <3>1, <3>2
    <2>2. CASE UNCHANGED shopVars /\ Refused(t)
      <3>1. CASE Outcome(t, "failed")
        BY <1>1, <1>2, <3>1, Zenon
      <3>2. CASE kind[t[1]] # "generate" /\ step[t] < Steps(t[1], item[t]) /\ Accepted(t)
        BY <1>1, <1>2, <3>2 DEF Accepted
      <3> QED BY <2>2, <3>1, <3>2, Refusals
    <2> QED BY <1>3, <2>1, <2>2, Zenon DEF Answer
  <1>4. CASE Lose(t)
    <2>1. \/ MayRetry(t) /\ UNCHANGED <<next, result, item, step, call>>
          \/ Outcome(t, "failed")
      BY <1>4, Zenon DEF Lose
    <2> QED BY <1>1, <1>2, <2>1, Zenon DEF MayRetry
  <1> QED BY <1>3, <1>4 DEF Calling

\* What a thread's outcome changes.
LEMMA OutcomeResults ==
  ASSUME TypeOK, NEW t \in Threads, call[t] = "sent", NEW o \in {"ok", "failed"}, Outcome(t, o)
  PROVE  /\ result'[<<t[1], item[t]>>] = o
         /\ \A w \in Scripts \X Items : w # <<t[1], item[t]>> => result'[w] = result[w]
         /\ t[1] \in Scripts /\ item[t] \in Items
  <1>0. NetTypes /\ ListTypes /\ PoolTypes /\ OnItems
    BY TypeParts
  <1>1. t[1] \in Scripts /\ item[t] \in Items
    BY <1>0, RequestType, ThreadParts
  <1>2. result' = [result EXCEPT ![<<t[1], item[t]>>] = o]
    BY Zenon DEF Outcome
  <1> QED BY <1>0, <1>1, <1>2 DEF PoolTypes

LEMMA OutcomeSteps ==
  ASSUME TypeOK, NEW t \in Threads, call[t] = "sent", NEW o \in {"ok", "failed"}, Outcome(t, o)
  PROVE  /\ t[1] \in Scripts /\ item[t] \in 1 .. Len(list[t[1]])
         /\ next[t[1]] \in Nat \ {0} /\ next'[t[1]] = next[t[1]] + 1
         /\ \A s \in Scripts \ {t[1]} : next'[s] = next[s]
         /\ item'[t] = next[t[1]] /\ step'[t] = 1 /\ attempt'[t] = 1
         /\ next[t[1]] <= Len(list[t[1]]) => call'[t] = "sent"
         /\ next[t[1]] > Len(list[t[1]]) => call'[t] = "left"
  <1>0. NetTypes /\ ListTypes /\ PoolTypes /\ OnItems
    BY TypeParts
  <1>1. t[1] \in Scripts /\ item[t] \in 1 .. Len(list[t[1]])
    BY <1>0, RequestType, ThreadParts
  <1>2. Claim(t)
    BY Zenon DEF Outcome
  <1>3. next' = [next EXCEPT ![t[1]] = next[t[1]] + 1]
    BY <1>0, <1>2, ClaimSteps
  <1>4. next[t[1]] \in Nat \ {0} /\ next'[t[1]] = next[t[1]] + 1 /\ \A s \in Scripts \ {t[1]} : next'[s] = next[s]
    BY <1>0, <1>1, <1>3 DEF PoolTypes
  <1> QED BY <1>0, <1>1, <1>2, <1>4, ClaimSteps

\* A run that goes on to its pool, and one that does not.
Begun(s) ==
  /\ pc'[s] \in {"work", "done"} /\ (pc'[s] = "done" => list'[s] = <<>>)
  /\ next'[s] = Lanes[s] + 1
  /\ \A t \in Threads : t[1] = s => /\ item'[t] = t[2]
                                    /\ call'[t] = IF t[2] <= Len(list'[s]) THEN "sent" ELSE "left"
NotBegun(s) == pc'[s] \in {"list", "failed"} /\ UNCHANGED <<next, item, call>>
Others(s) ==
  /\ UNCHANGED <<result, step, attempt>>
  /\ \A u \in Scripts \ {s} : pc'[u] = pc[u] /\ list'[u] = list[u] /\ next'[u] = next[u]
  /\ \A t \in Threads : t[1] # s => item'[t] = item[t] /\ call'[t] = call[t]

LEMMA BegunSteps ==
  ASSUME TypeOK, NEW s \in Scripts, NEW items \in Seq(Nat), Len(items) <= MaxItems, Begin(s, items)
  PROVE  Begun(s) /\ Others(s) /\ list'[s] = items
  <1>0. ListTypes /\ PoolTypes /\ RunTypes
    BY TypeParts
  <1>1. /\ list' = [list EXCEPT ![s] = items]
        /\ pc' = [pc EXCEPT ![s] = IF items = <<>> THEN "done" ELSE "work"]
        /\ next'[s] = Lanes[s] + 1 /\ \A u \in Scripts \ {s} : next'[u] = next[u]
        /\ \A t \in Threads : t[1] = s => /\ item'[t] = t[2] /\ t[2] >= 1
                                          /\ t[2] <= Len(items) => call'[t] = "sent"
                                          /\ t[2] > Len(items) => call'[t] = "left"
        /\ \A t \in Threads : t[1] # s => item'[t] = item[t] /\ call'[t] = call[t]
        /\ UNCHANGED <<result, step, attempt>>
    BY <1>0, BeginSteps
  <1>2. list'[s] = items /\ \A u \in Scripts \ {s} : pc'[u] = pc[u] /\ list'[u] = list[u]
    BY <1>0, <1>1 DEF ListTypes, RunTypes
  <1>3. pc'[s] \in {"work", "done"} /\ (pc'[s] = "done" => list'[s] = <<>>)
    BY <1>0, <1>1, <1>2 DEF RunTypes
  <1>4. Len(items) \in Nat /\ \A t \in Threads : t[2] \in Nat
    BY ThreadParts, WorkerNumbers
  <1>5. \A t \in Threads : t[1] = s => /\ item'[t] = t[2]
                                       /\ call'[t] = IF t[2] <= Len(list'[s]) THEN "sent" ELSE "left"
    BY <1>1, <1>2, <1>4
  <1> QED BY <1>1, <1>2, <1>3, <1>5 DEF Begun, Others

LEMMA ListingSteps ==
  ASSUME TypeOK, NEW s \in Scripts, Listing(s)
  PROVE  /\ Waiting(s) /\ (Begun(s) \/ NotBegun(s)) /\ Others(s)
         /\ UNCHANGED <<live, last, tagged, indexed, level, keys, effects, lost, late, scene>>
         /\ \A u \in Scripts \ {s} : cursor'[u] = cursor[u]
  <1>0. RunTypes /\ ListTypes /\ PoolTypes /\ NetTypes /\ ShopTypes
    BY TypeParts
  <1>1. CASE Start(s)
    <2>1. /\ pc[s] = "scopes"
          /\ UNCHANGED <<live, last, tagged, indexed, level, keys, effects, lost, late, scene, cursor, before>>
      BY <1>1, Zenon DEF Start
    <2>2. CASE Begin(s, [i \in 1 .. Smaller(Count, Limit) |-> i])
      <3> DEFINE items == [i \in 1 .. Smaller(Count, Limit) |-> i]
      <3>1. Smaller(Count, Limit) \in Nat /\ Smaller(Count, Limit) <= MaxItems
        BY SizeAssumption DEF Smaller
      <3>2. items \in Seq(Nat) /\ Len(items) <= MaxItems
        BY <3>1
      <3> HIDE DEF items
      <3>3. Begin(s, items)
        BY <2>2 DEF items
      <3>4. Begun(s) /\ Others(s)
        BY <3>2, <3>3, BegunSteps
      <3>5. Waiting(s) /\ \A u \in Scripts \ {s} : cursor'[u] = cursor[u]
        BY <2>1 DEF Waiting
      <3> QED BY <2>1, <3>4, <3>5
    <2>3. CASE pc' \in {[pc EXCEPT ![s] = "list"], [pc EXCEPT ![s] = "failed"]} /\ UNCHANGED <<list, poolVars>>
      BY <1>0, <2>1, <2>3 DEF Waiting, NotBegun, Others, poolVars, RunTypes
    <2> QED BY <1>1, <2>2, <2>3, Zenon DEF Start, Stop
  <1>2. CASE FetchPage(s)
    <2>1. pc[s] = "list" /\ UNCHANGED <<shopVars, lost, late, scene>>
      BY <1>2, FetchSteps
    <2>2. PICK found \in InOrder(Kept(s)) :
              /\ list[s] \o found \in Seq(Nat) /\ Len(list[s] \o found) <= MaxItems
              /\ \/ Begin(s, Chosen(s, list[s] \o found)) /\ UNCHANGED <<cursor, before>>
                 \/ /\ list' = [list EXCEPT ![s] = list[s] \o found]
                    /\ \E end \in 0 .. MaxProducts : Turn(s, end)
      BY <1>2, FetchSteps
    <2>3. CASE Begin(s, Chosen(s, list[s] \o found)) /\ UNCHANGED <<cursor, before>>
      <3>1. /\ Chosen(s, list[s] \o found) \in Seq(Nat) /\ Len(Chosen(s, list[s] \o found)) \in Nat
            /\ Len(Chosen(s, list[s] \o found)) <= Len(list[s] \o found) /\ Len(list[s] \o found) \in Nat
        BY <2>2, ChosenTypes
      <3>2. Len(Chosen(s, list[s] \o found)) <= MaxItems
        BY <2>2, <3>1, SizeAssumption
      <3>3. Begun(s) /\ Others(s)
        BY <2>3, <3>1, <3>2, BegunSteps
      <3>4. Waiting(s)
        BY <2>1 DEF Waiting
      <3>5. /\ UNCHANGED <<live, last, tagged, indexed, level, keys, effects, lost, late, scene>>
            /\ \A u \in Scripts \ {s} : cursor'[u] = cursor[u]
        BY <2>1, <2>3 DEF shopVars
      <3> QED BY <3>3, <3>4, <3>5
    <2>4. CASE /\ list' = [list EXCEPT ![s] = list[s] \o found]
               /\ \E end \in 0 .. MaxProducts : Turn(s, end)
      <3>1. UNCHANGED poolVars /\ (pc' = pc \/ pc' = [pc EXCEPT ![s] = "failed"])
        BY <1>0, <2>4, TurnTypes
      <3>2. \A u \in Scripts \ {s} : cursor'[u] = cursor[u]
        BY <1>0, <2>4 DEF Turn, RunTypes
      <3>3. pc'[s] \in {"list", "failed"} /\ \A u \in Scripts \ {s} : pc'[u] = pc[u]
        BY <1>0, <2>1, <3>1 DEF RunTypes
      <3>4. \A u \in Scripts \ {s} : list'[u] = list[u]
        BY <1>0, <2>4 DEF ListTypes
      <3> QED BY <2>1, <3>1, <3>2, <3>3, <3>4 DEF Waiting, NotBegun, Others, poolVars, shopVars
    <2> QED BY <2>2, <2>3, <2>4
  <1>3. CASE FetchFails(s)
    <2>1. /\ pc[s] = "list" /\ pc' = [pc EXCEPT ![s] = "failed"]
          /\ UNCHANGED <<shopVars, lost, late, scene, cursor, list, poolVars>>
      BY <1>3, Zenon DEF FetchFails, Stop
    <2> QED BY <1>0, <2>1 DEF Waiting, NotBegun, Others, poolVars, shopVars, RunTypes
  <1> QED BY <1>1, <1>2, <1>3 DEF Listing

LEMMA CallOthers ==
  ASSUME TypeOK, NEW t \in Threads, Calling(t)
  PROVE  \A u \in Threads \ {t} : /\ item'[u] = item[u] /\ step'[u] = step[u]
                                  /\ attempt'[u] = attempt[u] /\ call'[u] = call[u]
  <1>0. ListTypes /\ PoolTypes /\ OnItems
    BY TypeParts
  <1>1. \/ step' = [step EXCEPT ![t] = @ + 1] /\ attempt' = [attempt EXCEPT ![t] = 1] /\ UNCHANGED <<item, call>>
        \/ attempt' = [attempt EXCEPT ![t] = @ + 1] /\ UNCHANGED <<item, step, call>>
        \/ Claim(t)
    <2>1. CASE Answer(t)
      BY <2>1, Zenon DEF Answer, Accepted, Refused, Outcome
    <2>2. CASE Lose(t)
      BY <2>2, Zenon DEF Lose, Outcome
    <2> QED BY <2>1, <2>2 DEF Calling
  <1>2. CASE \/ step' = [step EXCEPT ![t] = @ + 1] /\ attempt' = [attempt EXCEPT ![t] = 1] /\ UNCHANGED <<item, call>>
             \/ attempt' = [attempt EXCEPT ![t] = @ + 1] /\ UNCHANGED <<item, step, call>>
    BY <1>0, <1>2 DEF PoolTypes
  <1>3. CASE Claim(t)
    BY <1>0, <1>3, ClaimSteps
  <1> QED BY <1>1, <1>2, <1>3

LEMMA LateSteps ==
  ASSUME TypeOK, NEW r \in late, LateServe(r)
  PROVE  /\ late' = late \ {r} /\ UNCHANGED <<lost, scene, pc, listVars, poolVars>>
         /\ Accept(r) \/ UNCHANGED shopVars
         /\ r \in Requests
  BY TypeParts, Zenon DEF LateServe, NetTypes

(***************************************************************************)
(* Control.                                                                *)
(***************************************************************************)
LEMMA SingleStep ==
  ASSUME TypeOK, Single, [Next]_vars
  PROVE  Single'
  <1>1. ASSUME NEW s \in Scripts, Listing(s)
        PROVE  Single'
    <2>1. UNCHANGED <<scene, step, attempt>>
      BY <1>1, ListingSteps DEF Others
    <2> QED BY <2>1 DEF Single, kind
  <1>2. ASSUME NEW s \in Scripts, Ending(s)
        PROVE  Single'
    <2>1. UNCHANGED <<scene, step, attempt>>
      BY <1>2, Zenon DEF Ending, Finish, Kill, poolVars
    <2> QED BY <2>1 DEF Single, kind
  <1>3. ASSUME NEW t \in Threads, Calling(t)
        PROVE  Single'
    <2>1. scene' = scene /\ call[t] = "sent"
      BY <1>3, CallSteps
    <2>2. \A u \in Threads \ {t} : step'[u] = step[u] /\ attempt'[u] = attempt[u]
      BY <1>3, CallOthers
    <2>3. kind[t[1]] = "generate" => step'[t] = 1 /\ attempt'[t] = 1
      <3>1. kind[t[1]] = "generate" => \E o \in {"ok", "failed"} : Outcome(t, o)
        BY <1>3, CallSteps
      <3>2. \A o \in {"ok", "failed"} : Outcome(t, o) => step'[t] = 1 /\ attempt'[t] = 1
        BY <2>1, OutcomeSteps
      <3> QED BY <3>1, <3>2
    <2> QED BY <2>1, <2>2, <2>3 DEF Single, kind
  <1>4. ASSUME NEW r \in late, LateServe(r)
        PROVE  Single'
    <2>1. UNCHANGED <<scene, step, attempt>>
      BY <1>4, Zenon DEF LateServe, poolVars
    <2> QED BY <2>1 DEF Single, kind
  <1>5. ASSUME NEW p \in Ids, Churn(p)
        PROVE  Single'
    <2>1. UNCHANGED <<scene, step, attempt>>
      BY <1>5, ChurnSteps DEF poolVars
    <2> QED BY <2>1 DEF Single, kind
  <1>6. CASE UNCHANGED vars
    <2>1. UNCHANGED <<scene, step, attempt>>
      BY <1>6 DEF vars, poolVars
    <2> QED BY <2>1 DEF Single, kind
  <1> QED BY <1>1, <1>2, <1>3, <1>4, <1>5, <1>6, NextSteps

\* The steps that leave the runs and their threads alone.
LEMMA ElsewhereSteps ==
  ASSUME TypeOK, (\E p \in Ids : Churn(p)) \/ UNCHANGED vars
  PROVE  UNCHANGED <<live, last, level, keys, effects, untagged, lost, late, scene, pc, listVars, poolVars>>
  <1>1. ASSUME NEW p \in Ids, Churn(p)
        PROVE  UNCHANGED <<live, last, level, keys, effects, untagged, lost, late, scene, pc, listVars, poolVars>>
    BY <1>1, ChurnSteps
  <1>2. CASE UNCHANGED vars
    BY <1>2, Zenon DEF vars, shopVars
  <1> QED BY <1>1, <1>2

LEMMA QuietStep ==
  ASSUME TypeOK, Control, [Next]_vars
  PROVE  Quiet'
  <1>0. RunTypes /\ ListTypes /\ PoolTypes /\ ShopTypes /\ NetTypes
    BY TypeParts
  <1> USE DEF Waiting
  <1>1. ASSUME NEW s \in Scripts, Listing(s)
        PROVE  Quiet'
    <2>1. /\ Waiting(s) /\ UNCHANGED <<effects, result>>
          /\ \A u \in Scripts \ {s} : pc'[u] = pc[u] /\ list'[u] = list[u] /\ cursor'[u] = cursor[u]
          /\ pc'[s] # "scopes"
      BY <1>1, ListingSteps DEF Others, Begun, NotBegun
    <2> QED BY <2>1 DEF Quiet, Control
  <1>2. ASSUME NEW s \in Scripts, Ending(s)
        PROVE  Quiet'
    <2>1. /\ UNCHANGED <<effects, result, list, cursor>>
          /\ pc' = [pc EXCEPT ![s] = "done"] \/ pc' = [pc EXCEPT ![s] = "killed"]
      BY <1>2, Zenon DEF Ending, Finish, Kill, poolVars, shopVars, listVars
    <2>2. \A u \in Scripts : pc'[u] \in {pc[u], "done", "killed"}
      BY <1>0, <2>1 DEF RunTypes
    <2> QED BY <2>1, <2>2 DEF Quiet, Control
  <1>3. ASSUME NEW t \in Threads, Calling(t)
        PROVE  Quiet'
    <2>0. Single
      BY DEF Control
    <2>1. pc[t[1]] = "work" /\ call[t] = "sent" /\ UNCHANGED <<scene, pc, listVars>>
      BY <1>3, <2>0, CallSteps
    <2>2. Request(t) \in Requests /\ Request(t).s = t[1] /\ t[1] \in Scripts
      BY <1>0, <2>1, RequestType, TypeParts, ThreadParts
    <2>3. \A s \in Scripts \ {t[1]}, i \in Items : effects'[<<s, i>>] = effects[<<s, i>>]
      <3>1. CASE Accept(Request(t))
        BY <1>0, <2>2, <3>1, AcceptSteps
      <3>2. CASE UNCHANGED shopVars
        BY <3>2 DEF shopVars
      <3> QED BY <1>3, <2>0, <3>1, <3>2, CallSteps
    <2>4. \A s \in Scripts \ {t[1]}, i \in Items : result'[<<s, i>>] = result[<<s, i>>]
      <3>1. ASSUME NEW o \in {"ok", "failed"}, Outcome(t, o)
            PROVE  \A s \in Scripts \ {t[1]}, i \in Items : result'[<<s, i>>] = result[<<s, i>>]
        <4>1. \A w \in Scripts \X Items : w # <<t[1], item[t]>> => result'[w] = result[w]
          BY <2>1, <3>1, OutcomeResults
        <4>2. \A s \in Scripts \ {t[1]}, i \in Items : <<s, i>> \in Scripts \X Items /\ <<s, i>> # <<t[1], item[t]>>
          OBVIOUS
        <4> QED BY <4>1, <4>2
      <3> QED BY <1>3, <2>0, <3>1, CallSteps
    <2> QED BY <2>1, <2>3, <2>4 DEF Quiet, Control, listVars
  <1>4. ASSUME NEW r \in late, LateServe(r)
        PROVE  Quiet'
    <2>0. r \in Requests /\ (Accept(r) \/ UNCHANGED shopVars)
      BY <1>4, LateSteps
    <2>1. UNCHANGED <<pc, list, cursor, result>>
      BY <1>4, LateSteps DEF listVars, poolVars
    <2>2. \A s \in Scripts, i \in Items : s # r.s => effects'[<<s, i>>] = effects[<<s, i>>]
      <3>1. CASE Accept(r)
        <4>1. \A w \in Scripts \X Items : w # <<r.s, r.i>> => effects'[w] = effects[w]
          BY <1>0, <2>0, <3>1, AcceptSteps
        <4> QED BY <4>1
      <3>2. CASE UNCHANGED shopVars
        BY <3>2 DEF shopVars
      <3> QED BY <2>0, <3>1, <3>2
    <2>3. \A s \in Scripts : Waiting(s) => s # r.s
      BY DEF Control, Requested
    <2> QED BY <2>1, <2>2, <2>3 DEF Quiet, Control
  <1>5. CASE (\E p \in Ids : Churn(p)) \/ UNCHANGED vars
    <2>1. UNCHANGED <<effects, pc, list, cursor, result>>
      BY <1>5, ElsewhereSteps DEF listVars, poolVars
    <2> QED BY <2>1 DEF Quiet, Control
  <1> QED BY <1>1, <1>2, <1>3, <1>4, <1>5, NextSteps

\* What ends a run leaves to its threads.
LEMMA EndingSteps ==
  ASSUME TypeOK, NEW s \in Scripts, Ending(s)
  PROVE  /\ UNCHANGED <<shopVars, lost, scene, listVars, next, result, item, step, attempt>>
         /\ pc'[s] \in {"done", "killed"} /\ \A u \in Scripts \ {s} : pc'[u] = pc[u]
         /\ \A t \in Threads : (t[1] = s => call'[t] = "left") /\ (t[1] # s => call'[t] = call[t])
         /\ pc'[s] = "done" => /\ pc[s] = "work" /\ late' = late
                               /\ \A t \in Threads : t[1] = s => call[t] = "left"
         /\ \A r \in late' : r \in late \/ \E t \in Threads : t[1] = s /\ call[t] = "sent" /\ r = Request(t)
  <1>0. RunTypes
    BY TypeParts
  <1>1. CASE Finish(s)
    <2>1. /\ pc[s] = "work" /\ \A k \in Workers(s) : call[<<s, k>>] = "left"
          /\ pc' = [pc EXCEPT ![s] = "done"]
          /\ UNCHANGED <<shopVars, lost, late, scene, listVars, poolVars>>
      BY <1>1, Zenon DEF Finish
    <2>2. \A t \in Threads : t[1] = s => call[t] = "left"
      BY <2>1, ThreadParts
    <2>3. pc'[s] = "done" /\ \A u \in Scripts \ {s} : pc'[u] = pc[u]
      BY <1>0, <2>1 DEF RunTypes
    <2> QED BY <2>1, <2>2, <2>3 DEF poolVars
  <1>2. CASE Kill(s)
    <2>1. pc'[s] = "killed" /\ \A u \in Scripts \ {s} : pc'[u] = pc[u]
      BY <1>0, <1>2, KillSteps DEF RunTypes
    <2> QED BY <1>2, <2>1, KillSteps
  <1> QED BY <1>1, <1>2 DEF Ending

LEMMA ApartStep ==
  ASSUME TypeOK, Control, [Next]_vars
  PROVE  Apart'
  <1>0. Apart /\ Single /\ PoolTypes
    BY TypeParts DEF Control
  <1> USE DEF Sent
  <1>1. ASSUME NEW s \in Scripts, Listing(s)
        PROVE  Apart'
    <2>1. \A t \in Threads : t[1] # s => /\ item'[t] = item[t] /\ call'[t] = call[t]
                                         /\ pc'[t[1]] = pc[t[1]] /\ next'[t[1]] = next[t[1]]
      BY <1>1, ListingSteps, ThreadParts DEF Others
    <2>2. \A t \in Threads : t[1] = s => call[t] # "sent"
      BY <1>0, <1>1, ListingSteps DEF Apart, Waiting
    <2>3. CASE Begun(s)
      <3>1. \A t \in Threads : t[1] = s => t[2] \in 1 .. Lanes[s] /\ item'[t] = t[2] /\ next'[s] = Lanes[s] + 1
        BY <2>3, ThreadParts, WorkerNumbers DEF Begun
      <3>2. Lanes[s] \in Nat
        BY WorkerNumbers
      <3>3. \A t \in Threads : t[1] = s /\ call'[t] = "sent" => pc'[s] = "work"
        <4>1. pc'[s] = "done" => Len(list'[s]) = 0
          BY <2>3 DEF Begun
        <4>2. \A t \in Threads : t[1] = s /\ call'[t] = "sent" => t[2] <= Len(list'[s])
          BY <2>3 DEF Begun
        <4>3. pc'[s] \in {"work", "done"}
          BY <2>3 DEF Begun
        <4> QED BY <3>1, <3>2, <4>1, <4>2, <4>3
      <3>4. \A t \in Threads : t[1] = s => item'[t] < next'[s]
        BY <3>1, <3>2
      <3>5. \A t, u \in Threads : t[1] = s /\ u[1] = s /\ t # u => item'[t] # item'[u]
        BY <3>1, ThreadParts
      <3> QED BY <1>0, <2>1, <3>3, <3>4, <3>5 DEF Apart
    <2>4. CASE NotBegun(s)
      <3>1. UNCHANGED <<next, item, call>>
        BY <2>4 DEF NotBegun
      <3> QED BY <1>0, <2>1, <2>2, <3>1 DEF Apart
    <2> QED BY <1>1, <2>3, <2>4, ListingSteps
  <1>2. ASSUME NEW s \in Scripts, Ending(s)
        PROVE  Apart'
    <2>1. UNCHANGED <<next, item>> /\ \A u \in Scripts \ {s} : pc'[u] = pc[u]
      BY <1>2, EndingSteps
    <2>2. \A t \in Threads : (t[1] = s => call'[t] = "left") /\ (t[1] # s => call'[t] = call[t])
      BY <1>2, EndingSteps
    <2> QED BY <1>0, <2>1, <2>2, ThreadParts DEF Apart
  <1>3. ASSUME NEW t \in Threads, Calling(t)
        PROVE  Apart'
    <2>1. pc[t[1]] = "work" /\ call[t] = "sent" /\ pc' = pc
      BY <1>0, <1>3, CallSteps
    <2>2. CASE UNCHANGED <<next, result, item, call>>
      BY <1>0, <2>1, <2>2 DEF Apart
    <2>3. ASSUME NEW o \in {"ok", "failed"}, Outcome(t, o)
          PROVE  Apart'
      <3>1. /\ t[1] \in Scripts /\ next[t[1]] \in Nat \ {0} /\ next'[t[1]] = next[t[1]] + 1
            /\ \A s \in Scripts \ {t[1]} : next'[s] = next[s]
            /\ item'[t] = next[t[1]]
        BY <2>1, <2>3, OutcomeSteps
      <3>2. \A u \in Threads \ {t} : item'[u] = item[u] /\ call'[u] = call[u]
        BY <1>3, CallOthers
      <3>3. \A u \in Threads : item[u] \in Nat /\ u[1] \in Scripts
        BY <1>0, ThreadParts DEF PoolTypes
      <3>4. \A u \in Threads \ {t} : u[1] = t[1] /\ call[u] = "sent" => item'[u] # item'[t] /\ item'[u] < next'[u[1]]
        BY <1>0, <3>1, <3>2, <3>3 DEF Apart
      <3>5. \A u \in Threads : call'[u] = "sent" => pc'[u[1]] = "work" /\ item'[u] < next'[u[1]]
        BY <1>0, <2>1, <3>1, <3>2, <3>3, <3>4 DEF Apart
      <3>6. \A u, v \in Threads : u[1] = v[1] /\ u # v /\ call'[u] = "sent" /\ call'[v] = "sent" => item'[u] # item'[v]
        BY <1>0, <3>2, <3>4 DEF Apart
      <3> QED BY <3>5, <3>6 DEF Apart
    <2> QED BY <1>0, <1>3, <2>2, <2>3, CallSteps
  <1>4. CASE (\E r \in late : LateServe(r)) \/ (\E p \in Ids : Churn(p)) \/ UNCHANGED vars
    <2>1. UNCHANGED <<pc, next, item, call>>
      BY <1>4, LateSteps, ElsewhereSteps DEF poolVars
    <2> QED BY <1>0, <2>1 DEF Apart
  <1> QED BY <1>1, <1>2, <1>3, <1>4, NextSteps

\* What is accounted for in a run of which nothing changes.
LEMMA SameAccount ==
  ASSUME TypeOK, Accounted, NEW s \in Scripts,
         pc'[s] = pc[s], list'[s] = list[s], next'[s] = next[s],
         \A i \in Items : result'[<<s, i>>] = result[<<s, i>>],
         \A t \in Threads : t[1] = s => item'[t] = item[t] /\ call'[t] = call[t]
  PROVE  /\ \A t \in Threads : t[1] = s /\ pc'[s] = "work" => Sent(t)' \/ next'[s] > Len(list'[s])
         /\ pc'[s] \in {"work", "done"} =>
              \A i \in DOMAIN list'[s] : result'[<<s, i>>] # "none" \/ Pending(s, i)'
  <1>1. \A t \in Threads : t[1] = s /\ pc'[s] = "work" => Sent(t)' \/ next'[s] > Len(list'[s])
    BY DEF Accounted, Sent
  <1>2. \A i \in DOMAIN list[s] : i \in Items
    BY SizeAssumption DEF TypeOK, Items
  <1>3. \A i \in DOMAIN list[s] : Pending(s, i) => Pending(s, i)'
    BY DEF Pending, On
  <1>4. pc'[s] \in {"work", "done"} => \A i \in DOMAIN list'[s] : result'[<<s, i>>] # "none" \/ Pending(s, i)'
    BY <1>2, <1>3 DEF Accounted
  <1> QED BY <1>1, <1>4

LEMMA AccountedStep ==
  ASSUME TypeOK, Control, [Next]_vars
  PROVE  Accounted'
  <1>0. Accounted /\ Apart /\ Single /\ PoolTypes /\ ListTypes /\ RunTypes
    BY TypeParts DEF Control
  <1>a. \A t \in Threads : t[1] \in Scripts
    BY ThreadParts
  <1>1. ASSUME NEW s \in Scripts, Listing(s)
        PROVE  Accounted'
    <2>1. Others(s)
      BY <1>1, ListingSteps
    <2>2. ASSUME NEW u \in Scripts \ {s}
          PROVE  /\ \A t \in Threads : t[1] = u /\ pc'[u] = "work" => Sent(t)' \/ next'[u] > Len(list'[u])
                 /\ pc'[u] \in {"work", "done"} =>
                      \A i \in DOMAIN list'[u] : result'[<<u, i>>] # "none" \/ Pending(u, i)'
      BY <1>0, <2>1, SameAccount DEF Others
    <2>3. /\ \A t \in Threads : t[1] = s /\ pc'[s] = "work" => Sent(t)' \/ next'[s] > Len(list'[s])
          /\ pc'[s] \in {"work", "done"} =>
               \A i \in DOMAIN list'[s] : result'[<<s, i>>] # "none" \/ Pending(s, i)'
      <3>1. CASE NotBegun(s)
        BY <3>1 DEF NotBegun
      <3>2. CASE Begun(s)
        <4>0. list'[s] \in Seq(Nat) /\ Lanes[s] \in Nat /\ next'[s] = Lanes[s] + 1
          <5>1. ListTypes'
            BY TypeStep, TypeParts DEF TypeOK, ListTypes
          <5> QED BY <3>2, <5>1, WorkerNumbers DEF Begun, ListTypes
        <4>1. \A t \in Threads : t[1] = s => t[2] \in 1 .. Lanes[s] /\ item'[t] = t[2]
          BY <3>2, ThreadParts, WorkerNumbers DEF Begun
        <4>2. \A t \in Threads : t[1] = s => call'[t] = IF t[2] <= Len(list'[s]) THEN "sent" ELSE "left"
          BY <3>2 DEF Begun
        <4>3. \A t \in Threads : t[1] = s => Sent(t)' \/ next'[s] > Len(list'[s])
          BY <4>0, <4>1, <4>2 DEF Sent
        <4>4. ASSUME NEW i \in DOMAIN list'[s]
              PROVE  Pending(s, i)'
          <5>1. pc'[s] = "work" /\ i \in 1 .. Len(list'[s])
            BY <3>2, <4>0 DEF Begun
          <5>2. CASE i >= next'[s]
            BY <5>1, <5>2 DEF Pending
          <5>3. CASE ~(i >= next'[s])
            <6>1. i \in 1 .. Lanes[s]
              BY <4>0, <5>1, <5>3
            <6>2. <<s, i>> \in Threads
              BY <6>1, ThreadParts, WorkerNumbers
            <6>3. item'[<<s, i>>] = i /\ call'[<<s, i>>] = "sent"
              BY <4>1, <4>2, <5>1, <6>2
            <6>4. On(<<s, i>>, s, i)'
              BY <6>3 DEF On
            <6> QED BY <5>1, <6>2, <6>4 DEF Pending
          <5> QED BY <5>2, <5>3
        <4> QED BY <4>3, <4>4
      <3> QED BY <1>1, <3>1, <3>2, ListingSteps
    <2> QED BY <1>a, <2>2, <2>3 DEF Accounted
  <1>2. ASSUME NEW s \in Scripts, Ending(s)
        PROVE  Accounted'
    <2>1. UNCHANGED <<list, next, result, item>>
      BY <1>2, EndingSteps DEF listVars
    <2>2. /\ pc'[s] \in {"done", "killed"} /\ \A u \in Scripts \ {s} : pc'[u] = pc[u]
          /\ \A t \in Threads : t[1] # s => call'[t] = call[t]
          /\ pc'[s] = "done" => pc[s] = "work" /\ \A t \in Threads : t[1] = s => call[t] = "left"
      BY <1>2, EndingSteps
    <2>3. ASSUME NEW u \in Scripts \ {s}
          PROVE  /\ \A t \in Threads : t[1] = u /\ pc'[u] = "work" => Sent(t)' \/ next'[u] > Len(list'[u])
                 /\ pc'[u] \in {"work", "done"} =>
                      \A i \in DOMAIN list'[u] : result'[<<u, i>>] # "none" \/ Pending(u, i)'
      BY <1>0, <2>1, <2>2, SameAccount
    <2>4. ASSUME pc'[s] = "done", NEW i \in DOMAIN list[s]
          PROVE  result[<<s, i>>] # "none"
      <3>1. pc[s] = "work" /\ \A t \in Threads : t[1] = s => call[t] = "left"
        BY <2>2, <2>4
      <3>2. <<s, 1>> \in Threads
        BY ThreadParts, WorkerNumbers
      <3>3. next[s] > Len(list[s])
        BY <1>0, <3>1, <3>2 DEF Accounted, Sent
      <3>4. i \in 1 .. Len(list[s]) /\ Len(list[s]) \in Nat /\ next[s] \in Nat
        BY <1>0, <2>4 DEF ListTypes, PoolTypes
      <3>5. ~Pending(s, i)
        BY <3>1, <3>3, <3>4 DEF Pending, On
      <3> QED BY <1>0, <2>4, <3>1, <3>5 DEF Accounted
    <2> QED BY <1>a, <2>1, <2>2, <2>3, <2>4 DEF Accounted
  <1>3. ASSUME NEW t \in Threads, Calling(t)
        PROVE  Accounted'
    <2>1. pc[t[1]] = "work" /\ call[t] = "sent" /\ UNCHANGED <<pc, list>>
      BY <1>0, <1>3, CallSteps DEF listVars
    <2>2. CASE UNCHANGED <<next, result, item, call>>
      BY <1>0, <2>1, <2>2, SameAccount DEF Accounted, Pending, On, Sent
    <2>3. ASSUME NEW o \in {"ok", "failed"}, Outcome(t, o)
          PROVE  Accounted'
      <3>1. /\ t[1] \in Scripts /\ next[t[1]] \in Nat \ {0} /\ next'[t[1]] = next[t[1]] + 1
            /\ \A s \in Scripts \ {t[1]} : next'[s] = next[s]
            /\ item'[t] = next[t[1]]
            /\ next[t[1]] <= Len(list[t[1]]) => call'[t] = "sent"
        BY <2>1, <2>3, OutcomeSteps
      <3>2. \A u \in Threads \ {t} : item'[u] = item[u] /\ call'[u] = call[u]
        BY <1>3, CallOthers
      <3>3. /\ result'[<<t[1], item[t]>>] = o
            /\ \A w \in Scripts \X Items : w # <<t[1], item[t]>> => result'[w] = result[w]
        BY <2>1, <2>3, OutcomeResults
      <3>4. \A s \in Scripts : Len(list[s]) \in Nat /\ DOMAIN list[s] = 1 .. Len(list[s]) /\ DOMAIN list[s] \subseteq Items
        BY <1>0, SizeAssumption DEF ListTypes, Items
      <3>5. \A s \in Scripts, i \in Items : result[<<s, i>>] # "none" => result'[<<s, i>>] # "none"
        BY <3>3
      <3>6. ASSUME NEW u \in Threads, pc[u[1]] = "work"
            PROVE  Sent(u)' \/ next'[u[1]] > Len(list[u[1]])
        <4>1. CASE u = t
          <5>1. Len(list[t[1]]) \in Nat
            BY <3>1, <3>4
          <5> QED BY <3>1, <4>1, <5>1 DEF Sent
        <4>2. CASE u # t
          <5>1. u[1] \in Scripts /\ Len(list[u[1]]) \in Nat /\ next[u[1]] \in Nat
            BY <1>0, <1>a, <3>4 DEF PoolTypes
          <5>2. next'[u[1]] >= next[u[1]] /\ next'[u[1]] \in Nat
            BY <3>1, <5>1
          <5>3. Sent(u) => Sent(u)'
            BY <3>2, <4>2 DEF Sent
          <5>4. Sent(u) \/ next[u[1]] > Len(list[u[1]])
            BY <1>0, <3>6 DEF Accounted
          <5> QED BY <5>1, <5>2, <5>3, <5>4
        <4> QED BY <4>1, <4>2
      <3>7. ASSUME NEW s \in Scripts, NEW i \in DOMAIN list[s], Pending(s, i)
            PROVE  result'[<<s, i>>] # "none" \/ Pending(s, i)'
        <4>1. i \in Nat /\ i \in Items /\ pc'[s] = "work" /\ next[s] \in Nat
          BY <1>0, <2>1, <3>4, <3>7 DEF Pending, PoolTypes, Items
        <4>2. CASE i >= next[s]
          <5>1. CASE s # t[1]
            BY <3>1, <4>1, <4>2, <5>1 DEF Pending
          <5>2. CASE s = t[1] /\ i > next[s]
            BY <3>1, <4>1, <5>2 DEF Pending
          <5>3. CASE s = t[1] /\ i = next[s]
            <6>1. call'[t] = "sent" /\ item'[t] = i
              BY <3>1, <3>4, <5>3
            <6>2. On(t, s, i)'
              BY <5>3, <6>1 DEF On
            <6> QED BY <4>1, <6>2 DEF Pending
          <5> QED BY <4>1, <4>2, <5>1, <5>2, <5>3
        <4>3. ASSUME NEW u \in Threads, On(u, s, i)
              PROVE  result'[<<s, i>>] # "none" \/ Pending(s, i)'
          <5>1. CASE u = t
            <6>1. result'[<<s, i>>] = o
              BY <3>3, <4>3, <5>1 DEF On
            <6> QED BY <6>1
          <5>2. CASE u # t
            <6>1. On(u, s, i)'
              BY <3>2, <4>3, <5>2 DEF On
            <6> QED BY <4>1, <6>1 DEF Pending
          <5> QED BY <5>1, <5>2
        <4> QED BY <3>7, <4>2, <4>3 DEF Pending
      <3>8. ASSUME NEW s \in Scripts, pc[s] \in {"work", "done"}, NEW i \in DOMAIN list[s]
            PROVE  result'[<<s, i>>] # "none" \/ Pending(s, i)'
        <4>1. i \in Items
          BY <3>4, <3>8
        <4>2. result[<<s, i>>] # "none" \/ Pending(s, i)
          BY <1>0, <3>8 DEF Accounted
        <4> QED BY <3>5, <3>7, <3>8, <4>1, <4>2
      <3> QED BY <2>1, <3>6, <3>8 DEF Accounted
    <2> QED BY <1>0, <1>3, <2>2, <2>3, CallSteps
  <1>4. CASE (\E r \in late : LateServe(r)) \/ (\E p \in Ids : Churn(p)) \/ UNCHANGED vars
    <2>1. UNCHANGED <<pc, list, next, result, item, call>>
      BY <1>4, LateSteps, ElsewhereSteps DEF poolVars, listVars
    <2> QED BY <1>0, <2>1 DEF Accounted, Pending, On, Sent
  <1> QED BY <1>1, <1>2, <1>3, <1>4, NextSteps

LEMMA RequestFits ==
  ASSUME TypeOK, Single, NEW t \in Threads, call[t] = "sent"
  PROVE  Fits(Request(t)) /\ (kind[t[1]] = "populate" /\ ~(step[t] < Steps(t[1], item[t])) => Request(t).op = "set")
  <1>1. Request(t).s = t[1] /\ Request(t).op = OpOf(t) /\ Request(t).step = step[t] /\ Request(t).n = attempt[t]
    BY RequestType, TypeParts
  <1>2. /\ kind[t[1]] = "generate" => OpOf(t) = "create"
        /\ kind[t[1]] = "teardown" => OpOf(t) = "delete"
        /\ kind[t[1]] = "populate" => OpOf(t) \in {"activate", "set"}
        /\ kind[t[1]] = "populate" /\ ~(step[t] < Steps(t[1], item[t])) => OpOf(t) = "set"
    BY DEF OpOf
  <1> QED BY <1>1, <1>2 DEF Fits, Single

LEMMA RequestedStep ==
  ASSUME TypeOK, Control, [Next]_vars
  PROVE  Requested'
  <1>0. Requested /\ Apart /\ Single /\ RunTypes /\ ListTypes /\ PoolTypes /\ OnItems /\ NetTypes
    BY TypeParts DEF Control
  <1>a. \A r \in late : r.s \in Scripts
    BY <1>0 DEF NetTypes, Requests
  <1> DEFINE Good(r) == r.i \in 1 .. Len(list[r.s]) /\ r.i < next[r.s] /\ Fits(r)
  <1>b. \A t \in Threads : call[t] = "sent" => Good(Request(t)) /\ Request(t).s = t[1] /\ t[1] \in Scripts
    BY <1>0, RequestType, RequestFits, ThreadParts DEF Apart, Sent
  <1>c. \A r \in late : Good(r)
    BY <1>0 DEF Requested
  <1>1. ASSUME NEW s \in Scripts, Listing(s)
        PROVE  Requested'
    <2>1. /\ Waiting(s) /\ late' = late /\ scene' = scene
          /\ \A u \in Scripts \ {s} : pc'[u] = pc[u] /\ list'[u] = list[u] /\ next'[u] = next[u]
      BY <1>1, ListingSteps DEF Others
    <2>2. \A r \in late : r.s \in Scripts \ {s}
      BY <1>0, <1>a, <2>1 DEF Requested
    <2> QED BY <1>0, <2>1, <2>2 DEF Requested, Waiting, Fits, kind
  <1>2. ASSUME NEW s \in Scripts, Ending(s)
        PROVE  Requested'
    <2>1. UNCHANGED <<list, next, scene>>
      BY <1>2, EndingSteps DEF listVars
    <2>2. pc'[s] \in {"done", "killed"} /\ \A u \in Scripts \ {s} : pc'[u] = pc[u]
      BY <1>2, EndingSteps
    <2>3. \A r \in late' : r \in late \/ \E t \in Threads : t[1] = s /\ call[t] = "sent" /\ r = Request(t)
      BY <1>2, EndingSteps
    <2>4. \A r \in late' : Good(r) /\ (r \in late \/ r.s = s)
      BY <1>b, <1>c, <2>3
    <2>5. \A r \in late' : ~Waiting(r.s)'
      BY <1>0, <1>a, <2>2, <2>4 DEF Requested, Waiting
    <2> QED BY <2>1, <2>4, <2>5 DEF Requested, Fits, kind
  <1>3. ASSUME NEW t \in Threads, Calling(t)
        PROVE  Requested'
    <2>1. pc[t[1]] = "work" /\ call[t] = "sent" /\ UNCHANGED <<scene, pc, list>>
      BY <1>0, <1>3, CallSteps DEF listVars
    <2>2. late' \in {late, late \cup {Request(t)}}
      BY <1>0, <1>3, CallSteps
    <2>3. \A s \in Scripts : next[s] \in Nat /\ next'[s] \in Nat /\ next'[s] >= next[s]
      <3>1. \A s \in Scripts : next[s] \in Nat
        BY <1>0 DEF PoolTypes
      <3>2. ASSUME NEW o \in {"ok", "failed"}, Outcome(t, o)
            PROVE  \A s \in Scripts : next'[s] \in Nat /\ next'[s] >= next[s]
        <4>1. next'[t[1]] = next[t[1]] + 1 /\ \A s \in Scripts \ {t[1]} : next'[s] = next[s]
          BY <2>1, <3>2, OutcomeSteps
        <4> QED BY <3>1, <4>1
      <3>3. next' = next \/ \E o \in {"ok", "failed"} : Outcome(t, o)
        BY <1>0, <1>3, CallSteps
      <3> QED BY <3>1, <3>2, <3>3
    <2>4. \A r \in late' : Good(r) /\ r.s \in Scripts /\ ~Waiting(r.s)
      BY <1>0, <1>a, <1>b, <1>c, <2>1, <2>2 DEF Requested, Waiting
    <2>5. \A s \in Scripts : Len(list[s]) \in Nat
      BY <1>0 DEF ListTypes
    <2>6. \A r \in late' : r.i < next'[r.s]
      BY <2>3, <2>4, <2>5
    <2> QED BY <2>1, <2>4, <2>6 DEF Requested, Fits, kind, Waiting
  <1>4. CASE (\E r \in late : LateServe(r)) \/ (\E p \in Ids : Churn(p)) \/ UNCHANGED vars
    <2>1. late' \subseteq late /\ UNCHANGED <<scene, pc, list, next>>
      <3>1. ASSUME NEW r \in late, LateServe(r)
            PROVE  late' \subseteq late /\ UNCHANGED <<scene, pc, list, next>>
        BY <3>1, LateSteps DEF poolVars, listVars
      <3> QED BY <1>4, <3>1, ElsewhereSteps DEF poolVars, listVars
    <2> QED BY <1>0, <2>1 DEF Requested, Fits, kind, Waiting
  <1> QED BY <1>1, <1>2, <1>3, <1>4, NextSteps

LEMMA ControlInit == Init => Control
  <1> SUFFICES ASSUME Init PROVE Control
    OBVIOUS
  <1>1. \A t \in Threads : step[t] = 1 /\ attempt[t] = 1 /\ call[t] = "idle"
    BY DEF Init
  <1>2. \A s \in Scripts : pc[s] = "scopes" /\ list[s] = <<>> /\ cursor[s] = 0
    BY DEF Init
  <1>3. \A s \in Scripts, i \in Items : effects[<<s, i>>] = 0 /\ result[<<s, i>>] = "none"
    BY DEF Init
  <1>4. late = {}
    BY DEF Init
  <1>5. \A t \in Threads : t[1] \in Scripts
    BY ThreadParts
  <1>6. Single /\ Quiet
    BY <1>1, <1>2, <1>3 DEF Single, Quiet
  <1>7. Apart
    BY <1>1 DEF Apart, Sent
  <1>8. Accounted
    BY <1>2, <1>5 DEF Accounted
  <1> QED BY <1>4, <1>6, <1>7, <1>8 DEF Control, Requested

LEMMA ControlStep == TypeOK /\ Control /\ [Next]_vars => Control'
  <1> SUFFICES ASSUME TypeOK, Control, [Next]_vars PROVE Control'
    OBVIOUS
  <1> QED BY SingleStep, QuietStep, ApartStep, AccountedStep, RequestedStep DEF Control

LEMMA ControlHolds == Spec => [](TypeOK /\ Control)
  <1> QED BY TypeInit, TypeStep, ControlInit, ControlStep, PTL DEF Spec

\* Two workers are never on one item, and a run that is done has an outcome
\* for each of its items: the index is taken and advanced in one step, and
\* the pool ends when no worker has an item left.
THEOREM EachItemAlwaysOnce == Spec => []EachItemOnce
  <1>1. TypeOK /\ Control => EachItemOnce
    <2> SUFFICES ASSUME TypeOK, Control, NEW s \in Scripts
                 PROVE  /\ \A j, k \in Workers(s) :
                             j # k /\ call[<<s, j>>] = "sent" /\ call[<<s, k>>] = "sent"
                               => item[<<s, j>>] # item[<<s, k>>]
                        /\ pc[s] = "done" => \A i \in DOMAIN list[s] : result[<<s, i>>] # "none"
      BY DEF EachItemOnce
    <2>1. ASSUME NEW j \in Workers(s), NEW k \in Workers(s), j # k, call[<<s, j>>] = "sent", call[<<s, k>>] = "sent"
          PROVE  item[<<s, j>>] # item[<<s, k>>]
      <3>1. <<s, j>> \in Threads /\ <<s, k>> \in Threads /\ <<s, j>> # <<s, k>>
        BY <2>1, ThreadParts
      <3> QED BY <2>1, <3>1 DEF Control, Apart, Sent
    <2>2. pc[s] = "done" => \A i \in DOMAIN list[s] : result[<<s, i>>] # "none"
      BY DEF Control, Accounted, Pending
    <2> QED BY <2>1, <2>2
  <1> QED BY <1>1, ControlHolds, PTL

(***************************************************************************)
(* Writes.                                                                 *)
(***************************************************************************)
\* Whatever step it is: the shop carries a fitting request out, or it stays
\* as it is but for tags and index.
Writes(r) == Accept(r) /\ ~Waiting(r.s) /\ r.i \in 1 .. Len(list[r.s]) /\ Fits(r)

LEMMA WriteSteps ==
  ASSUME TypeOK, Control, [Next]_vars
  PROVE  (\E r \in Requests : Writes(r)) \/ UNCHANGED <<live, last, level, keys, effects>>
  <1>0. Requested /\ Apart /\ Single /\ NetTypes /\ ListTypes /\ PoolTypes /\ OnItems
    BY TypeParts DEF Control
  <1>1. ASSUME NEW t \in Threads, Calling(t), Accept(Request(t))
        PROVE  \E r \in Requests : Writes(r)
    <2>1. call[t] = "sent" /\ pc[t[1]] = "work"
      BY <1>0, <1>1, CallSteps
    <2>2. Request(t) \in Requests /\ Request(t).s = t[1] /\ Request(t).i \in 1 .. Len(list[t[1]])
      BY <1>0, <2>1, RequestType
    <2>3. Fits(Request(t))
      BY <1>0, <2>1, RequestFits
    <2> QED BY <1>1, <2>1, <2>2, <2>3 DEF Writes, Waiting
  <1>2. ASSUME NEW t \in Threads, Calling(t)
        PROVE  (\E r \in Requests : Writes(r)) \/ UNCHANGED <<live, last, level, keys, effects>>
    <2>1. Accept(Request(t)) \/ UNCHANGED shopVars
      BY <1>0, <1>2, CallSteps
    <2> QED BY <1>1, <1>2, <2>1 DEF shopVars
  <1>3. ASSUME NEW r \in late, LateServe(r)
        PROVE  (\E x \in Requests : Writes(x)) \/ UNCHANGED <<live, last, level, keys, effects>>
    <2>1. r \in Requests /\ (Accept(r) \/ UNCHANGED shopVars)
      BY <1>3, LateSteps
    <2> QED BY <1>0, <2>1 DEF Requested, Writes, shopVars
  <1>4. ASSUME NEW s \in Scripts, Listing(s) \/ Ending(s)
        PROVE  UNCHANGED <<live, last, level, keys, effects>>
    BY <1>4, ListingSteps, EndingSteps DEF shopVars
  <1>5. CASE (\E p \in Ids : Churn(p)) \/ UNCHANGED vars
    BY <1>5, ElsewhereSteps
  <1> QED BY <1>2, <1>3, <1>4, <1>5, NextSteps

LEMMA RunFrame ==
  ASSUME TypeOK, Control, [Next]_vars
  PROVE  scene' = scene /\ \A s \in Scripts : ~Waiting(s) => list'[s] = list[s]
  <1>0. Single
    BY DEF Control
  <1>1. ASSUME NEW s \in Scripts, Listing(s)
        PROVE  scene' = scene /\ \A u \in Scripts : ~Waiting(u) => list'[u] = list[u]
    BY <1>1, ListingSteps DEF Others
  <1>2. ASSUME NEW s \in Scripts, Ending(s)
        PROVE  UNCHANGED <<scene, list>>
    BY <1>2, EndingSteps DEF listVars
  <1>3. ASSUME NEW t \in Threads, Calling(t)
        PROVE  UNCHANGED <<scene, list>>
    BY <1>0, <1>3, CallSteps DEF listVars
  <1>4. ASSUME NEW r \in late, LateServe(r)
        PROVE  UNCHANGED <<scene, list>>
    BY <1>4, LateSteps DEF listVars
  <1>5. CASE (\E p \in Ids : Churn(p)) \/ UNCHANGED vars
    BY <1>5, ElsewhereSteps DEF listVars
  <1> QED BY <1>1, <1>2, <1>3, <1>4, <1>5, NextSteps

\* An item becomes done when its last request has been accepted.
LEMMA DoneSteps ==
  ASSUME TypeOK, Control, [Next]_vars, NEW s \in Scripts, NEW i \in Items,
         result'[<<s, i>>] = "ok", result[<<s, i>>] # "ok"
  PROVE  \E r \in Requests : /\ Writes(r) /\ r.s = s /\ r.i = i
                             /\ kind[s] = "populate" => r.op = "set"
  <1>0. Single /\ NetTypes /\ ListTypes /\ PoolTypes /\ OnItems
    BY TypeParts DEF Control
  <1>1. ~\E u \in Scripts : Listing(u) \/ Ending(u)
    <2>1. ASSUME NEW u \in Scripts, Listing(u) \/ Ending(u)
          PROVE  result' = result
      BY <2>1, ListingSteps, EndingSteps DEF Others
    <2> QED BY <2>1
  <1>2. ~\E r \in late : LateServe(r)
    BY LateSteps DEF poolVars
  <1>3. ~((\E p \in Ids : Churn(p)) \/ UNCHANGED vars)
    BY ElsewhereSteps DEF poolVars
  <1>4. PICK t \in Threads : Calling(t)
    BY <1>1, <1>2, <1>3, NextSteps
  <1>5. call[t] = "sent" /\ pc[t[1]] = "work"
    BY <1>0, <1>4, CallSteps
  <1>6. PICK o \in {"ok", "failed"} :
          /\ Outcome(t, o)
          /\ o = "ok" => Accept(Request(t)) /\ ~(step[t] < Steps(t[1], item[t]))
    BY <1>0, <1>4, CallSteps
  <1>7. /\ result'[<<t[1], item[t]>>] = o
        /\ \A w \in Scripts \X Items : w # <<t[1], item[t]>> => result'[w] = result[w]
    BY <1>5, <1>6, OutcomeResults
  <1>8. t[1] = s /\ item[t] = i /\ o = "ok"
    BY <1>7
  <1>9. Request(t) \in Requests /\ Request(t).s = t[1] /\ Request(t).i = item[t] /\ item[t] \in 1 .. Len(list[t[1]])
    BY <1>0, <1>5, RequestType
  <1>10. Fits(Request(t)) /\ (kind[t[1]] = "populate" => Request(t).op = "set")
    BY <1>0, <1>5, <1>6, <1>8, RequestFits
  <1>11. Writes(Request(t))
    BY <1>5, <1>6, <1>8, <1>9, <1>10 DEF Writes, Waiting
  <1> QED BY <1>8, <1>9, <1>10, <1>11

\* What a fitting request writes, by the script it is from.
LEMMA WriteKinds ==
  ASSUME NEW r \in Requests, Writes(r)
  PROVE  /\ kind[r.s] = "generate" => Create(r)
         /\ kind[r.s] = "teardown" => Delete(r)
         /\ kind[r.s] = "populate" => Activate(r) \/ Set(r)
         /\ kind[r.s] = "populate" /\ r.op = "set" => Set(r)
  BY DEF Writes, Fits, Accept, Create, Delete, Activate, Set

LEMMA KindOf ==
  ASSUME TypeOK
  PROVE  \A s \in Scripts : kind[s] \in {"generate", "teardown", "populate"}
  BY TypeParts, SceneKinds DEF NetTypes, Kinds

\* One effect more, of the item of the request.
LEMMA EffectSteps ==
  ASSUME TypeOK, Control, [Next]_vars, NEW w \in Scripts \X Items, effects'[w] # effects[w]
  PROVE  \E r \in Requests : Writes(r) /\ w = <<r.s, r.i>> /\ effects'[w] = effects[w] + 1
  <1>0. ShopTypes
    BY TypeParts
  <1>1. PICK r \in Requests : Writes(r)
    BY WriteSteps
  <1>2. Accept(r)
    BY <1>1 DEF Writes
  <1>3. /\ \A x \in Scripts \X Items : x # <<r.s, r.i>> => effects'[x] = effects[x]
        /\ effects'[<<r.s, r.i>>] \in {effects[<<r.s, r.i>>], effects[<<r.s, r.i>>] + 1}
    BY <1>0, <1>2, AcceptSteps
  <1> QED BY <1>1, <1>3

(***************************************************************************)
(* Teardown.                                                               *)
(***************************************************************************)
LEMMA LiveStep ==
  ASSUME TypeOK, Control, live \subseteq 1 .. last, [Next]_vars
  PROVE  live' \subseteq 1 .. last' /\ \A p \in 1 .. last : p \in 1 .. last' /\ (p \notin live => p \notin live')
  <1>0. ShopTypes
    BY TypeParts
  <1>1. last \in Nat
    BY <1>0, SizeAssumption DEF ShopTypes
  <1>2. (last' = last /\ live' \subseteq live) \/ (last' = last + 1 /\ live' = live \cup {last + 1})
    <2>1. ASSUME NEW r \in Requests, Writes(r)
          PROVE  (last' = last /\ live' \subseteq live) \/ (last' = last + 1 /\ live' = live \cup {last + 1})
      <3>1. Create(r) => last' = last + 1 /\ live' = live \cup {last + 1}
        BY Zenon DEF Create
      <3>2. Delete(r) => last' = last /\ live' \subseteq live
        BY DEF Delete
      <3>3. Activate(r) \/ Set(r) => last' = last /\ live' = live
        BY Zenon DEF Activate, Set
      <3> QED BY <2>1, <3>1, <3>2, <3>3 DEF Writes, Accept
    <2> QED BY <2>1, WriteSteps
  <1>3. CASE last' = last /\ live' \subseteq live
    BY <1>3
  <1>4. CASE last' = last + 1 /\ live' = live \cup {last + 1}
    <2>1. 1 .. last \subseteq 1 .. last' /\ last + 1 \in 1 .. last' /\ last + 1 \notin 1 .. last
      BY <1>1, <1>4
    <2> QED BY <1>4, <2>1
  <1> QED BY <1>2, <1>3, <1>4

LEMMA GoneStep ==
  ASSUME TypeOK, Control, Gone, [Next]_vars
  PROVE  Gone'
  <1>0. ShopTypes /\ Quiet
    BY TypeParts DEF Control
  <1>1. scene' = scene /\ \A s \in Scripts : ~Waiting(s) => list'[s] = list[s]
    BY RunFrame
  <1>a. live \subseteq 1 .. last
    BY DEF Gone
  <1>b. live' \subseteq 1 .. last' /\ \A p \in 1 .. last : p \in 1 .. last' /\ (p \notin live => p \notin live')
    BY <1>a, LiveStep
  <1>2. ASSUME NEW s \in Scripts, kind[s] = "teardown", NEW i \in Items
        PROVE  /\ effects'[<<s, i>>] <= 1
               /\ effects'[<<s, i>>] > 0 \/ result'[<<s, i>>] = "ok" => list'[s][i] \in (1 .. last') \ live'
    <2>0. /\ effects[<<s, i>>] \in Nat /\ effects[<<s, i>>] <= 1 /\ <<s, i>> \in Scripts \X Items
          /\ effects[<<s, i>>] > 0 \/ result[<<s, i>>] = "ok" => list[s][i] \in (1 .. last) \ live
      BY <1>0, <1>2 DEF Gone, ShopTypes
    <2>1. ASSUME NEW r \in Requests, Writes(r), r.s = s, r.i = i
          PROVE  effects[<<s, i>>] = 0 /\ list'[s][i] \in (1 .. last') \ live'
      <3>1. Delete(r)
        BY <1>2, <2>1, WriteKinds
      <3>2. list[s][i] \in live /\ live' = live \ {list[s][i]}
        BY <2>1, <3>1 DEF Delete, Product
      <3>3. list'[s] = list[s]
        BY <1>1, <2>1 DEF Writes
      <3>4. list[s][i] \in 1 .. last' /\ list[s][i] \notin live'
        BY <1>a, <1>b, <3>2
      <3> QED BY <2>0, <3>2, <3>3, <3>4
    <2>2. CASE \E r \in Requests : Writes(r) /\ r.s = s /\ r.i = i
      <3>1. effects[<<s, i>>] = 0 /\ list'[s][i] \in (1 .. last') \ live'
        BY <2>1, <2>2
      <3>2. effects'[<<s, i>>] \in {0, 1}
        BY <2>0, <3>1, EffectSteps
      <3> QED BY <3>1, <3>2
    <2>3. CASE ~\E r \in Requests : Writes(r) /\ r.s = s /\ r.i = i
      <3>1. effects'[<<s, i>>] = effects[<<s, i>>]
        BY <2>0, <2>3, EffectSteps
      <3>2. result'[<<s, i>>] = "ok" => result[<<s, i>>] = "ok"
        BY <2>3, DoneSteps
      <3>3. ASSUME effects[<<s, i>>] > 0 \/ result[<<s, i>>] = "ok"
            PROVE  list'[s][i] \in (1 .. last') \ live'
        <4>1. ~Waiting(s)
          BY <1>0, <3>3 DEF Quiet
        <4>2. list'[s] = list[s] /\ list[s][i] \in (1 .. last) \ live
          BY <1>1, <2>0, <3>3, <4>1
        <4> QED BY <1>b, <4>2
      <3> QED BY <2>0, <3>1, <3>2, <3>3
    <2> QED BY <2>2, <2>3
  <1> QED BY <1>1, <1>2, <1>b DEF Gone, kind

(***************************************************************************)
(* Populate.                                                               *)
(***************************************************************************)
\* A level that a run has set stays set.
LEMMA LevelSteps ==
  ASSUME ShopTypes, NEW r \in Requests, Accept(r)
  PROVE  keys \subseteq keys' /\ \A w \in Ids \X Locations : level[w] \in Scripts => level'[w] \in Scripts
  <1>0. r.s \in Scripts /\ level \in [Ids \X Locations -> Levels]
    BY DEF Requests, ShopTypes
  <1>1. CASE Create(r) \/ Delete(r)
    <2>1. level' = level /\ keys' = keys
      BY <1>1, Zenon DEF Create, Delete
    <2> QED BY <2>1
  <1>2. CASE Activate(r)
    <2>1. keys' = keys \cup {KeyOf(r)}
      BY <1>2, Zenon DEF Activate
    <2>2. level' = [level EXCEPT ![<<Product(r), Places(r)[r.step]>>] =
                      IF KeyOf(r) \in keys \/ @ # "none" THEN @ ELSE "active"]
      BY <1>2, Zenon DEF Activate
    <2>3. \A w \in Ids \X Locations : level'[w] = level[w] \/ level[w] = "none"
      BY <1>0, <2>2
    <2> QED BY <2>1, <2>3, ScriptAssumption
  <1>3. CASE Set(r)
    <2>1. \/ keys' = keys /\ level' = level
          \/ /\ keys' = keys \cup {KeyOf(r)}
             /\ level' = [at \in Ids \X Locations |->
                            IF at[1] = Product(r) /\ \E k \in DOMAIN Places(r) : Places(r)[k] = at[2]
                            THEN r.s ELSE level[at]]
      BY <1>3, Zenon DEF Set
    <2> QED BY <1>0, <2>1
  <1> QED BY <1>1, <1>2, <1>3 DEF Accept

\* A key of a set is new when its levels have just been set.
LEMMA KeySteps ==
  ASSUME ShopTypes, NEW r \in Requests, Accept(r), NEW p \in Ids, NEW ls \in SUBSET Locations,
         <<"set", p, ls>> \in keys', <<"set", p, ls>> \notin keys
  PROVE  \A l \in ls : level'[<<p, l>>] \in Scripts
  <1>0. r.s \in Scripts
    BY DEF Requests
  <1>1. ~Create(r) /\ ~Delete(r)
    BY DEF Create, Delete
  <1>2. ~Activate(r)
    <2>1. ASSUME Activate(r)
          PROVE  FALSE
      <3>1. keys' = keys \cup {KeyOf(r)} /\ KeyOf(r) = <<"activate", Product(r), {Places(r)[r.step]}>>
        BY <2>1 DEF Activate, KeyOf
      <3> QED BY <3>1
    <2> QED BY <2>1
  <1>3. Set(r)
    BY <1>1, <1>2 DEF Accept
  <1>4. /\ keys' = keys \cup {KeyOf(r)}
        /\ level' = [at \in Ids \X Locations |->
                       IF at[1] = Product(r) /\ \E k \in DOMAIN Places(r) : Places(r)[k] = at[2]
                       THEN r.s ELSE level[at]]
    BY <1>3, Zenon DEF Set
  <1>5. KeyOf(r) = <<"set", Product(r), {Places(r)[k] : k \in DOMAIN Places(r)}>>
    BY <1>3 DEF Set, KeyOf
  <1>6. p = Product(r) /\ ls = {Places(r)[k] : k \in DOMAIN Places(r)}
    BY <1>4, <1>5
  <1> QED BY <1>0, <1>4, <1>6

LEMMA StockedStep ==
  ASSUME TypeOK, Control, Stocked, [Next]_vars
  PROVE  Stocked'
  <1>0. ShopTypes /\ Quiet
    BY TypeParts DEF Control
  <1>1. scene' = scene /\ \A s \in Scripts : ~Waiting(s) => list'[s] = list[s]
    BY RunFrame
  <1>2. keys \subseteq keys'
    BY <1>0, WriteSteps, LevelSteps DEF Writes
  <1>3. ASSUME NEW p \in Ids, NEW ls \in SUBSET Locations, <<"set", p, ls>> \in keys', NEW l \in ls
        PROVE  level'[<<p, l>>] \in Scripts
    <2>1. CASE UNCHANGED <<level, keys>>
      BY <1>3, <2>1 DEF Stocked
    <2>2. ASSUME NEW r \in Requests, Accept(r)
          PROVE  level'[<<p, l>>] \in Scripts
      <3>1. CASE <<"set", p, ls>> \in keys
        <4>1. level[<<p, l>>] \in Scripts /\ <<p, l>> \in Ids \X Locations
          BY <1>3, <3>1 DEF Stocked
        <4> QED BY <1>0, <2>2, <4>1, LevelSteps
      <3>2. CASE <<"set", p, ls>> \notin keys
        BY <1>0, <1>3, <2>2, <3>2, KeySteps
      <3> QED BY <3>1, <3>2
    <2> QED BY <2>1, <2>2, WriteSteps DEF Writes
  <1>4. ASSUME NEW s \in Scripts, kind[s] = "populate", NEW i \in Items
        PROVE  /\ effects'[<<s, i>>] <= 1
               /\ effects'[<<s, i>>] > 0 \/ result'[<<s, i>>] = "ok" => list'[s][i] \in Ids /\ SetKey(s, i)' \in keys'
    <2>0. /\ effects[<<s, i>>] \in Nat /\ effects[<<s, i>>] <= 1 /\ <<s, i>> \in Scripts \X Items
          /\ effects[<<s, i>>] > 0 \/ result[<<s, i>>] = "ok" => list[s][i] \in Ids /\ SetKey(s, i) \in keys
      BY <1>0, <1>4 DEF Stocked, ShopTypes
    <2>1. ASSUME NEW r \in Requests, Writes(r), r.s = s, r.i = i, Set(r)
          PROVE  /\ list'[s][i] \in Ids /\ SetKey(s, i)' \in keys'
                 /\ effects'[<<s, i>>] \in {effects[<<s, i>>], 1}
      <3>1. list[s][i] \in Ids /\ KeyOf(r) = SetKey(s, i)
        BY <1>0, <2>1 DEF Set, Product, Places, KeyOf, SetKey, ShopTypes
      <3>2. list'[s] = list[s]
        BY <1>1, <2>1 DEF Writes
      <3>3. KeyOf(r) \in keys'
        BY <2>1, Zenon DEF Set
      <3>4. SetKey(s, i)' = SetKey(s, i)
        BY <3>2 DEF SetKey
      <3>5. KeyOf(r) \in keys => effects' = effects
        BY <2>1 DEF Set
      <3>6. KeyOf(r) \notin keys => effects[<<s, i>>] = 0
        BY <2>0, <3>1
      <3>7. effects'[<<s, i>>] \in {effects[<<s, i>>], effects[<<s, i>>] + 1}
        BY <1>0, <2>1, AcceptSteps DEF Writes
      <3> QED BY <3>1, <3>2, <3>3, <3>4, <3>5, <3>6, <3>7
    <2>2. CASE \E r \in Requests : Writes(r) /\ r.s = s /\ r.i = i /\ Set(r)
      <3>1. /\ list'[s][i] \in Ids /\ SetKey(s, i)' \in keys'
            /\ effects'[<<s, i>>] \in {effects[<<s, i>>], 1}
        BY <2>1, <2>2
      <3> QED BY <2>0, <3>1
    <2>3. CASE ~\E r \in Requests : Writes(r) /\ r.s = s /\ r.i = i /\ Set(r)
      <3>1. effects'[<<s, i>>] = effects[<<s, i>>]
        <4>1. ASSUME NEW r \in Requests, Writes(r), r.s = s
              PROVE  Set(r) \/ UNCHANGED effects
          <5>1. Activate(r) \/ Set(r)
            BY <1>4, <4>1, WriteKinds
          <5> QED BY <5>1 DEF Activate
        <4> QED BY <2>0, <2>3, <4>1, EffectSteps
      <3>2. result'[<<s, i>>] = "ok" => result[<<s, i>>] = "ok"
        BY <1>4, <2>3, DoneSteps, WriteKinds
      <3>3. ASSUME effects[<<s, i>>] > 0 \/ result[<<s, i>>] = "ok"
            PROVE  list'[s][i] \in Ids /\ SetKey(s, i)' \in keys'
        <4>1. ~Waiting(s)
          BY <1>0, <3>3 DEF Quiet
        <4>2. list'[s] = list[s] /\ list[s][i] \in Ids /\ SetKey(s, i) \in keys
          BY <1>1, <2>0, <3>3, <4>1
        <4>3. SetKey(s, i)' = SetKey(s, i)
          BY <4>2 DEF SetKey
        <4> QED BY <1>2, <4>2, <4>3
      <3> QED BY <2>0, <3>1, <3>2, <3>3
    <2> QED BY <2>2, <2>3
  <1> QED BY <1>1, <1>3, <1>4 DEF Stocked, kind

(***************************************************************************)
(* Generate.                                                               *)
(***************************************************************************)
LEMMA SameRequest ==
  ASSUME NEW r \in Requests, NEW q \in Requests,
         r.op = q.op, r.s = q.s, r.i = q.i, r.step = q.step, r.n = q.n
  PROVE  r = q
  BY DEF Requests

LEMMA SameFresh ==
  ASSUME NEW s, NEW i, FreshAt(s, i), effects'[<<s, i>>] = effects[<<s, i>>],
         Open(s, i)' => Open(s, i), Out(s, i)' => Out(s, i)
  PROVE  FreshAt(s, i)'
  BY DEF FreshAt

LEMMA FreshStep ==
  ASSUME TypeOK, Control, Fresh, [Next]_vars
  PROVE  Fresh'
  <1>0. ShopTypes /\ NetTypes /\ ListTypes /\ PoolTypes /\ OnItems /\ Single /\ Apart /\ Requested
    BY TypeParts DEF Control
  <1>a. scene' = scene
    BY RunFrame
  <1>b. ASSUME NEW s \in Scripts, NEW i \in Items
        PROVE  <<s, i>> \in Scripts \X Items /\ effects[<<s, i>>] \in Nat /\ i \in Nat /\ next[s] \in Nat
    BY <1>0 DEF ShopTypes, PoolTypes, Items
  <1> SUFFICES ASSUME NEW s \in Scripts, kind[s] = "generate", NEW i \in Items
               PROVE  FreshAt(s, i)'
    BY <1>a DEF Fresh, kind
  <1>c. FreshAt(s, i)
    BY DEF Fresh
  <1>d. i \in Nat /\ next[s] \in Nat
    BY <1>b
  <1>1. ASSUME NEW u \in Scripts, Listing(u)
        PROVE  FreshAt(s, i)'
    <2>1. effects' = effects /\ late' = late
      BY <1>1, ListingSteps
    <2>2. Open(s, i)' => Open(s, i)
      <3>1. CASE u = s
        BY <1>1, <3>1, ListingSteps DEF Open
      <3>2. CASE u # s
        <4>1. /\ pc'[s] = pc[s] /\ next'[s] = next[s]
              /\ \A t \in Threads : t[1] = s => item'[t] = item[t] /\ call'[t] = call[t]
          BY <1>1, <3>2, ListingSteps DEF Others
        <4> QED BY <4>1 DEF Open, On, Waiting
      <3> QED BY <3>1, <3>2
    <2> QED BY <1>c, <2>1, <2>2, SameFresh DEF Out
  <1>2. ASSUME NEW u \in Scripts, Ending(u)
        PROVE  FreshAt(s, i)'
    <2>1. effects' = effects /\ next' = next /\ item' = item
      BY <1>2, EndingSteps DEF shopVars
    <2>2. \A r \in late' : r \in late \/ \E t \in Threads : t[1] = u /\ call[t] = "sent" /\ r = Request(t)
      BY <1>2, EndingSteps
    <2>3. \A t \in Threads : call[t] = "sent" => Request(t).s = t[1] /\ Request(t).i = item[t]
      BY <1>0, RequestType
    <2>4. Out(s, i)' => Out(s, i) \/ (u = s /\ \E t \in Threads : On(t, s, i))
      BY <2>2, <2>3 DEF Out, On
    <2>5. Open(s, i)' => Open(s, i)
      <3>1. /\ pc'[u] \in {"done", "killed"} /\ \A v \in Scripts \ {u} : pc'[v] = pc[v]
            /\ \A t \in Threads : (t[1] = u => call'[t] = "left") /\ (t[1] # u => call'[t] = call[t])
        BY <1>2, EndingSteps
      <3> QED BY <2>1, <3>1 DEF Open, On, Waiting
    <2>6. u = s /\ Open(s, i)' => ~\E t \in Threads : On(t, s, i)
      <3>1. /\ pc'[u] \in {"done", "killed"}
            /\ \A t \in Threads : t[1] = u => call'[t] = "left"
        BY <1>2, EndingSteps
      <3>2. u = s /\ Open(s, i)' => i >= next[s]
        BY <2>1, <3>1 DEF Open, On, Waiting
      <3>3. \A t \in Threads : On(t, s, i) => i < next[s]
        BY <1>0 DEF Apart, Sent, On
      <3> QED BY <1>d, <3>2, <3>3
    <2> QED BY <1>c, <2>1, <2>4, <2>5, <2>6 DEF FreshAt, Open
  <1>3. ASSUME NEW t \in Threads, Calling(t)
        PROVE  FreshAt(s, i)'
    <2>1. pc[t[1]] = "work" /\ call[t] = "sent" /\ pc' = pc
      BY <1>0, <1>3, CallSteps
    <2>2. Request(t).s = t[1] /\ Request(t).i = item[t] /\ Request(t) \in Requests /\ item[t] \in Items /\ t[1] \in Scripts
      BY <1>0, <2>1, RequestType, ThreadParts
    <2>3. \/ Accept(Request(t)) /\ late' = late
          \/ UNCHANGED shopVars /\ late' \in {late, late \cup {Request(t)}}
      BY <1>0, <1>3, CallSteps
    <2>4. \A u \in Threads \ {t} : item'[u] = item[u] /\ call'[u] = call[u]
      BY <1>3, CallOthers
    <2>5. ASSUME <<s, i>> # <<t[1], item[t]>>
          PROVE  effects'[<<s, i>>] = effects[<<s, i>>] /\ (Out(s, i)' => Out(s, i))
      <3>1. effects'[<<s, i>>] = effects[<<s, i>>]
        <4>1. CASE Accept(Request(t))
          <5>1. \A w \in Scripts \X Items : w # <<Request(t).s, Request(t).i>> => effects'[w] = effects[w]
            BY <1>0, <2>2, <4>1, AcceptSteps
          <5> QED BY <1>b, <2>2, <2>5, <5>1
        <4>2. CASE UNCHANGED shopVars
          BY <4>2 DEF shopVars
        <4> QED BY <2>3, <4>1, <4>2
      <3>2. Out(s, i)' => Out(s, i)
        BY <2>2, <2>3, <2>5 DEF Out
      <3> QED BY <3>1, <3>2
    <2>6. CASE t[1] # s
      <3>1. next'[s] = next[s]
        <4>1. ASSUME NEW o \in {"ok", "failed"}, Outcome(t, o)
              PROVE  next'[s] = next[s]
          BY <2>1, <2>6, <4>1, OutcomeSteps
        <4> QED BY <1>0, <1>3, <4>1, CallSteps
      <3>2. Open(s, i)' => Open(s, i)
        BY <2>1, <2>4, <2>6, <3>1 DEF Open, On, Waiting
      <3> QED BY <1>c, <2>5, <2>6, <3>2, SameFresh
    <2>7. CASE t[1] = s
      <3>1. PICK o \in {"ok", "failed"} : Outcome(t, o)
        BY <1>0, <1>3, <2>7, CallSteps
      <3>2. next'[s] = next[s] + 1 /\ item'[t] = next[s] /\ next[s] \in Nat
        BY <2>1, <2>7, <3>1, OutcomeSteps
      <3>3. CASE i # item[t]
        <4>1. Open(s, i)' => Open(s, i)
          <5>1. i >= next'[s] => i >= next[s]
            BY <1>d, <3>2
          <5>2. On(t, s, i)' => i >= next[s]
            BY <1>d, <3>2 DEF On
          <5>3. \A u \in Threads \ {t} : On(u, s, i)' => On(u, s, i)
            BY <2>4 DEF On
          <5> QED BY <2>1, <5>1, <5>2, <5>3 DEF Open, Waiting
        <4> QED BY <1>c, <2>5, <3>3, <4>1, SameFresh
      <3>4. CASE i = item[t]
        <4>1. On(t, s, i) /\ i < next[s]
          BY <1>0, <2>1, <2>7, <3>4 DEF On, Apart, Sent
        <4>2. effects[<<s, i>>] = 0 /\ ~Out(s, i)
          BY <1>c, <4>1 DEF FreshAt, Open
        <4>3. ~Open(s, i)'
          <5>0. ~(i >= next'[s])
            BY <1>d, <3>2, <4>1
          <5>1. ~Waiting(s)' /\ ~(i >= next'[s])
            BY <2>1, <2>7, <5>0 DEF Waiting
          <5>2. ~On(t, s, i)'
            BY <1>d, <3>2, <4>1 DEF On
          <5>3. \A u \in Threads \ {t} : ~On(u, s, i)'
            BY <1>0, <2>1, <2>4, <2>7, <3>4 DEF On, Apart, Sent
          <5> QED BY <5>1, <5>2, <5>3 DEF Open
        <4>4. CASE Accept(Request(t)) /\ late' = late
          <5>1. effects'[<<s, i>>] \in {0, 1}
            BY <1>0, <2>2, <2>7, <3>4, <4>2, <4>4, AcceptSteps
          <5> QED BY <4>2, <4>3, <4>4, <5>1 DEF FreshAt, Out
        <4>5. CASE UNCHANGED shopVars
          <5>1. effects' = effects
            BY <4>5 DEF shopVars
          <5> QED BY <4>2, <4>3, <5>1 DEF FreshAt
        <4> QED BY <2>3, <4>4, <4>5
      <3> QED BY <3>3, <3>4
    <2> QED BY <2>6, <2>7
  <1>4. ASSUME NEW r \in late, LateServe(r)
        PROVE  FreshAt(s, i)'
    <2>1. late' = late \ {r} /\ (Accept(r) \/ UNCHANGED shopVars) /\ r \in Requests
      BY <1>4, LateSteps
    <2>2. UNCHANGED <<pc, next, item, call>>
      BY <1>4, LateSteps DEF poolVars
    <2>3. Open(s, i)' = Open(s, i)
      BY <2>2 DEF Open, On, Waiting
    <2>4. CASE r.s = s /\ r.i = i
      <3>1. Out(s, i)
        BY <2>4 DEF Out
      <3>2. effects[<<s, i>>] = 0 /\ ~Open(s, i)
        BY <1>c, <3>1 DEF FreshAt
      <3>3. ASSUME NEW q \in late, q.s = s, q.i = i
            PROVE  q = r
        <4>1. q \in Requests /\ Fits(q) /\ Fits(r)
          BY <1>0, <1>4 DEF NetTypes, Requested
        <4>2. q.op = r.op /\ q.step = r.step /\ q.n = r.n
          BY <2>4, <3>3, <4>1 DEF Fits
        <4> QED BY <2>1, <2>4, <3>3, <4>1, <4>2, SameRequest
      <3>4. ~Out(s, i)'
        BY <2>1, <3>3 DEF Out
      <3>5. effects'[<<s, i>>] \in {0, 1}
        <4>1. CASE Accept(r)
          BY <1>0, <2>1, <2>4, <3>2, <4>1, AcceptSteps
        <4>2. CASE UNCHANGED shopVars
          BY <3>2, <4>2 DEF shopVars
        <4> QED BY <2>1, <4>1, <4>2
      <3> QED BY <2>3, <3>2, <3>4, <3>5 DEF FreshAt
    <2>5. CASE ~(r.s = s /\ r.i = i)
      <3>1. effects'[<<s, i>>] = effects[<<s, i>>]
        <4>1. CASE Accept(r)
          <5>1. \A w \in Scripts \X Items : w # <<r.s, r.i>> => effects'[w] = effects[w]
            BY <1>0, <2>1, <4>1, AcceptSteps
          <5> QED BY <1>b, <2>5, <5>1
        <4>2. CASE UNCHANGED shopVars
          BY <4>2 DEF shopVars
        <4> QED BY <2>1, <4>1, <4>2
      <3>2. Out(s, i)' => Out(s, i)
        BY <2>1 DEF Out
      <3> QED BY <1>c, <2>3, <3>1, <3>2, SameFresh
    <2> QED BY <2>4, <2>5
  <1>5. CASE (\E p \in Ids : Churn(p)) \/ UNCHANGED vars
    <2>1. UNCHANGED <<effects, late, pc, next, item, call>>
      BY <1>5, ElsewhereSteps DEF poolVars
    <2> QED BY <1>c, <2>1 DEF FreshAt, Open, On, Out, Waiting
  <1> QED BY <1>1, <1>2, <1>3, <1>4, <1>5, NextSteps

LEMMA MadeStep ==
  ASSUME TypeOK, Control, Made, [Next]_vars
  PROVE  Made'
  <1>0. ShopTypes
    BY TypeParts
  <1>1. scene' = scene
    BY RunFrame
  <1>2. ASSUME NEW s \in Scripts, NEW i \in Items, kind[s] = "generate", result'[<<s, i>>] = "ok"
        PROVE  effects'[<<s, i>>] > 0
    <2>0. effects[<<s, i>>] \in Nat /\ <<s, i>> \in Scripts \X Items
      BY <1>0 DEF ShopTypes
    <2>1. CASE result[<<s, i>>] = "ok"
      <3>1. effects[<<s, i>>] > 0
        BY <1>2, <2>1 DEF Made
      <3>2. effects'[<<s, i>>] \in {effects[<<s, i>>], effects[<<s, i>>] + 1}
        BY <2>0, EffectSteps
      <3> QED BY <2>0, <3>1, <3>2
    <2>2. CASE result[<<s, i>>] # "ok"
      <3>1. PICK r \in Requests : Writes(r) /\ r.s = s /\ r.i = i
        BY <1>2, <2>2, DoneSteps
      <3>2. Create(r)
        BY <1>2, <3>1, WriteKinds
      <3>3. effects'[<<s, i>>] = effects[<<s, i>>] + 1
        BY <1>0, <3>1, <3>2, AcceptSteps DEF Writes, Create
      <3> QED BY <2>0, <3>3
    <2> QED BY <2>1, <2>2
  <1> QED BY <1>1, <1>2 DEF Made, kind

Effects == Gone /\ Stocked /\ Fresh /\ Made

LEMMA EffectsInit == Init => Effects
  <1> SUFFICES ASSUME Init PROVE Effects
    OBVIOUS
  <1>1. \A s \in Scripts, i \in Items : effects[<<s, i>>] = 0 /\ result[<<s, i>>] = "none"
    BY DEF Init
  <1>2. live = 1 .. last /\ keys = {} /\ late = {}
    BY DEF Init
  <1>3. Gone
    BY <1>1, <1>2 DEF Gone
  <1>4. Stocked
    BY <1>1, <1>2 DEF Stocked
  <1>5. Fresh
    BY <1>1, <1>2 DEF Fresh, FreshAt, Out
  <1>6. Made
    BY <1>1 DEF Made
  <1> QED BY <1>3, <1>4, <1>5, <1>6 DEF Effects

LEMMA EffectsStep == TypeOK /\ Control /\ Effects /\ [Next]_vars => Effects'
  <1> SUFFICES ASSUME TypeOK, Control, Effects, [Next]_vars PROVE Effects'
    OBVIOUS
  <1> QED BY GoneStep, StockedStep, FreshStep, MadeStep DEF Effects

LEMMA EffectsHold == Spec => [](TypeOK /\ Control /\ Effects)
  <1> QED BY TypeInit, TypeStep, ControlInit, ControlStep, EffectsInit, EffectsStep, PTL DEF Spec

\* Whatever is retried, lost or late, no write takes effect twice: a create
\* is sent once, a deleted product is gone for good, and a set leaves a key
\* that stops the next.
THEOREM EffectAlwaysOnce == Spec => []EffectOnce
  <1>1. TypeOK /\ Effects => EffectOnce
    <2> SUFFICES ASSUME TypeOK, Effects, NEW s \in Scripts, NEW i \in Items
                 PROVE  effects[<<s, i>>] <= 1
      BY DEF EffectOnce
    <2>1. kind[s] \in {"generate", "teardown", "populate"}
      BY KindOf
    <2> QED BY <2>1 DEF Effects, Gone, Stocked, Fresh, FreshAt
  <1> QED BY <1>1, EffectsHold, PTL

\* What a run counts as done is done: the product was made, is gone, or has
\* levels that a run has set at every place of its plan, since its key is
\* known and a level that was set stays set.
THEOREM OkAlwaysDone == Spec => []OkMeansDone
  <1>1. TypeOK /\ Effects => OkMeansDone
    <2> SUFFICES ASSUME TypeOK, Effects, NEW s \in Scripts, NEW i \in Items, result[<<s, i>>] = "ok"
                 PROVE  \/ kind[s] = "generate" /\ effects[<<s, i>>] > 0
                        \/ kind[s] # "generate" /\ list[s][i] \notin live
                        \/ /\ kind[s] = "populate"
                           /\ \A k \in DOMAIN Plan[<<s, i>>] : level[<<list[s][i], Plan[<<s, i>>][k]>>] \in Scripts
      BY DEF OkMeansDone
    <2>1. kind[s] \in {"generate", "teardown", "populate"}
      BY KindOf
    <2>2. CASE kind[s] = "generate"
      BY <2>2 DEF Effects, Made
    <2>3. CASE kind[s] = "teardown"
      BY <2>3 DEF Effects, Gone
    <2>4. CASE kind[s] = "populate"
      <3> DEFINE ls == {Plan[<<s, i>>][k] : k \in DOMAIN Plan[<<s, i>>]}
      <3>1. list[s][i] \in Ids /\ <<"set", list[s][i], ls>> \in keys
        BY <2>4 DEF Effects, Stocked, SetKey
      <3>2. ls \in SUBSET Locations
        BY PlanAssumption
      <3>3. \A l \in ls : level[<<list[s][i], l>>] \in Scripts
        BY <3>1, <3>2 DEF Effects, Stocked
      <3> QED BY <2>4, <3>3
    <2> QED BY <2>1, <2>2, <2>3, <2>4
  <1> QED BY <1>1, EffectsHold, PTL

(***************************************************************************)
(* Which products a teardown lists.                                        *)
(***************************************************************************)
\* What a page adds to the list.
LEMMA FoundItems ==
  ASSUME TypeOK, NEW s \in Scripts, FetchPage(s), kind[s] = "teardown"
  PROVE  /\ \A i \in DOMAIN list'[s] : \/ i \in DOMAIN list[s] /\ list'[s][i] = list[s][i]
                                      \/ list'[s][i] \in PageOf(s) \cap tagged
         /\ \A i \in DOMAIN list[s] : i \in DOMAIN list'[s] /\ list'[s][i] = list[s][i]
         /\ \A p \in PageOf(s) \cap tagged : \E i \in DOMAIN list'[s] : list'[s][i] = p
  <1>0. ShopTypes /\ RunTypes /\ ListTypes /\ PoolTypes
    BY TypeParts
  <1>1. PICK found \in InOrder(Kept(s)) :
              /\ list[s] \o found \in Seq(Nat) /\ Len(list[s] \o found) <= MaxItems
              /\ \/ Begin(s, Chosen(s, list[s] \o found))
                 \/ list' = [list EXCEPT ![s] = list[s] \o found]
    BY FetchSteps
  <1>2. Chosen(s, list[s] \o found) = list[s] \o found
    BY DEF Chosen
  <1>3. list'[s] = list[s] \o found
    <2>1. CASE Begin(s, Chosen(s, list[s] \o found))
      <3>1. list' = [list EXCEPT ![s] = list[s] \o found]
        BY <1>2, <2>1 DEF Begin
      <3> QED BY <1>0, <3>1 DEF ListTypes
    <2>2. CASE list' = [list EXCEPT ![s] = list[s] \o found]
      BY <1>0, <2>2 DEF ListTypes
    <2> QED BY <1>1, <2>1, <2>2
  <1>4. Kept(s) = PageOf(s) \cap tagged
    BY DEF Kept
  <1>5. /\ found \in Seq(Nat) /\ list[s] \in Seq(Nat)
        /\ \A i \in DOMAIN found : found[i] \in PageOf(s) \cap tagged
        /\ \A p \in PageOf(s) \cap tagged : \E i \in DOMAIN found : found[i] = p
    <2>1. list[s] \in Seq(Nat)
      BY <1>0 DEF ListTypes
    <2>2. /\ found \in Seq(Nat) /\ \A i \in DOMAIN found : found[i] \in Kept(s)
          /\ \A p \in Kept(s) : \E i \in DOMAIN found : found[i] = p
      BY <1>0, FoundTypes
    <2> QED BY <1>4, <2>1, <2>2
  <1>6. \A i \in DOMAIN (list[s] \o found) :
          \/ i \in DOMAIN list[s] /\ (list[s] \o found)[i] = list[s][i]
          \/ \E j \in DOMAIN found : (list[s] \o found)[i] = found[j]
    <2> TAKE i \in DOMAIN (list[s] \o found)
    <2>1. i \in 1 .. Len(list[s]) + Len(found)
      BY <1>5
    <2>2. CASE i <= Len(list[s])
      BY <1>5, <2>1, <2>2
    <2>3. CASE i > Len(list[s])
      <3>1. i - Len(list[s]) \in DOMAIN found /\ (list[s] \o found)[i] = found[i - Len(list[s])]
        BY <1>5, <2>1, <2>3
      <3> QED BY <3>1
    <2> QED BY <1>5, <2>1, <2>2, <2>3
  <1>7. \A i \in DOMAIN list[s] : i \in DOMAIN (list[s] \o found) /\ (list[s] \o found)[i] = list[s][i]
    BY <1>5
  <1>8. \A j \in DOMAIN found : \E i \in DOMAIN (list[s] \o found) : (list[s] \o found)[i] = found[j]
    <2> TAKE j \in DOMAIN found
    <2>1. j + Len(list[s]) \in DOMAIN (list[s] \o found) /\ (list[s] \o found)[j + Len(list[s])] = found[j]
      BY <1>5
    <2> QED BY <2>1
  <1>9. \A i \in DOMAIN list'[s] : \/ i \in DOMAIN list[s] /\ list'[s][i] = list[s][i]
                                   \/ list'[s][i] \in PageOf(s) \cap tagged
    BY <1>3, <1>5, <1>6
  <1>10. \A p \in PageOf(s) \cap tagged : \E i \in DOMAIN list'[s] : list'[s][i] = p
    BY <1>3, <1>5, <1>8
  <1> QED BY <1>3, <1>7, <1>9, <1>10

\* What a step that lists nothing does to tags, searches and lists.
KeepsTags(s) ==
  /\ untagged'[s] \subseteq untagged[s] /\ stayed'[s] \subseteq stayed[s]
  /\ untagged[s] \cap tagged = {} => untagged'[s] \cap tagged' = {}
  /\ stayed[s] \subseteq Found => stayed'[s] \subseteq Found'

LEMMA TagWrites ==
  ASSUME TypeOK, NEW r \in Requests, Accept(r), NEW s \in Scripts
  PROVE  KeepsTags(s)
  <1>0. untagged \in [Scripts -> SUBSET Ids] /\ stayed \in [Scripts -> SUBSET Ids]
    BY DEF TypeOK
  <1>1. CASE Create(r)
    <2>1. /\ live' = live \cup {last + 1} /\ tagged' = tagged \cup {last + 1}
          /\ indexed \subseteq indexed' /\ stayed' = stayed
          /\ untagged' = [u \in Scripts |-> untagged[u] \ {last + 1}]
      BY <1>1 DEF Create
    <2> QED BY <1>0, <2>1 DEF KeepsTags, Found
  <1>2. CASE Delete(r)
    <2>1. /\ live' = live \ {Product(r)} /\ UNCHANGED <<tagged, indexed, untagged>>
          /\ stayed' = [u \in Scripts |-> stayed[u] \ {Product(r)}]
      BY <1>2, Zenon DEF Delete
    <2> QED BY <1>0, <2>1 DEF KeepsTags, Found
  <1>3. CASE Activate(r) \/ Set(r)
    <2>1. UNCHANGED <<live, tagged, indexed, untagged, stayed>>
      BY <1>3, Zenon DEF Activate, Set
    <2> QED BY <2>1 DEF KeepsTags, Found
  <1> QED BY <1>1, <1>2, <1>3 DEF Accept

LEMMA TagSteps ==
  ASSUME TypeOK, Control, [Next]_vars, ~\E u \in Scripts : Listing(u), NEW s \in Scripts
  PROVE  /\ KeepsTags(s) /\ list' = list /\ cursor' = cursor
         /\ pc'[s] \in {pc[s], "killed"} \/ (pc[s] = "work" /\ pc'[s] = "done")
  <1>0. Single /\ NetTypes /\ ListTypes /\ PoolTypes /\ OnItems
    BY TypeParts DEF Control
  <1>a. UNCHANGED shopVars => KeepsTags(s)
    BY DEF shopVars, KeepsTags, Found
  <1>1. ASSUME NEW u \in Scripts, Ending(u)
        PROVE  /\ KeepsTags(s) /\ list' = list /\ cursor' = cursor
               /\ pc'[s] \in {pc[s], "killed"} \/ (pc[s] = "work" /\ pc'[s] = "done")
    <2>1. UNCHANGED <<shopVars, list, cursor>>
      BY <1>1, EndingSteps DEF listVars
    <2>2. pc'[s] \in {pc[s], "killed"} \/ (pc[s] = "work" /\ pc'[s] = "done")
      BY <1>1, EndingSteps
    <2> QED BY <1>a, <2>1, <2>2
  <1>2. ASSUME NEW t \in Threads, Calling(t)
        PROVE  KeepsTags(s) /\ UNCHANGED <<list, cursor, pc>>
    <2>1. UNCHANGED <<list, cursor, pc>> /\ call[t] = "sent"
      BY <1>0, <1>2, CallSteps DEF listVars
    <2>2. Request(t) \in Requests
      BY <1>0, <2>1, RequestType
    <2>3. Accept(Request(t)) \/ UNCHANGED shopVars
      BY <1>0, <1>2, CallSteps
    <2> QED BY <1>a, <2>1, <2>2, <2>3, TagWrites
  <1>3. ASSUME NEW r \in late, LateServe(r)
        PROVE  KeepsTags(s) /\ UNCHANGED <<list, cursor, pc>>
    <2>1. UNCHANGED <<list, cursor, pc>>
      BY <1>3, LateSteps DEF listVars
    <2>2. r \in Requests /\ (Accept(r) \/ UNCHANGED shopVars)
      BY <1>3, LateSteps
    <2> QED BY <1>a, <2>1, <2>2, TagWrites
  <1>4. ASSUME NEW p \in Ids, Churn(p)
        PROVE  KeepsTags(s) /\ UNCHANGED <<list, cursor, pc>>
    <2>1. UNCHANGED <<live, untagged, pc, list, cursor>>
      BY <1>4, ChurnSteps DEF listVars
    <2>2. CASE Untag(p)
      <3>1. tagged' = tagged \ {p} /\ stayed' = [u \in Scripts |-> stayed[u] \ {p}] /\ indexed' = indexed
        BY <2>2, Zenon DEF Untag
      <3> QED BY <2>1, <3>1 DEF KeepsTags, Found
    <2>3. CASE Reindex(p)
      <3>1. /\ indexed' = IF p \in tagged THEN indexed \cup {p} ELSE indexed \ {p}
            /\ tagged' = tagged /\ stayed' = stayed
        BY <2>3, Zenon DEF Reindex
      <3> QED BY <2>1, <3>1 DEF KeepsTags, Found
    <2> QED BY <1>4, <2>1, <2>2, <2>3 DEF Churn
  <1>5. CASE UNCHANGED vars
    <2>1. UNCHANGED <<shopVars, list, cursor, pc>>
      BY <1>5, Zenon DEF vars, listVars
    <2> QED BY <1>a, <2>1
  <1> QED BY <1>1, <1>2, <1>3, <1>4, <1>5, NextSteps

\* A page that goes on ends at its last product.
LEMMA TurnSteps ==
  ASSUME TypeOK, NEW s \in Scripts, FetchPage(s), pc'[s] \in {"list", "work", "done"}
  PROVE  \/ PageOf(s) = After(s) /\ pc'[s] # "list"
         \/ pc'[s] = "list" /\ cursor'[s] = cursor[s]
         \/ pc'[s] = "list" /\ cursor'[s] \in PageOf(s) /\ \A q \in PageOf(s) : q <= cursor'[s]
  <1>0. RunTypes
    BY TypeParts
  <1>1. pc[s] = "list"
    BY Zenon DEF FetchPage
  <1>2. CASE PageOf(s) = After(s) /\ \E items : Begin(s, items)
    <2>1. pc'[s] # "list"
      BY <1>0, <1>2 DEF Begin, RunTypes
    <2> QED BY <1>2, <2>1
  <1>3. ASSUME NEW end, Turn(s, end)
        PROVE  pc'[s] = "list" /\ cursor'[s] = end
    <2>1. CASE end = before[s]
      BY <1>0, <1>3, <2>1 DEF Turn, RunTypes
    <2>2. CASE end # before[s]
      BY <1>0, <1>1, <1>3, <2>2 DEF Turn, RunTypes
    <2> QED BY <2>1, <2>2
  <1>4. \/ PageOf(s) = After(s) /\ \E items : Begin(s, items)
        \/ \E p \in PageOf(s) : (\A q \in PageOf(s) : q <= p) /\ Turn(s, p)
        \/ Turn(s, cursor[s])
    BY Zenon DEF FetchPage
  <1>5. CASE \E p \in PageOf(s) : (\A q \in PageOf(s) : q <= p) /\ Turn(s, p)
    <2>1. PICK p \in PageOf(s) : (\A q \in PageOf(s) : q <= p) /\ Turn(s, p)
      BY <1>5
    <2>2. pc'[s] = "list" /\ cursor'[s] = p
      BY <1>3, <2>1
    <2> QED BY <2>1, <2>2
  <1>6. CASE Turn(s, cursor[s])
    BY <1>3, <1>6
  <1> QED BY <1>2, <1>4, <1>5, <1>6

\* A page holds all up to its last product.
LEMMA PageBelow ==
  ASSUME TypeOK, NEW s \in Scripts, NEW q \in PageOf(s), NEW p \in After(s), p <= q
  PROVE  p \in PageOf(s)
  <1> DEFINE upTo(n) == {x \in After(s) : x <= n}
  <1>0. ShopTypes
    BY TypeParts
  <1>a. MaxProducts \in Nat /\ Ids = 1 .. MaxProducts
    BY SizeAssumption DEF Ids
  <1>b. After(s) \subseteq Ids
    BY <1>0 DEF After, ShopTypes
  <1>1. After(s) \subseteq Ids /\ Ids \subseteq Nat /\ IsFiniteSet(Ids)
    BY <1>a, <1>b, FS_Interval
  <1>2. q \in After(s) /\ Cardinality(upTo(q)) <= PageSize
    BY DEF PageOf
  <1>3. upTo(p) \subseteq upTo(q)
    <2>1. \A x \in After(s) : x \in Nat
      BY <1>1
    <2>2. q \in Nat /\ p \in Nat
      BY <1>2, <2>1
    <2>3. ASSUME NEW x \in After(s), x <= p
          PROVE  x <= q
      BY <2>1, <2>2, <2>3
    <2> QED BY <2>3
  <1>4. IsFiniteSet(upTo(q))
    BY <1>1, FS_Subset
  <1>5. Cardinality(upTo(p)) <= Cardinality(upTo(q)) /\ Cardinality(upTo(p)) \in Nat /\ Cardinality(upTo(q)) \in Nat
    BY <1>3, <1>4, FS_Subset, FS_CardinalityType
  <1>6. Cardinality(upTo(p)) <= PageSize
    BY <1>2, <1>5, SizeAssumption
  <1> QED BY <1>6 DEF PageOf

\* What a step that lists does to tags and searches.
LEMMA ListingTags ==
  ASSUME TypeOK, Control, NEW s \in Scripts, Listing(s)
  PROVE  /\ \A u \in Scripts \ {s} : untagged'[u] = untagged[u] /\ stayed'[u] = stayed[u]
         /\ \/ /\ Start(s) /\ untagged'[s] = Ids \ tagged /\ stayed'[s] = Found
               /\ list[s] = <<>> /\ cursor'[s] = 0
               /\ kind[s] = "teardown" => list'[s] = <<>> /\ pc'[s] \in {"list", "failed"}
            \/ FetchPage(s) /\ untagged'[s] = untagged[s] /\ stayed'[s] = stayed[s]
            \/ /\ pc'[s] = "failed" /\ list' = list
               /\ untagged'[s] = untagged[s] /\ stayed'[s] = stayed[s]
  <1>0. RunTypes /\ untagged \in [Scripts -> SUBSET Ids] /\ stayed \in [Scripts -> SUBSET Ids] /\ Quiet
    BY TypeParts DEF ShopTypes, Control
  <1>1. CASE Start(s)
    <2>1. /\ pc[s] = "scopes" /\ cursor' = cursor
          /\ untagged' = [untagged EXCEPT ![s] = Ids \ tagged] /\ stayed' = [stayed EXCEPT ![s] = Found]
      BY <1>1, Zenon DEF Start
    <2>2. kind[s] = "teardown" => list' = list /\ (pc' = [pc EXCEPT ![s] = "list"] \/ pc' = [pc EXCEPT ![s] = "failed"])
      BY <1>1 DEF Start, Stop
    <2>3. list[s] = <<>> /\ cursor[s] = 0
      BY <1>0, <2>1 DEF Quiet
    <2>4. kind[s] = "teardown" => list'[s] = <<>> /\ pc'[s] \in {"list", "failed"}
      BY <1>0, <2>2, <2>3 DEF RunTypes
    <2> QED BY <1>0, <1>1, <2>1, <2>3, <2>4
  <1>2. CASE FetchPage(s)
    BY <1>2, FetchSteps DEF shopVars
  <1>3. CASE FetchFails(s)
    <2>1. UNCHANGED <<shopVars, list>> /\ pc' = [pc EXCEPT ![s] = "failed"]
      BY <1>3, Zenon DEF FetchFails, Stop
    <2> QED BY <1>0, <2>1 DEF shopVars, RunTypes
  <1> QED BY <1>1, <1>2, <1>3 DEF Listing

LEMMA SparedStep ==
  ASSUME TypeOK, Control, Spared, [Next]_vars
  PROVE  Spared'
  <1>0. scene' = scene
    BY RunFrame
  <1>1. ASSUME NEW u \in Scripts, Listing(u), NEW s \in Scripts
        PROVE  /\ untagged'[s] \cap tagged' = {}
               /\ kind[s] = "teardown" => \A i \in DOMAIN list'[s] : list'[s][i] \notin untagged'[s]
    <2>1. tagged' = tagged /\ Others(u)
      BY <1>1, ListingSteps
    <2>2. CASE s # u
      <3>1. untagged'[s] = untagged[s] /\ list'[s] = list[s]
        BY <1>1, <2>1, <2>2, ListingTags DEF Others
      <3> QED BY <2>1, <3>1 DEF Spared
    <2>3. CASE s = u
      <3>1. CASE untagged'[s] = Ids \ tagged /\ (kind[s] = "teardown" => list'[s] = <<>>)
        BY <2>1, <3>1
      <3>2. CASE FetchPage(s) /\ untagged'[s] = untagged[s]
        <4>1. kind[s] = "teardown" => \A i \in DOMAIN list'[s] :
                 (i \in DOMAIN list[s] /\ list'[s][i] = list[s][i]) \/ list'[s][i] \in PageOf(s) \cap tagged
          BY <3>2, FoundItems
        <4> QED BY <2>1, <3>2, <4>1 DEF Spared
      <3>3. CASE list' = list /\ untagged'[s] = untagged[s]
        BY <2>1, <3>3 DEF Spared
      <3> QED BY <1>1, <2>3, <3>1, <3>2, <3>3, ListingTags
    <2> QED BY <2>2, <2>3
  <1>2. ASSUME ~\E u \in Scripts : Listing(u), NEW s \in Scripts
        PROVE  /\ untagged'[s] \cap tagged' = {}
               /\ kind[s] = "teardown" => \A i \in DOMAIN list'[s] : list'[s][i] \notin untagged'[s]
    <2>1. KeepsTags(s) /\ list' = list
      BY <1>2, TagSteps
    <2> QED BY <2>1 DEF KeepsTags, Spared
  <1> QED BY <1>0, <1>1, <1>2 DEF Spared, kind

\* A page lists what it must, and the cursor does not pass what it has not.
LEMMA CoveredPage ==
  ASSUME TypeOK, Control, NEW s \in Scripts, FetchPage(s), kind[s] = "teardown",
         stayed[s] \subseteq Found, \A p \in stayed[s] : p > cursor[s] \/ p \in Listed(s)
  PROVE  /\ pc'[s] = "list" => \A p \in stayed[s] : p > cursor'[s] \/ p \in Listed(s)'
         /\ pc'[s] \in {"work", "done"} => stayed[s] \subseteq Listed(s)'
  <1>0. ShopTypes /\ RunTypes
    BY TypeParts
  <1>1. \A p \in stayed[s] : p \in Nat
    BY <1>0, SizeAssumption DEF ShopTypes, Ids
  <1>2. \A p \in stayed[s] : p > cursor[s] => p \in After(s) /\ p \in tagged
    BY DEF Found, After
  <1>3. \A p \in Listed(s) : p \in Listed(s)'
    <2>1. \A i \in DOMAIN list[s] : i \in DOMAIN list'[s] /\ list'[s][i] = list[s][i]
      BY FoundItems
    <2> QED BY <2>1 DEF Listed
  <1>4. \A p \in PageOf(s) \cap tagged : p \in Listed(s)'
    <2>1. \A p \in PageOf(s) \cap tagged : \E i \in DOMAIN list'[s] : list'[s][i] = p
      BY FoundItems
    <2> QED BY <2>1 DEF Listed
  <1>5. CASE PageOf(s) = After(s) /\ pc'[s] # "list"
    BY <1>2, <1>3, <1>4, <1>5
  <1>6. CASE pc'[s] = "list" /\ cursor'[s] = cursor[s]
    BY <1>3, <1>6
  <1>7. CASE pc'[s] = "list" /\ cursor'[s] \in PageOf(s) /\ \A q \in PageOf(s) : q <= cursor'[s]
    <2>1. ASSUME NEW p \in stayed[s], ~(p > cursor'[s]), p > cursor[s]
          PROVE  p \in Listed(s)'
      <3>1. cursor'[s] \in Nat
        <4>1. cursor'[s] \in live
          BY <1>7 DEF PageOf, After
        <4>2. live \subseteq Ids /\ Ids \subseteq Nat
          BY <1>0, SizeAssumption DEF ShopTypes, Ids
        <4> QED BY <4>1, <4>2
      <3>2. p <= cursor'[s]
        BY <1>1, <2>1, <3>1
      <3>3. p \in After(s) /\ p \in tagged
        BY <1>2, <2>1
      <3>4. p \in PageOf(s)
        BY <1>7, <3>2, <3>3, PageBelow
      <3> QED BY <1>4, <3>3, <3>4
    <2> QED BY <1>3, <1>7, <2>1
  <1>8. CASE pc'[s] \notin {"list", "work", "done"}
    BY <1>8
  <1> QED BY <1>5, <1>6, <1>7, <1>8, TurnSteps

LEMMA CoveredStep ==
  ASSUME TypeOK, Control, Covered, [Next]_vars
  PROVE  Covered'
  <1>0. scene' = scene
    BY RunFrame
  <1> DEFINE Goal(s) ==
        /\ stayed'[s] \subseteq Found'
        /\ kind[s] = "teardown" /\ pc'[s] = "list" => \A p \in stayed'[s] : p > cursor'[s] \/ p \in Listed(s)'
        /\ kind[s] = "teardown" /\ pc'[s] \in {"work", "done"} => stayed'[s] \subseteq Listed(s)'
  <1>1. ASSUME NEW u \in Scripts, Listing(u), NEW s \in Scripts
        PROVE  Goal(s)
    <2>1. /\ Others(u) /\ Waiting(u) /\ UNCHANGED <<live, tagged, indexed>>
          /\ \A v \in Scripts \ {u} : cursor'[v] = cursor[v]
      BY <1>1, ListingSteps
    <2>2. Found' = Found
      BY <2>1 DEF Found
    <2>3. CASE s # u
      <3>1. stayed'[s] = stayed[s] /\ list'[s] = list[s] /\ pc'[s] = pc[s] /\ cursor'[s] = cursor[s]
        BY <1>1, <2>1, <2>3, ListingTags DEF Others
      <3> QED BY <2>2, <3>1 DEF Covered, Listed
    <2>4. CASE s = u
      <3>1. CASE /\ stayed'[s] = Found /\ cursor'[s] = 0
                 /\ kind[s] = "teardown" => pc'[s] \in {"list", "failed"}
        <4>1. \A p \in Found : p > 0
          BY SizeAssumption DEF TypeOK, Found, Ids
        <4> QED BY <2>2, <3>1, <4>1
      <3>2. CASE FetchPage(s) /\ stayed'[s] = stayed[s]
        <4>1. pc[s] = "list"
          BY <3>2, Zenon DEF FetchPage
        <4>2. stayed[s] \subseteq Found
          BY DEF Covered
        <4>3. kind[s] = "teardown" => \A p \in stayed[s] : p > cursor[s] \/ p \in Listed(s)
          BY <4>1 DEF Covered
        <4>4. kind[s] = "teardown" =>
                /\ pc'[s] = "list" => \A p \in stayed[s] : p > cursor'[s] \/ p \in Listed(s)'
                /\ pc'[s] \in {"work", "done"} => stayed[s] \subseteq Listed(s)'
          BY <3>2, <4>2, <4>3, CoveredPage
        <4> QED BY <2>2, <3>2, <4>2, <4>4
      <3>3. CASE pc'[s] = "failed" /\ stayed'[s] = stayed[s]
        BY <2>2, <3>3 DEF Covered
      <3> QED BY <1>1, <2>4, <3>1, <3>2, <3>3, ListingTags
    <2> QED BY <2>3, <2>4
  <1>2. ASSUME ~\E u \in Scripts : Listing(u), NEW s \in Scripts
        PROVE  Goal(s)
    <2>1. /\ KeepsTags(s) /\ list' = list /\ cursor' = cursor
          /\ pc'[s] \in {pc[s], "killed"} \/ (pc[s] = "work" /\ pc'[s] = "done")
      BY <1>2, TagSteps
    <2> QED BY <2>1 DEF KeepsTags, Covered, Listed
  <1> QED BY <1>0, <1>1, <1>2 DEF Covered, kind

LEMMA SparedInit == Init => Spared
  <1> SUFFICES ASSUME Init PROVE Spared
    OBVIOUS
  <1>1. \A s \in Scripts : untagged[s] = {} /\ list[s] = <<>>
    BY DEF Init
  <1> QED BY <1>1 DEF Spared

LEMMA CoveredInit == Init => Covered
  <1> SUFFICES ASSUME Init PROVE Covered
    OBVIOUS
  <1>1. \A s \in Scripts : stayed[s] = {} /\ pc[s] = "scopes"
    BY DEF Init
  <1> QED BY <1>1 DEF Covered

\* "Seeded test data is not affected": a teardown lists, and so deletes, no
\* product that has been without the tag ever since the run began, however
\* far behind the search index is.
THEOREM UntaggedAlwaysSpared == Spec => []SparesUntagged
  <1>1. TypeOK /\ Control /\ Spared /\ [Next]_vars => Spared'
    BY SparedStep
  <1>2. Spared => SparesUntagged
    BY DEF Spared, SparesUntagged
  <1> QED BY <1>1, <1>2, SparedInit, ControlHolds, PTL DEF Spec

\* Pages are taken after a product, so that products which come and go
\* between two of them make a teardown miss none that stayed.
THEOREM AlwaysListedWhatStayed == Spec => []ListedWhatStayed
  <1>1. TypeOK /\ Control /\ Covered /\ [Next]_vars => Covered'
    BY CoveredStep
  <1>2. Covered => ListedWhatStayed
    BY DEF Covered, Listed, ListedWhatStayed
  <1> QED BY <1>1, <1>2, CoveredInit, ControlHolds, PTL DEF Spec
=============================================================================
