---------------------------- MODULE CatalogProofs ----------------------------
(***************************************************************************)
(* Theorems about Catalog: types, the handler's guard, the marking of      *)
(* deleted rows, the healing of the rows by a run that gets to its end,    *)
(* and that the handlers and the runs implement the mirror.                *)
(*                                                                         *)
(* The first lemmas say which actions can change which variables, so that  *)
(* each invariant is only checked against the steps that can disturb it.   *)
(***************************************************************************)
EXTENDS Catalog, TLAPS

\* Only the shop changes the shop.
LEMMA ShopFrame ==
  ASSUME [Next]_vars
  PROVE  \/ UNCHANGED shopVars
         \/ \E p \in Products : Create(p)
         \/ \E p \in Products : Edit(p)
         \/ \E p \in Products : Delete(p)
<1>1. ASSUME NEW p \in Products, Shop(p) PROVE UNCHANGED shopVars \/ Create(p) \/ Edit(p) \/ Delete(p)
  BY <1>1 DEF Shop
<1>2. ASSUME OpEnds PROVE UNCHANGED shopVars
  BY <1>2, Zenon DEF OpEnds, shopVars, dbVars, execVars, syncVars
<1>3. ASSUME NEW s \in Slots, Handler(s) PROVE UNCHANGED shopVars
  BY <1>3, Zenon DEF Handler, Advance, Start, ReadProduct, RecordNoop, TakeStamp, UpdateRow, Commit,
      Abandon, shopVars, dbVars, execVars, syncVars
<1>4. ASSUME NEW r \in Runs, Sync(r) PROVE UNCHANGED shopVars
  BY <1>4, Zenon DEF Sync, Proceed, Write, Begin, CheckCurrent, CancelOp, SubmitOp, PollOp,
      PollTimesOut, ReadSnapshot, FlushProducts, FlushVariants, JudgeProducts, JudgeVariants,
      Finish, RunStops, shopVars, dbVars, execVars, syncVars
<1>5. CASE UNCHANGED vars
  BY <1>5, Zenon DEF vars, shopVars, dbVars, execVars, syncVars
<1> QED
  BY <1>1, <1>2, <1>3, <1>4, <1>5, Zenon DEF Next

\* Only Shopify, a cancel and a submit change the bulk operation.
LEMMA OpFrame ==
  ASSUME [Next]_vars
  PROVE  \/ UNCHANGED op
         \/ OpEnds
         \/ \E r \in Runs : CancelOp(r)
         \/ \E r \in Runs : SubmitOp(r)
<1>1. ASSUME NEW p \in Products, Shop(p) PROVE UNCHANGED op
  BY <1>1, Zenon DEF Shop, Create, Edit, Delete, shopVars, dbVars, execVars, syncVars
<1>2. ASSUME NEW s \in Slots, Handler(s) PROVE UNCHANGED op
  BY <1>2, Zenon DEF Handler, Advance, Start, ReadProduct, RecordNoop, TakeStamp, UpdateRow, Commit,
      Abandon, shopVars, dbVars, execVars, syncVars
<1>3. ASSUME NEW r \in Runs, Sync(r) PROVE UNCHANGED op \/ CancelOp(r) \/ SubmitOp(r)
  BY <1>3, Zenon DEF Sync, Proceed, Write, Begin, CheckCurrent, PollOp, PollTimesOut,
      ReadSnapshot, FlushProducts, FlushVariants, JudgeProducts, JudgeVariants, Finish,
      RunStops, shopVars, dbVars, execVars, syncVars
<1>4. CASE UNCHANGED vars
  BY <1>4, Zenon DEF vars, shopVars, dbVars, execVars, syncVars
<1> QED
  BY <1>1, <1>2, <1>3, <1>4, Zenon DEF Next

\* Only a commit, a batch and a judgement change products' rows.
LEMMA RowFrame ==
  ASSUME [Next]_vars
  PROVE  \/ UNCHANGED row
         \/ \E s \in Slots : Commit(s)
         \/ \E r \in Runs : \E B \in Batches(r) : FlushProducts(r, B)
         \/ \E r \in Runs : JudgeProducts(r)
<1>1. ASSUME NEW p \in Products, Shop(p) PROVE UNCHANGED row
  BY <1>1, Zenon DEF Shop, Create, Edit, Delete, shopVars, dbVars, execVars, syncVars
<1>2. ASSUME OpEnds PROVE UNCHANGED row
  BY <1>2, Zenon DEF OpEnds, shopVars, dbVars, execVars, syncVars
<1>3. ASSUME NEW s \in Slots, Handler(s) PROVE UNCHANGED row \/ Commit(s)
  BY <1>3, Zenon DEF Handler, Advance, Start, ReadProduct, RecordNoop, TakeStamp, UpdateRow, Abandon,
      shopVars, dbVars, execVars, syncVars
<1>4. ASSUME NEW r \in Runs, Sync(r)
      PROVE  UNCHANGED row \/ (\E B \in Batches(r) : FlushProducts(r, B)) \/ JudgeProducts(r)
  BY <1>4, Zenon DEF Sync, Proceed, Write, Begin, CheckCurrent, CancelOp, SubmitOp, PollOp,
      PollTimesOut, ReadSnapshot, FlushVariants, JudgeVariants, Finish, RunStops, shopVars,
      dbVars, execVars, syncVars
<1>5. CASE UNCHANGED vars
  BY <1>5, Zenon DEF vars, shopVars, dbVars, execVars, syncVars
<1> QED
  BY <1>1, <1>2, <1>3, <1>4, <1>5, Zenon DEF Next

\* Only a batch and a judgement change variants' rows.
LEMMA KidFrame ==
  ASSUME [Next]_vars
  PROVE  \/ UNCHANGED kid
         \/ \E r \in Runs : FlushVariants(r)
         \/ \E r \in Runs : JudgeVariants(r)
<1>1. ASSUME NEW p \in Products, Shop(p) PROVE UNCHANGED kid
  BY <1>1, Zenon DEF Shop, Create, Edit, Delete, shopVars, dbVars, execVars, syncVars
<1>2. ASSUME OpEnds PROVE UNCHANGED kid
  BY <1>2, Zenon DEF OpEnds, shopVars, dbVars, execVars, syncVars
<1>3. ASSUME NEW s \in Slots, Handler(s) PROVE UNCHANGED kid
  BY <1>3, Zenon DEF Handler, Advance, Start, ReadProduct, RecordNoop, TakeStamp, UpdateRow, Commit,
      Abandon, shopVars, dbVars, execVars, syncVars
<1>4. ASSUME NEW r \in Runs, Sync(r) PROVE UNCHANGED kid \/ FlushVariants(r) \/ JudgeVariants(r)
  BY <1>4, Zenon DEF Sync, Proceed, Write, Begin, CheckCurrent, CancelOp, SubmitOp, PollOp,
      PollTimesOut, ReadSnapshot, FlushProducts, JudgeProducts, Finish, RunStops, shopVars,
      dbVars, execVars, syncVars
<1>5. CASE UNCHANGED vars
  BY <1>5, Zenon DEF vars, shopVars, dbVars, execVars, syncVars
<1> QED
  BY <1>1, <1>2, <1>3, <1>4, <1>5, Zenon DEF Next

\* Only a commit and a batch change which rows were written late.
LEMMA LateFrame ==
  ASSUME [Next]_vars
  PROVE  \/ UNCHANGED late
         \/ \E s \in Slots : Commit(s)
         \/ \E r \in Runs : \E B \in Batches(r) : FlushProducts(r, B)
<1>1. ASSUME NEW p \in Products, Shop(p) PROVE UNCHANGED late
  BY <1>1, Zenon DEF Shop, Create, Edit, Delete, shopVars, dbVars, execVars, syncVars
<1>2. ASSUME OpEnds PROVE UNCHANGED late
  BY <1>2, Zenon DEF OpEnds, shopVars, dbVars, execVars, syncVars
<1>3. ASSUME NEW s \in Slots, Handler(s) PROVE UNCHANGED late \/ Commit(s)
  BY <1>3, Zenon DEF Handler, Advance, Start, ReadProduct, RecordNoop, TakeStamp, UpdateRow,
      Abandon, shopVars, dbVars, execVars, syncVars
<1>4. ASSUME NEW r \in Runs, Sync(r)
      PROVE  UNCHANGED late \/ \E B \in Batches(r) : FlushProducts(r, B)
  BY <1>4, Zenon DEF Sync, Proceed, Write, Begin, CheckCurrent, CancelOp, SubmitOp, PollOp,
      PollTimesOut, ReadSnapshot, FlushVariants, JudgeProducts, JudgeVariants, Finish, RunStops,
      shopVars, dbVars, execVars, syncVars
<1>5. CASE UNCHANGED vars
  BY <1>5, Zenon DEF vars, shopVars, dbVars, execVars, syncVars
<1> QED
  BY <1>1, <1>2, <1>3, <1>4, <1>5, Zenon DEF Next

\* Only the handler changes its executions.
LEMMA ExecFrame ==
  ASSUME [Next]_vars
  PROVE  \/ UNCHANGED execVars
         \/ \E s \in Slots : \E w \in Changes : Start(s, w)
         \/ \E s \in Slots : ReadProduct(s)
         \/ \E s \in Slots : RecordNoop(s)
         \/ \E s \in Slots : TakeStamp(s)
         \/ \E s \in Slots : UpdateRow(s)
         \/ \E s \in Slots : Commit(s)
         \/ \E s \in Slots : Abandon(s)
<1>1. ASSUME NEW p \in Products, Shop(p) PROVE UNCHANGED execVars
  BY <1>1, Zenon DEF Shop, Create, Edit, Delete, shopVars, dbVars, execVars, syncVars
<1>2. ASSUME OpEnds PROVE UNCHANGED execVars
  BY <1>2, Zenon DEF OpEnds, shopVars, dbVars, execVars, syncVars
<1>3. ASSUME NEW s \in Slots, Handler(s)
      PROVE  UNCHANGED execVars \/ (\E w \in Changes : Start(s, w)) \/ ReadProduct(s)
             \/ RecordNoop(s) \/ TakeStamp(s) \/ UpdateRow(s) \/ Commit(s) \/ Abandon(s)
  BY <1>3 DEF Handler, Advance
<1>4. ASSUME NEW r \in Runs, Sync(r) PROVE UNCHANGED execVars
  BY <1>4, Zenon DEF Sync, Proceed, Write, Begin, CheckCurrent, CancelOp, SubmitOp, PollOp,
      PollTimesOut, ReadSnapshot, FlushProducts, FlushVariants, JudgeProducts, JudgeVariants,
      Finish, RunStops, shopVars, dbVars, execVars, syncVars
<1>5. CASE UNCHANGED vars
  BY <1>5, Zenon DEF vars, shopVars, dbVars, execVars, syncVars
<1> QED
  BY <1>1, <1>2, <1>3, <1>4, <1>5, Zenon DEF Next

\* Only a handler's last write records an event or a notification.
LEMMA BookFrame ==
  ASSUME [Next]_vars
  PROVE  \/ UNCHANGED <<processed, notified>>
         \/ \E s \in Slots : RecordNoop(s)
         \/ \E s \in Slots : Commit(s)
<1>1. ASSUME NEW p \in Products, Shop(p) PROVE UNCHANGED <<processed, notified>>
  BY <1>1, Zenon DEF Shop, Create, Edit, Delete, shopVars, dbVars, execVars, syncVars
<1>2. ASSUME OpEnds PROVE UNCHANGED <<processed, notified>>
  BY <1>2, Zenon DEF OpEnds, shopVars, dbVars, execVars, syncVars
<1>3. ASSUME NEW s \in Slots, Handler(s)
      PROVE  UNCHANGED <<processed, notified>> \/ RecordNoop(s) \/ Commit(s)
  BY <1>3, Zenon DEF Handler, Advance, Start, ReadProduct, TakeStamp, UpdateRow, Abandon, shopVars, dbVars,
      execVars, syncVars
<1>4. ASSUME NEW r \in Runs, Sync(r) PROVE UNCHANGED <<processed, notified>>
  BY <1>4, Zenon DEF Sync, Proceed, Write, Begin, CheckCurrent, CancelOp, SubmitOp, PollOp,
      PollTimesOut, ReadSnapshot, FlushProducts, FlushVariants, JudgeProducts, JudgeVariants,
      Finish, RunStops, shopVars, dbVars, execVars, syncVars
<1>5. CASE UNCHANGED vars
  BY <1>5, Zenon DEF vars, shopVars, dbVars, execVars, syncVars
<1> QED
  BY <1>1, <1>2, <1>3, <1>4, <1>5, Zenon DEF Next

\* Only a run changes the runs; a commit adds to what was touched.
LEMMA SyncFrame ==
  ASSUME [Next]_vars
  PROVE  \/ UNCHANGED syncVars
         \/ \E r \in Runs : Begin(r)
         \/ \E r \in Runs : CheckCurrent(r)
         \/ \E r \in Runs : CancelOp(r)
         \/ \E r \in Runs : SubmitOp(r)
         \/ \E r \in Runs : PollOp(r)
         \/ \E r \in Runs : PollTimesOut(r)
         \/ \E r \in Runs : ReadSnapshot(r)
         \/ \E r \in Runs : \E B \in Batches(r) : FlushProducts(r, B)
         \/ \E r \in Runs : FlushVariants(r)
         \/ \E r \in Runs : JudgeProducts(r)
         \/ \E r \in Runs : JudgeVariants(r)
         \/ \E r \in Runs : Finish(r)
         \/ \E r \in Runs : RunStops(r)
         \/ \E s \in Slots : Commit(s)
<1>1. ASSUME NEW p \in Products, Shop(p) PROVE UNCHANGED syncVars
  BY <1>1, Zenon DEF Shop, Create, Edit, Delete, shopVars, dbVars, execVars, syncVars
<1>2. ASSUME OpEnds PROVE UNCHANGED syncVars
  BY <1>2, Zenon DEF OpEnds, shopVars, dbVars, execVars, syncVars
<1>3. ASSUME NEW s \in Slots, Handler(s) PROVE UNCHANGED syncVars \/ Commit(s)
  BY <1>3, Zenon DEF Handler, Advance, Start, ReadProduct, RecordNoop, TakeStamp, UpdateRow, Abandon,
      shopVars, dbVars, execVars, syncVars
<1>4. ASSUME NEW r \in Runs, Sync(r)
      PROVE  UNCHANGED syncVars \/ Begin(r) \/ CheckCurrent(r) \/ CancelOp(r) \/ SubmitOp(r)
             \/ PollOp(r) \/ PollTimesOut(r) \/ ReadSnapshot(r)
             \/ (\E B \in Batches(r) : FlushProducts(r, B)) \/ FlushVariants(r)
             \/ JudgeProducts(r) \/ JudgeVariants(r) \/ Finish(r) \/ RunStops(r)
  BY <1>4 DEF Sync, Proceed, Write
<1>5. CASE UNCHANGED vars
  BY <1>5, Zenon DEF vars, shopVars, dbVars, execVars, syncVars
<1> QED
  BY <1>1, <1>2, <1>3, <1>4, <1>5, Zenon DEF Next

\* The shop keeps its types.
LEMMA ShopTyped ==
  ASSUME ShopOK, [Next]_vars
  PROVE  ShopOK'
<1> USE ParentAssumption, LimitsAssumption DEF Changes
<1>1. ASSUME NEW p \in Products, Create(p) PROVE ShopOK'
  BY <1>1 DEF ShopOK, Create, Change, KidsOf
<1>2. ASSUME NEW p \in Products, Edit(p) PROVE ShopOK'
  BY <1>2 DEF ShopOK, Edit, Change, KidsOf
<1>3. ASSUME NEW p \in Products, Delete(p) PROVE ShopOK'
  BY <1>3 DEF ShopOK, Delete, Change, KidsOf
<1>4. CASE UNCHANGED shopVars
  BY <1>4 DEF ShopOK, shopVars, KidsOf
<1> QED
  BY <1>1, <1>2, <1>3, <1>4, ShopFrame

\* Changes are never undone.
LEMMA Monotone ==
  ASSUME ShopOK, [Next]_vars
  PROVE  /\ changes \in Nat /\ changes <= changes' /\ changes' \in 0 .. MaxChanges
         /\ \A c \in Changes : c <= changes => subject'[c] = subject[c]
         /\ \A p \in Products : version[p] # 0 => version'[p] # 0
<1> USE ParentAssumption, LimitsAssumption DEF Changes
<1>1. CASE \E p \in Products : Create(p)
  BY <1>1 DEF ShopOK, Create, Change
<1>2. CASE \E p \in Products : Edit(p)
  BY <1>2 DEF ShopOK, Edit, Change
<1>3. CASE \E p \in Products : Delete(p)
  BY <1>3 DEF ShopOK, Delete, Change
<1>4. CASE UNCHANGED shopVars
  BY <1>4 DEF ShopOK, shopVars
<1> QED
  BY <1>1, <1>2, <1>3, <1>4, ShopFrame

\* The bulk operation keeps its type.
LEMMA OpTyped ==
  ASSUME TypeOK, [Next]_vars
  PROVE  op' \in Operations
<1>1. CASE OpEnds
  <2>1. ShopFeed \in Feeds
    BY LimitsAssumption DEF ShopFeed, Feeds, TypeOK, ShopOK
  <2>2. offered \in SUBSET Variants
    BY DEF TypeOK, ShopOK, KidsOf
  <2> QED
    BY <1>1, <2>1, <2>2 DEF OpEnds, Operations, OpStatuses, TypeOK
<1>2. CASE \E r \in Runs : CancelOp(r)
  BY <1>2 DEF CancelOp, Operations, OpStatuses, TypeOK
<1>3. CASE \E r \in Runs : SubmitOp(r)
  BY <1>3 DEF SubmitOp, Operations, OpStatuses, NoFeed, Feeds, TypeOK
<1> QED
  BY <1>1, <1>2, <1>3, OpFrame DEF TypeOK

\* A busy execution's webhook is a change that happened, about a product.
LEMMA HookFacts ==
  ASSUME ShopOK, ExecsOK, NEW s \in Slots, pc[s] # "idle"
  PROVE  /\ hook[s] \in Changes /\ hook[s] <= changes /\ subject[hook[s]] \in Products
  BY LimitsAssumption DEF ShopOK, ExecsOK, Changes

\* The executions keep their types.
LEMMA ExecsTyped ==
  ASSUME TypeOK, [Next]_vars
  PROVE  ExecsOK'
<1> USE Monotone, LimitsAssumption DEF TypeOK
<1>1. CASE \E s \in Slots : \E w \in Changes : Start(s, w)
  BY <1>1 DEF ExecsOK, Start, At, Goto, Leave, Locations, Changes
<1>2. CASE \E s \in Slots : ReadProduct(s)
  BY <1>2 DEF ExecsOK, ReadProduct, At, Goto, Leave, Locations
<1>3. CASE \E s \in Slots : RecordNoop(s)
  BY <1>3 DEF ExecsOK, RecordNoop, At, Goto, Leave, Locations
<1>4. CASE \E s \in Slots : UpdateRow(s)
  BY <1>4 DEF ExecsOK, UpdateRow, At, Goto, Leave, Locations
<1>8. CASE \E s \in Slots : TakeStamp(s)
  BY <1>8 DEF ExecsOK, TakeStamp, At, Goto, Leave, Locations, RunsOK
<1>5. CASE \E s \in Slots : Commit(s)
  BY <1>5 DEF ExecsOK, Commit, At, Goto, Leave, Locations
<1>6. CASE \E s \in Slots : Abandon(s)
  BY <1>6 DEF ExecsOK, Abandon, At, Goto, Leave, Locations
<1>7. CASE UNCHANGED execVars
  BY <1>7 DEF ExecsOK, execVars
<1> QED
  BY <1>1, <1>2, <1>3, <1>4, <1>5, <1>6, <1>7, <1>8, ExecFrame

\* The rows keep their types.
LEMMA RowsTyped ==
  ASSUME TypeOK, [Next]_vars
  PROVE  RowsOK'
<1>1. row' \in [Products -> ProductRows]
  <2>1. ASSUME NEW s \in Slots, Commit(s) PROVE row' \in [Products -> ProductRows]
    <3>1. [state |-> "live", version |-> hook[s], seen |-> stamp[s]] \in ProductRows
      BY DEF TypeOK, ExecsOK, ProductRows, RowStates
    <3> QED
      BY <2>1, <3>1 DEF Commit, TypeOK, RowsOK
  <2>2. ASSUME NEW r \in Runs, NEW B \in Batches(r), FlushProducts(r, B)
        PROVE  row' \in [Products -> ProductRows]
    BY <2>2 DEF FlushProducts, TypeOK, RowsOK, RunsOK, RunRecords, Feeds, ProductRows,
        RowStates, Runs
  <2>3. ASSUME NEW r \in Runs, JudgeProducts(r) PROVE row' \in [Products -> ProductRows]
    BY <2>3 DEF JudgeProducts, TypeOK, RowsOK, ProductRows, RowStates
  <2> QED
    BY <2>1, <2>2, <2>3, RowFrame DEF TypeOK, RowsOK
<1>2. kid' \in [Variants -> VariantRows]
  <2>1. ASSUME NEW r \in Runs, FlushVariants(r) PROVE kid' \in [Variants -> VariantRows]
    BY <2>1 DEF FlushVariants, TypeOK, RowsOK, VariantRows, RowStates, Runs
  <2>2. ASSUME NEW r \in Runs, JudgeVariants(r) PROVE kid' \in [Variants -> VariantRows]
    BY <2>2 DEF JudgeVariants, TypeOK, RowsOK, VariantRows, RowStates
  <2> QED
    BY <2>1, <2>2, KidFrame DEF TypeOK, RowsOK
<1>3. processed' \subseteq Changes /\ notified' \in [Changes -> Nat]
  <2>1. ASSUME NEW s \in Slots, RecordNoop(s) PROVE /\ processed' \subseteq Changes
                                                          /\ notified' \in [Changes -> Nat]
    BY <2>1, HookFacts DEF RecordNoop, At, TypeOK, RowsOK
  <2>2. ASSUME NEW s \in Slots, Commit(s) PROVE /\ processed' \subseteq Changes
                                                          /\ notified' \in [Changes -> Nat]
    BY <2>2, HookFacts DEF Commit, At, TypeOK, RowsOK
  <2> QED
    BY <2>1, <2>2, BookFrame DEF TypeOK, RowsOK
<1>4. late' \subseteq Products
  <2>1. ASSUME NEW s \in Slots, Commit(s) PROVE late' \subseteq Products
    BY <2>1, HookFacts DEF Commit, At, TypeOK, RowsOK
  <2>2. ASSUME NEW r \in Runs, NEW B \in Batches(r), FlushProducts(r, B) PROVE late' \subseteq Products
    BY <2>2 DEF FlushProducts, TypeOK, RowsOK
  <2> QED
    BY <2>1, <2>2, LateFrame DEF TypeOK, RowsOK
<1> QED
  BY <1>1, <1>2, <1>3, <1>4 DEF RowsOK

-----------------------------------------------------------------------------
(* What a step of a run makes of its record.                               *)

\* Giving a run a new record leaves the others theirs.
LEMMA Becoming ==
  ASSUME run \in [Runs -> RunRecords], NEW r \in Runs, NEW w \in RunRecords, Become(r, w)
  PROVE  /\ run' \in [Runs -> RunRecords] /\ run'[r] = w
         /\ \A q \in Runs : q # r => run'[q] = run[q]
  BY DEF Become

\* A run that moves to another place keeps the rest of its record.
LEMMA Going ==
  ASSUME run \in [Runs -> RunRecords], NEW r \in Runs, NEW l \in RunPlaces, RunGoto(r, l)
  PROVE  /\ run' \in [Runs -> RunRecords] /\ run'[r].pc = l
         /\ run'[r].op = run[r].op /\ run'[r].feed = run[r].feed /\ run'[r].kids = run[r].kids
         /\ run'[r].todo = run[r].todo /\ run'[r].batch = run[r].batch
         /\ \A q \in Runs : q # r => run'[q] = run[q]
<1> DEFINE w == [run[r] EXCEPT !.pc = l]
<1>1. /\ w \in RunRecords /\ w.pc = l /\ w.op = run[r].op /\ w.feed = run[r].feed
      /\ w.kids = run[r].kids /\ w.todo = run[r].todo /\ w.batch = run[r].batch
  BY DEF RunRecords
<1>2. Become(r, w)
  BY DEF RunGoto
<1> QED
  BY <1>1, <1>2, Becoming

\* A run that ends holds nothing.
LEMMA Ending ==
  ASSUME run \in [Runs -> RunRecords], NEW r \in Runs, NEW l \in Ended, End(r, l)
  PROVE  /\ run' \in [Runs -> RunRecords] /\ run'[r].pc = l /\ run'[r].feed = NoFeed
         /\ run'[r].kids = {} /\ run'[r].todo = {} /\ run'[r].batch = {}
         /\ \A q \in Runs : q # r => run'[q] = run[q]
<1> DEFINE w == [NoWork EXCEPT !.pc = l]
<1>1. /\ w \in RunRecords /\ w.pc = l /\ w.feed = NoFeed
      /\ w.kids = {} /\ w.todo = {} /\ w.batch = {}
  BY DEF RunRecords, NoWork, NoFeed, Feeds, RunPlaces
<1>2. Become(r, w)
  BY DEF End
<1> QED
  BY <1>1, <1>2, Becoming

\* The other records a step gives a run.
LEMMA Working ==
  ASSUME NEW w \in RunRecords
  PROVE  /\ \A n \in Nat : [w EXCEPT !.pc = "cancel", !.op = n] \in RunRecords
         /\ [w EXCEPT !.pc = "submit", !.op = 0] \in RunRecords
         /\ \A f \in Feeds, K \in SUBSET Variants :
              [w EXCEPT !.pc = "snapshot", !.feed = f, !.kids = K] \in RunRecords
         /\ [w EXCEPT !.pc = "write", !.todo = InFeed(w.feed)] \in RunRecords
         /\ \A B \in SUBSET w.todo :
              [w EXCEPT !.pc = "variants", !.todo = @ \ B, !.batch = B] \in RunRecords
         /\ [w EXCEPT !.pc = "write", !.batch = {}] \in RunRecords
<1>1. /\ w.todo \subseteq Products /\ InFeed(w.feed) \subseteq Products
      /\ {"cancel", "submit", "snapshot", "write", "variants"} \subseteq RunPlaces
  BY DEF RunRecords, InFeed, RunPlaces
<1> QED
  BY <1>1 DEF RunRecords

\* The runs keep their types when one that is under way goes on or ends.
LEMMA RunsKept ==
  ASSUME RunsOK, NEW r \in Runs, run[r].pc # "waiting",
         run' \in [Runs -> RunRecords], run'[r].pc # "waiting",
         \A q \in Runs : q # r => run'[q] = run[q],
         started' = started, touched' \in [Runs -> SUBSET Products]
  PROVE  RunsOK'
<1>1. \A q \in Runs : q <= started' <=> run'[q].pc # "waiting"
  BY DEF RunsOK
<1> QED
  BY <1>1 DEF RunsOK

\* The runs keep their types.
LEMMA RunsTyped ==
  ASSUME TypeOK, [Next]_vars
  PROVE  RunsOK'
<1> USE DEF TypeOK
<1>0. /\ \A r \in Runs : run[r] \in RunRecords
      /\ touched \in [Runs -> SUBSET Products]
      /\ \A r \in Runs : [touched EXCEPT ![r] = {}] \in [Runs -> SUBSET Products]
      /\ run \in [Runs -> RunRecords] /\ RunsOK
  BY DEF RunsOK
<1>a. ASSUME NEW r \in Runs, NEW l \in Ended, run[r].pc # "waiting", End(r, l), started' = started
      PROVE  RunsOK'
  <2>1. /\ run' \in [Runs -> RunRecords] /\ run'[r].pc = l
        /\ \A q \in Runs : q # r => run'[q] = run[q]
    BY <1>0, <1>a, Ending
  <2>2. touched' \in [Runs -> SUBSET Products]
    BY <1>0, <1>a DEF End
  <2> QED
    BY <1>0, <1>a, <2>1, <2>2, RunsKept DEF Ended
<1>1. ASSUME NEW r \in Runs, Begin(r) PROVE RunsOK'
  <2>1. /\ run' \in [Runs -> RunRecords] /\ run'[r].pc = "check"
        /\ \A q \in Runs : q # r => run'[q] = run[q]
    BY <1>0, <1>1, Going DEF Begin, RunPlaces
  <2>2. started' \in 0 .. MaxRuns /\ started' = r /\ r = started + 1 /\ started \in Nat
    BY <1>1, LimitsAssumption DEF Begin, RunsOK, Runs
  <2>3. \A q \in Runs : q <= started' <=> run'[q].pc # "waiting"
    BY <2>1, <2>2 DEF RunsOK, Runs
  <2> QED
    BY <1>0, <1>1, <2>1, <2>2, <2>3 DEF RunsOK, Begin
<1>2. ASSUME NEW r \in Runs, CheckCurrent(r) PROVE RunsOK'
  <2>1. op.id \in Nat
    BY DEF Operations
  <2>2. CASE op.status = "RUNNING"
    <3>1. [run[r] EXCEPT !.pc = "cancel", !.op = op.id] \in RunRecords
      BY <1>0, <2>1, Working
    <3>2. [run[r] EXCEPT !.pc = "cancel", !.op = op.id].pc = "cancel"
      BY <1>0 DEF RunRecords
    <3> QED
      BY <1>0, <1>2, <2>2, <3>1, <3>2, Becoming, RunsKept DEF CheckCurrent, RunAt
  <2>3. CASE op.status # "RUNNING"
    BY <1>0, <1>2, <2>3, RunsKept, Going DEF CheckCurrent, RunAt, RunPlaces
  <2> QED
    BY <2>2, <2>3
<1>3. ASSUME NEW r \in Runs, CancelOp(r) PROVE RunsOK'
  <2>1. [run[r] EXCEPT !.pc = "submit", !.op = 0] \in RunRecords
    BY <1>0, Working
  <2>2. [run[r] EXCEPT !.pc = "submit", !.op = 0].pc = "submit"
    BY <1>0 DEF RunRecords
  <2> QED
    BY <1>0, <1>3, <2>1, <2>2, Becoming, RunsKept DEF CancelOp, RunAt
<1>4. ASSUME NEW r \in Runs, SubmitOp(r) PROVE RunsOK'
  <2>1. CASE op.status \in {"RUNNING", "CANCELING"}
    BY <1>a, <1>4, <2>1 DEF SubmitOp, RunAt, Ended
  <2>2. CASE op.status \notin {"RUNNING", "CANCELING"}
    BY <1>0, <1>4, <2>2, RunsKept, Going DEF SubmitOp, RunAt, RunPlaces
  <2> QED
    BY <2>1, <2>2
<1>5. ASSUME NEW r \in Runs, PollOp(r) PROVE RunsOK'
  <2>1. CASE op.status = "COMPLETED" /\ op.feed # NoFeed
    <3>1. op.feed \in Feeds /\ op.kids \in SUBSET Variants
      BY DEF Operations
    <3>2. [run[r] EXCEPT !.pc = "snapshot", !.feed = op.feed, !.kids = op.kids] \in RunRecords
      BY <1>0, <3>1, Working
    <3>3. [run[r] EXCEPT !.pc = "snapshot", !.feed = op.feed, !.kids = op.kids].pc = "snapshot"
      BY <1>0 DEF RunRecords
    <3> QED
      BY <1>0, <1>5, <2>1, <3>2, <3>3, Becoming, RunsKept DEF PollOp, RunAt
  <2>2. CASE ~(op.status = "COMPLETED" /\ op.feed # NoFeed)
    BY <1>a, <1>5, <2>2 DEF PollOp, RunAt, Ended
  <2> QED
    BY <2>1, <2>2
<1>6. ASSUME NEW r \in Runs, PollTimesOut(r) PROVE RunsOK'
  BY <1>a, <1>6 DEF PollTimesOut, RunAt, Ended
<1>7. ASSUME NEW r \in Runs, ReadSnapshot(r) PROVE RunsOK'
  <2>1. [run[r] EXCEPT !.pc = "write", !.todo = InFeed(run[r].feed)] \in RunRecords
    BY <1>0, Working
  <2>2. [run[r] EXCEPT !.pc = "write", !.todo = InFeed(run[r].feed)].pc = "write"
    BY <1>0 DEF RunRecords
  <2> QED
    BY <1>0, <1>7, <2>1, <2>2, Becoming, RunsKept DEF ReadSnapshot, RunAt
<1>8. ASSUME NEW r \in Runs, NEW B \in Batches(r), FlushProducts(r, B) PROVE RunsOK'
  <2>1. B \in SUBSET run[r].todo
    BY DEF Batches
  <2>2. [run[r] EXCEPT !.pc = "variants", !.todo = @ \ B, !.batch = B] \in RunRecords
    BY <1>0, <2>1, Working
  <2>3. [run[r] EXCEPT !.pc = "variants", !.todo = @ \ B, !.batch = B].pc = "variants"
    BY <1>0 DEF RunRecords
  <2>4. touched' \in [Runs -> SUBSET Products]
    BY <1>0, <1>8 DEF FlushProducts
  <2> QED
    BY <1>0, <1>8, <2>2, <2>3, <2>4, Becoming, RunsKept DEF FlushProducts, RunAt
<1>9. ASSUME NEW r \in Runs, FlushVariants(r) PROVE RunsOK'
  <2>1. [run[r] EXCEPT !.pc = "write", !.batch = {}] \in RunRecords
    BY <1>0, Working
  <2>2. [run[r] EXCEPT !.pc = "write", !.batch = {}].pc = "write"
    BY <1>0 DEF RunRecords
  <2> QED
    BY <1>0, <1>9, <2>1, <2>2, Becoming, RunsKept DEF FlushVariants, RunAt
<1>10. ASSUME NEW r \in Runs, JudgeProducts(r) PROVE RunsOK'
  BY <1>0, <1>10, RunsKept, Going DEF JudgeProducts, RunAt, RunPlaces
<1>11. ASSUME NEW r \in Runs, JudgeVariants(r) PROVE RunsOK'
  BY <1>0, <1>11, RunsKept, Going DEF JudgeVariants, RunAt, RunPlaces
<1>12. ASSUME NEW r \in Runs, Finish(r) PROVE RunsOK'
  BY <1>a, <1>12 DEF Finish, RunAt, Ended
<1>13. ASSUME NEW r \in Runs, RunStops(r) PROVE RunsOK'
  BY <1>a, <1>13 DEF RunStops, Running, Ended
<1>14. ASSUME NEW s \in Slots, Commit(s) PROVE RunsOK'
  <2>1. subject[hook[s]] \in Products
    BY <1>14, HookFacts DEF Commit, At
  <2>2. touched' \in [Runs -> SUBSET Products]
    BY <1>0, <1>14, <2>1 DEF Commit
  <2> QED
    BY <1>0, <1>14, <2>2 DEF Commit, RunsOK
<1>15. CASE UNCHANGED syncVars
  BY <1>15 DEF RunsOK, syncVars
<1> QED
  BY <1>1, <1>2, <1>3, <1>4, <1>5, <1>6, <1>7, <1>8, <1>9, <1>10, <1>11, <1>12, <1>13, <1>14,
      <1>15, SyncFrame

\* Every variable has its type in the beginning.
LEMMA InitTyped == Init => TypeOK
<1> SUFFICES ASSUME Init PROVE TypeOK
  OBVIOUS
<1> USE LimitsAssumption, ParentAssumption DEF Init
<1>1. ShopOK
  BY DEF ShopOK, NoFeed, Changes, KidsOf
<1>2. op \in Operations
  BY DEF Operations, OpStatuses, NoFeed, Feeds
<1>3. RowsOK
  BY DEF RowsOK, ProductRows, VariantRows, RowStates
<1>4. ExecsOK
  BY DEF ExecsOK, Locations
<1>5. RunsOK
  BY DEF RunsOK, RunRecords, RunPlaces, NoWork, NoFeed, Feeds, Runs
<1> QED
  BY <1>1, <1>2, <1>3, <1>4, <1>5 DEF TypeOK

\* Every step keeps the types.
LEMMA TypedStep ==
  ASSUME TypeOK, [Next]_vars
  PROVE  TypeOK'
<1>1. ShopOK'
  BY ShopTyped DEF TypeOK
<1> QED
  BY <1>1, OpTyped, RowsTyped, ExecsTyped, RunsTyped DEF TypeOK

\* Every variable keeps its type, whatever the guard and however runs overlap.
THEOREM TypeCorrect == Spec => []TypeOK
<1>1. TypeOK /\ [Next]_vars => TypeOK'
  BY TypedStep
<1> QED
  BY <1>1, InitTyped, PTL DEF Spec

-----------------------------------------------------------------------------
(* The guard.                                                              *)

\* A webhook's notification is written with its processed event, by an execution
\* that finds no such event: a second commit for it cannot happen.
THEOREM NotifiedAlwaysOnce == Spec => []NotifiedOnce
<1>1. Init => NotifiedOnce
  BY DEF Init, NotifiedOnce
<1>2. TypeOK /\ NotifiedOnce /\ [Next]_vars => NotifiedOnce'
  <2> SUFFICES ASSUME TypeOK, NotifiedOnce, [Next]_vars, GuardEnabled
               PROVE  \A w \in Changes : notified'[w] > 0 => notified'[w] = 1 /\ w \in processed'
    BY DEF NotifiedOnce
  <2>1. \A w \in Changes : notified[w] > 0 => notified[w] = 1 /\ w \in processed
    BY DEF NotifiedOnce
  <2>2. CASE \E s \in Slots : RecordNoop(s)
    BY <2>1, <2>2 DEF RecordNoop
  <2>3. ASSUME NEW s \in Slots, Commit(s)
        PROVE  \A w \in Changes : notified'[w] > 0 => notified'[w] = 1 /\ w \in processed'
    <3>1. hook[s] \in Changes /\ hook[s] \notin processed
      BY <2>3, HookFacts DEF Commit, At, TypeOK
    <3>2. /\ notified' = [notified EXCEPT ![hook[s]] = @ + 1]
          /\ processed' = processed \cup {hook[s]}
      BY <2>3 DEF Commit
    <3> QED
      BY <2>1, <3>1, <3>2 DEF TypeOK, RowsOK
  <2>4. CASE UNCHANGED <<processed, notified>>
    BY <2>1, <2>4
  <2> QED
    BY <2>2, <2>3, <2>4, BookFrame
<1> QED
  BY <1>1, <1>2, TypeCorrect, PTL DEF Spec

-----------------------------------------------------------------------------
(* What a step does to one run, seen from its record.                      *)

\* The run goes from l to m and keeps what it holds.
Moves(r, l, m) ==
  /\ run[r].pc = l /\ run'[r].pc = m
  /\ run'[r].feed = run[r].feed /\ run'[r].kids = run[r].kids
  /\ run'[r].todo = run[r].todo /\ run'[r].batch = run[r].batch

\* It takes the operation's result.
Takes(r) ==
  /\ UNCHANGED op
  /\ op.status = "COMPLETED"
  /\ run[r].pc = "poll" /\ run'[r].pc = "snapshot"
  /\ run'[r].feed = op.feed /\ run'[r].kids = op.kids
  /\ run'[r].todo = run[r].todo /\ run'[r].batch = run[r].batch

\* It has the whole result before it.
Reads(r) ==
  /\ run[r].pc = "snapshot" /\ run'[r].pc = "write"
  /\ run'[r].feed = run[r].feed /\ run'[r].kids = run[r].kids
  /\ run'[r].todo = InFeed(run[r].feed) /\ run'[r].batch = run[r].batch

\* It writes a batch's products.
Writes(r) ==
  /\ run[r].pc = "write" /\ run'[r].pc = "variants"
  /\ run'[r].feed = run[r].feed /\ run'[r].kids = run[r].kids
  /\ \E B \in Batches(r) :
       /\ FlushProducts(r, B)
       /\ run'[r].todo = run[r].todo \ B /\ run'[r].batch = B

\* It writes their variants.
Completes(r) ==
  /\ FlushVariants(r)
  /\ run[r].pc = "variants" /\ run'[r].pc = "write"
  /\ run'[r].feed = run[r].feed /\ run'[r].kids = run[r].kids
  /\ run'[r].todo = run[r].todo /\ run'[r].batch = {}

\* It is over and holds nothing.
Stops(r) ==
  /\ run'[r].pc \in Ended /\ run'[r].feed = NoFeed /\ run'[r].kids = {}
  /\ run'[r].todo = {} /\ run'[r].batch = {}

Steps(r) ==
  \/ Moves(r, "waiting", "check") /\ Begin(r)
  \/ Moves(r, "check", "cancel") \/ Moves(r, "check", "submit")
  \/ Moves(r, "cancel", "submit") \/ Moves(r, "submit", "poll")
  \/ Takes(r) \/ Reads(r) \/ Writes(r) \/ Completes(r)
  \/ Moves(r, "write", "judge_variants") /\ JudgeProducts(r)
  \/ Moves(r, "judge_variants", "finish") /\ JudgeVariants(r)
  \/ Stops(r)

\* Every step is one of these for one run, or leaves them all alone.
LEMMA RunSteps ==
  ASSUME TypeOK, [Next]_vars
  PROVE  \/ UNCHANGED run
         \/ \E r \in Runs : Steps(r) /\ \A q \in Runs : q # r => run'[q] = run[q]
<1> DEFINE Only(r) == Steps(r) /\ \A q \in Runs : q # r => run'[q] = run[q]
<1> USE DEF TypeOK
<1>0. run \in [Runs -> RunRecords] /\ \A r \in Runs : run[r] \in RunRecords
  BY DEF RunsOK
<1>a. ASSUME NEW r \in Runs, NEW l \in Ended, End(r, l) PROVE Only(r)
  BY <1>0, <1>a, Ending DEF Steps, Stops
<1>1. ASSUME NEW r \in Runs, Begin(r) PROVE Only(r)
  <2>1. run[r].pc = "waiting"
    BY <1>1 DEF Begin, RunsOK, Runs
  <2> QED
    BY <1>0, <1>1, <2>1, Going DEF Begin, RunPlaces, Steps, Moves
<1>2. ASSUME NEW r \in Runs, CheckCurrent(r) PROVE Only(r)
  <2> DEFINE w == [run[r] EXCEPT !.pc = "cancel", !.op = op.id]
  <2>1. CASE op.status = "RUNNING"
    <3>1. op.id \in Nat
      BY DEF Operations
    <3>2. /\ w \in RunRecords /\ w.pc = "cancel" /\ w.feed = run[r].feed /\ w.kids = run[r].kids
          /\ w.todo = run[r].todo /\ w.batch = run[r].batch
      BY <1>0, <3>1 DEF RunRecords, RunPlaces
    <3>3. Become(r, w) /\ run[r].pc = "check"
      BY <1>2, <2>1 DEF CheckCurrent, RunAt
    <3> QED
      BY <1>0, <3>2, <3>3, Becoming DEF Steps, Moves
  <2>2. CASE op.status # "RUNNING"
    BY <1>0, <1>2, <2>2, Going DEF CheckCurrent, RunAt, RunPlaces, Steps, Moves
  <2> QED
    BY <2>1, <2>2
<1>3. ASSUME NEW r \in Runs, CancelOp(r) PROVE Only(r)
  <2> DEFINE w == [run[r] EXCEPT !.pc = "submit", !.op = 0]
  <2>1. /\ w \in RunRecords /\ w.pc = "submit" /\ w.feed = run[r].feed /\ w.kids = run[r].kids
        /\ w.todo = run[r].todo /\ w.batch = run[r].batch
    BY <1>0 DEF RunRecords, RunPlaces
  <2>2. Become(r, w) /\ run[r].pc = "cancel"
    BY <1>3 DEF CancelOp, RunAt
  <2> QED
    BY <1>0, <2>1, <2>2, Becoming DEF Steps, Moves
<1>4. ASSUME NEW r \in Runs, SubmitOp(r) PROVE Only(r)
  <2>1. CASE op.status \in {"RUNNING", "CANCELING"}
    BY <1>a, <1>4, <2>1 DEF SubmitOp, Ended
  <2>2. CASE op.status \notin {"RUNNING", "CANCELING"}
    BY <1>0, <1>4, <2>2, Going DEF SubmitOp, RunAt, RunPlaces, Steps, Moves
  <2> QED
    BY <2>1, <2>2
<1>5. ASSUME NEW r \in Runs, PollOp(r) PROVE Only(r)
  <2> DEFINE w == [run[r] EXCEPT !.pc = "snapshot", !.feed = op.feed, !.kids = op.kids]
  <2>1. CASE op.status = "COMPLETED" /\ op.feed # NoFeed
    <3>1. op.feed \in Feeds /\ op.kids \in SUBSET Variants
      BY DEF Operations
    <3>2. /\ w \in RunRecords /\ w.pc = "snapshot" /\ w.feed = op.feed /\ w.kids = op.kids
          /\ w.todo = run[r].todo /\ w.batch = run[r].batch
      BY <1>0, <3>1 DEF RunRecords, RunPlaces
    <3>3. Become(r, w) /\ run[r].pc = "poll" /\ UNCHANGED op
      BY <1>5, <2>1 DEF PollOp, RunAt
    <3> QED
      BY <1>0, <2>1, <3>2, <3>3, Becoming DEF Steps, Takes
  <2>2. CASE ~(op.status = "COMPLETED" /\ op.feed # NoFeed)
    BY <1>a, <1>5, <2>2 DEF PollOp, Ended
  <2> QED
    BY <2>1, <2>2
<1>6. ASSUME NEW r \in Runs, PollTimesOut(r) PROVE Only(r)
  BY <1>a, <1>6 DEF PollTimesOut, Ended
<1>7. ASSUME NEW r \in Runs, ReadSnapshot(r) PROVE Only(r)
  <2> DEFINE w == [run[r] EXCEPT !.pc = "write", !.todo = InFeed(run[r].feed)]
  <2>1. InFeed(run[r].feed) \in SUBSET Products
    BY DEF InFeed
  <2>2. /\ w \in RunRecords /\ w.pc = "write" /\ w.feed = run[r].feed /\ w.kids = run[r].kids
        /\ w.todo = InFeed(run[r].feed) /\ w.batch = run[r].batch
    BY <1>0, <2>1 DEF RunRecords, RunPlaces
  <2>3. Become(r, w) /\ run[r].pc = "snapshot"
    BY <1>7 DEF ReadSnapshot, RunAt
  <2> QED
    BY <1>0, <2>2, <2>3, Becoming DEF Steps, Reads
<1>8. ASSUME NEW r \in Runs, NEW B \in Batches(r), FlushProducts(r, B) PROVE Only(r)
  <2> DEFINE w == [run[r] EXCEPT !.pc = "variants", !.todo = @ \ B, !.batch = B]
  <2>1. B \in SUBSET run[r].todo /\ run[r].todo \in SUBSET Products
    BY <1>0 DEF Batches, RunRecords
  <2>2. /\ w \in RunRecords /\ w.pc = "variants" /\ w.feed = run[r].feed /\ w.kids = run[r].kids
        /\ w.todo = run[r].todo \ B /\ w.batch = B
    BY <1>0, <2>1 DEF RunRecords, RunPlaces
  <2>3. Become(r, w) /\ run[r].pc = "write"
    BY <1>8 DEF FlushProducts, RunAt
  <2> QED
    BY <1>0, <1>8, <2>2, <2>3, Becoming DEF Steps, Writes
<1>9. ASSUME NEW r \in Runs, FlushVariants(r) PROVE Only(r)
  <2> DEFINE w == [run[r] EXCEPT !.pc = "write", !.batch = {}]
  <2>1. /\ w \in RunRecords /\ w.pc = "write" /\ w.feed = run[r].feed /\ w.kids = run[r].kids
        /\ w.todo = run[r].todo /\ w.batch = {}
    BY <1>0 DEF RunRecords, RunPlaces
  <2>2. Become(r, w) /\ run[r].pc = "variants"
    BY <1>9 DEF FlushVariants, RunAt
  <2> QED
    BY <1>0, <1>9, <2>1, <2>2, Becoming DEF Steps, Completes
<1>10. ASSUME NEW r \in Runs, JudgeProducts(r) PROVE Only(r)
  BY <1>0, <1>10, Going DEF JudgeProducts, RunAt, RunPlaces, Steps, Moves
<1>11. ASSUME NEW r \in Runs, JudgeVariants(r) PROVE Only(r)
  BY <1>0, <1>11, Going DEF JudgeVariants, RunAt, RunPlaces, Steps, Moves
<1>12. ASSUME NEW r \in Runs, Finish(r) PROVE Only(r)
  BY <1>a, <1>12 DEF Finish, Ended
<1>13. ASSUME NEW r \in Runs, RunStops(r) PROVE Only(r)
  BY <1>a, <1>13 DEF RunStops, Ended
<1>14. CASE \E s \in Slots : Commit(s)
  BY <1>14 DEF Commit
<1>15. CASE UNCHANGED syncVars
  BY <1>15 DEF syncVars
<1> QED
  BY <1>1, <1>2, <1>3, <1>4, <1>5, <1>6, <1>7, <1>8, <1>9, <1>10, <1>11, <1>12, <1>13, <1>14,
      <1>15, SyncFrame

-----------------------------------------------------------------------------
(* Why a row is marked deleted only when the shop no longer has it, when   *)
(* runs do not overlap.  The last part of the invariant is the property;   *)
(* the others are what a judgement relies on.                              *)

\* Products the shop has or once had.
Named == {p \in Products : version[p] # 0}

\* At most one run is under way.
Alone == \A r \in Runs : Running(r) => r = started

\* Nothing is known of a product the shop never had.
Known ==
  /\ live \subseteq Named
  /\ \A c \in Changes : c <= changes => subject[c] \in Named
  /\ \A p \in Products : row[p].state # "absent" => p \in Named
  /\ \A v \in Variants : kid[v].state # "absent" => ParentOf[v] \in Named
  /\ InFeed(op.feed) \subseteq Named /\ op.kids \subseteq KidsOf(InFeed(op.feed))
  /\ \A r \in Runs : /\ InFeed(run[r].feed) \subseteq Named
                     /\ run[r].kids \subseteq KidsOf(InFeed(run[r].feed))

\* An execution past the read has found a row.
Held ==
  \A s \in Slots : pc[s] \in {"noop", "update", "lock", "commit"} => row[subject[hook[s]]].state # "absent"

\* A run holds a batch only between its two statements and judges with nothing left.
Progress ==
  \A r \in Runs :
    /\ run[r].todo \subseteq InFeed(run[r].feed)
    /\ run[r].pc # "variants" => run[r].batch = {}
    /\ run[r].pc \notin {"write", "variants"} => run[r].todo = {}

\* While a run works on a result, that is the result of the app's operation.
Exported ==
  \A r \in Runs : run[r].pc \in {"snapshot", "write", "variants", "judge_variants", "finish"} =>
    op.status = "COMPLETED" /\ op.feed = run[r].feed /\ op.kids = run[r].kids

\* A complete result has every product and variant that exists and has a row.
Covered ==
  op.status = "COMPLETED" =>
    /\ \A p \in live : row[p].state # "absent" => p \in InFeed(op.feed)
    /\ \A v \in offered : kid[v].state # "absent" => v \in op.kids

\* What a run has written carries at least its stamp, except the rows a late
\* statement has overwritten since.
Stamped ==
  \A r \in Runs : run[r].pc \in {"write", "variants", "judge_variants"} =>
    /\ \A p \in InFeed(run[r].feed) \ run[r].todo : p \in late \/ row[p].seen >= 2 * r
    /\ \A v \in run[r].kids : ParentOf[v] \notin run[r].todo \cup run[r].batch => kid[v].seen >= 2 * r

IInv ==
  /\ TypeOK /\ Alone /\ Known /\ Held /\ Progress
  /\ Exported /\ Covered /\ Stamped /\ DeletedMeansGone

\* Only the beginning of a run counts it.
LEMMA StartFrame ==
  ASSUME [Next]_vars
  PROVE  UNCHANGED started \/ \E r \in Runs : Begin(r)
  BY SyncFrame, Zenon DEF CheckCurrent, CancelOp, SubmitOp, PollOp, PollTimesOut, ReadSnapshot,
      FlushProducts,
       FlushVariants, JudgeProducts, JudgeVariants, Finish, RunStops, Commit, syncVars

\* At most one run is under way.
LEMMA AloneStep ==
  ASSUME SerialRuns, TypeOK, Alone, [Next]_vars
  PROVE  Alone'
<1>1. ASSUME NEW r \in Runs, Begin(r) PROVE Alone'
  <2>1. started' = r /\ \A q \in Runs : ~Running(q)
    BY <1>1 DEF Begin
  <2>2. \A q \in Runs : q # r => run'[q] = run[q]
    BY <1>1, Going DEF Begin, RunPlaces, TypeOK, RunsOK
  <2> QED
    BY <2>1, <2>2 DEF Alone, Running
<1>2. ASSUME UNCHANGED started, NEW r \in Runs, Steps(r), \A q \in Runs : q # r => run'[q] = run[q]
      PROVE  Alone'
  <2>1. CASE Begin(r)
    BY <1>1, <2>1
  <2>2. CASE ~Begin(r)
    BY <1>2, <2>2 DEF Steps, Moves, Takes, Reads, Writes, Completes, Stops, Alone, Running, Ended
  <2> QED
    BY <2>1, <2>2
<1>3. CASE UNCHANGED run /\ UNCHANGED started
  BY <1>3 DEF Alone, Running
<1> QED
  BY <1>1, <1>2, <1>3, StartFrame, RunSteps

\* A run's bookkeeping of its batches.
LEMMA ProgressStep ==
  ASSUME TypeOK, Progress, [Next]_vars
  PROVE  Progress'
<1>1. ASSUME NEW r \in Runs, Steps(r), \A q \in Runs : q # r => run'[q] = run[q]
      PROVE  Progress'
  <2>1. /\ run'[r].todo \subseteq InFeed(run'[r].feed)
        /\ run'[r].pc # "variants" => run'[r].batch = {}
        /\ run'[r].pc \notin {"write", "variants"} => run'[r].todo = {}
    <3> USE DEF Progress
    <3>1. CASE Takes(r)
      BY <3>1 DEF Takes
    <3>2. CASE Reads(r)
      BY <3>2 DEF Reads
    <3>3. CASE Writes(r)
      BY <3>3 DEF Writes
    <3>4. CASE Completes(r)
      BY <3>4 DEF Completes
    <3>5. CASE Stops(r)
      BY <3>5 DEF Stops, Ended
    <3>6. CASE Moves(r, "write", "judge_variants") /\ JudgeProducts(r)
      BY <3>6 DEF Moves, JudgeProducts
    <3> QED
      BY <1>1, <3>1, <3>2, <3>3, <3>4, <3>5, <3>6 DEF Steps, Moves
  <2> QED
    BY <1>1, <2>1 DEF Progress
<1>2. CASE UNCHANGED run
  BY <1>2 DEF Progress
<1> QED
  BY <1>1, <1>2, RunSteps

\* Rows never go, so what an execution found is still there.
LEMMA HeldStep ==
  ASSUME TypeOK, Held, [Next]_vars
  PROVE  Held'
<1>1. \A p \in Products : row[p].state # "absent" => row'[p].state # "absent"
  <2>1. ASSUME NEW s \in Slots, Commit(s)
        PROVE  \A p \in Products : row[p].state # "absent" => row'[p].state # "absent"
    BY <2>1 DEF Commit, TypeOK, RowsOK
  <2>2. ASSUME NEW r \in Runs, NEW B \in Batches(r), FlushProducts(r, B)
        PROVE  \A p \in Products : row[p].state # "absent" => row'[p].state # "absent"
    BY <2>2 DEF FlushProducts
  <2>3. ASSUME NEW r \in Runs, JudgeProducts(r)
        PROVE  \A p \in Products : row[p].state # "absent" => row'[p].state # "absent"
    BY <2>3 DEF JudgeProducts, TypeOK, RowsOK, ProductRows
  <2> QED
    BY <2>1, <2>2, <2>3, RowFrame
<1>2. ASSUME NEW s \in Slots, pc[s] # "idle"
      PROVE  subject'[hook[s]] = subject[hook[s]] /\ subject[hook[s]] \in Products
  BY <1>2, Monotone, HookFacts DEF TypeOK
<1>3. CASE UNCHANGED execVars
  BY <1>1, <1>2, <1>3 DEF Held, execVars
<1>4. CASE \E s \in Slots : \E w \in Changes : Start(s, w)
  BY <1>1, <1>2, <1>4 DEF Held, Start, At, Goto, TypeOK, ExecsOK
<1>5. CASE \E s \in Slots : ReadProduct(s)
  BY <1>1, <1>2, <1>5 DEF Held, ReadProduct, At, Goto, Leave, TypeOK, ExecsOK
<1>6. CASE \E s \in Slots : RecordNoop(s)
  BY <1>1, <1>2, <1>6 DEF Held, RecordNoop, At, Goto, Leave, TypeOK, ExecsOK
<1>7. CASE \E s \in Slots : UpdateRow(s)
  BY <1>1, <1>2, <1>7 DEF Held, UpdateRow, At, Goto, TypeOK, ExecsOK
<1>10. CASE \E s \in Slots : TakeStamp(s)
  BY <1>1, <1>2, <1>10 DEF Held, TakeStamp, At, Goto, TypeOK, ExecsOK
<1>8. CASE \E s \in Slots : Commit(s)
  BY <1>1, <1>2, <1>8 DEF Held, Commit, At, Goto, Leave, TypeOK, ExecsOK
<1>9. CASE \E s \in Slots : Abandon(s)
  BY <1>1, <1>2, <1>9 DEF Held, Abandon, At, Goto, Leave, TypeOK, ExecsOK
<1> QED
  BY <1>3, <1>4, <1>5, <1>6, <1>7, <1>8, <1>9, <1>10, ExecFrame

\* What is known of a product comes from the shop or from a result.
LEMMA KnownStep ==
  ASSUME TypeOK, Known, Progress, [Next]_vars
  PROVE  Known'
<1>0. Named \subseteq Named'
  BY Monotone DEF Named, TypeOK
<1>1. live' \subseteq Named' /\ \A c \in Changes : c <= changes' => subject'[c] \in Named'
  <2> USE ParentAssumption, LimitsAssumption DEF TypeOK, ShopOK, Known, Named
  <2>1. ASSUME NEW p \in Products, Change(p)
        PROVE  \A c \in Changes : c <= changes' => subject'[c] \in Named'
    BY <2>1 DEF Change, Changes
  <2>2. ASSUME NEW p \in Products, Create(p) PROVE live' \subseteq Named'
    BY <2>2 DEF Create, Change
  <2>3. ASSUME NEW p \in Products, Edit(p) PROVE live' \subseteq Named'
    BY <2>3 DEF Edit, Change
  <2>4. CASE \E p \in Products : Delete(p)
    BY <2>4 DEF Delete
  <2>5. CASE UNCHANGED shopVars
    BY <2>5 DEF shopVars
  <2> QED
    BY <2>1, <2>2, <2>3, <2>4, <2>5, ShopFrame DEF Create, Edit
<1>2. \A p \in Products : row'[p].state # "absent" => p \in Named
  <2>1. ASSUME NEW s \in Slots, Commit(s), NEW p \in Products, row'[p].state # "absent"
        PROVE  p \in Named
    <3>1. hook[s] \in Changes /\ hook[s] <= changes
      BY <2>1, HookFacts DEF Commit, At, TypeOK
    <3> QED
      BY <2>1, <3>1 DEF Commit, Known, TypeOK, RowsOK
  <2>2. ASSUME NEW r \in Runs, NEW B \in Batches(r), FlushProducts(r, B),
               NEW p \in Products, row'[p].state # "absent"
        PROVE  p \in Named
    BY <2>2 DEF FlushProducts, Batches, Known, Progress
  <2>3. ASSUME NEW r \in Runs, JudgeProducts(r), NEW p \in Products, row'[p].state # "absent"
        PROVE  p \in Named
    BY <2>3 DEF JudgeProducts, Unseen, Known
  <2> QED
    BY <2>1, <2>2, <2>3, RowFrame DEF Known
<1>3. \A v \in Variants : kid'[v].state # "absent" => ParentOf[v] \in Named
  <2>1. ASSUME NEW r \in Runs, FlushVariants(r), NEW v \in Variants, kid'[v].state # "absent"
        PROVE  ParentOf[v] \in Named
    BY <2>1 DEF FlushVariants, Known, KidsOf
  <2>2. ASSUME NEW r \in Runs, JudgeVariants(r), NEW v \in Variants, kid'[v].state # "absent"
        PROVE  ParentOf[v] \in Named
    BY <2>2 DEF JudgeVariants, Unseen, Known
  <2> QED
    BY <2>1, <2>2, KidFrame DEF Known
<1>4. InFeed(op'.feed) \subseteq Named /\ op'.kids \subseteq KidsOf(InFeed(op'.feed))
  <2>1. CASE OpEnds
    <3>1. InFeed(ShopFeed) = live /\ live \subseteq Named
      BY DEF InFeed, ShopFeed, Known, Named, TypeOK, ShopOK
    <3>2. offered \subseteq KidsOf(live)
      BY DEF TypeOK, ShopOK
    <3>3. \/ op'.feed = ShopFeed /\ op'.kids = offered
          \/ op'.feed = op.feed /\ op'.kids = op.kids
      BY <2>1 DEF OpEnds, TypeOK, Operations
    <3> QED
      BY <3>1, <3>2, <3>3 DEF Known
  <2>2. CASE \E r \in Runs : CancelOp(r)
    <3>1. op'.feed = op.feed /\ op'.kids = op.kids
      BY <2>2 DEF CancelOp, TypeOK, Operations
    <3> QED
      BY <3>1 DEF Known
  <2>3. CASE \E r \in Runs : SubmitOp(r)
    BY <2>3 DEF SubmitOp, Known, InFeed, KidsOf, NoFeed
  <2> QED
    BY <2>1, <2>2, <2>3, OpFrame DEF Known
<1>5. \A r \in Runs : /\ InFeed(run'[r].feed) \subseteq Named
                      /\ run'[r].kids \subseteq KidsOf(InFeed(run'[r].feed))
  <2>1. ASSUME NEW r \in Runs, Steps(r)
        PROVE  InFeed(run'[r].feed) \subseteq Named /\ run'[r].kids \subseteq KidsOf(InFeed(run'[r].feed))
    <3>1. CASE Takes(r)
      BY <3>1 DEF Takes, Known
    <3>2. CASE Stops(r)
      BY <3>2 DEF Stops, InFeed, NoFeed
    <3>3. CASE ~Takes(r) /\ ~Stops(r)
      BY <2>1, <3>3 DEF Steps, Moves, Reads, Writes, Completes, Known
    <3> QED
      BY <3>1, <3>2, <3>3
  <2> QED
    BY <2>1, RunSteps DEF Known
<1> QED
  BY <1>0, <1>1, <1>2, <1>3, <1>4, <1>5 DEF Known

\* Where a run works on a result.
AtWork == {"snapshot", "write", "variants", "judge_variants", "finish"}

\* No step changes the operation a run works on.
LEMMA ExportedStep ==
  ASSUME SerialRuns, TypeOK, Alone, Exported, [Next]_vars
  PROVE  Exported'
<1>1. ASSUME NEW r \in Runs, run[r].pc \in AtWork
      PROVE  /\ op' = op /\ op.status = "COMPLETED"
             /\ op.feed = run[r].feed /\ op.kids = run[r].kids
  <2>1. Running(r) /\ op.status = "COMPLETED" /\ op.feed = run[r].feed /\ op.kids = run[r].kids
    BY <1>1 DEF Exported, AtWork, Running, Ended
  <2>2. ASSUME NEW q \in Runs, CancelOp(q) \/ SubmitOp(q) PROVE q # r /\ Running(q)
    BY <1>1, <2>2 DEF CancelOp, SubmitOp, RunAt, Running, AtWork, Ended
  <2>3. ~OpEnds
    BY <2>1 DEF OpEnds
  <2> QED
    BY <2>1, <2>2, <2>3, OpFrame DEF Alone
<1>2. ASSUME NEW r \in Runs, Steps(r), run'[r].pc \in AtWork
      PROVE  op'.status = "COMPLETED" /\ op'.feed = run'[r].feed /\ op'.kids = run'[r].kids
  <2>1. CASE Takes(r)
    BY <2>1 DEF Takes
  <2>2. CASE ~Takes(r)
    <3>1. run[r].pc \in AtWork /\ run'[r].feed = run[r].feed /\ run'[r].kids = run[r].kids
      BY <1>2, <2>2 DEF Steps, Moves, Reads, Writes, Completes, Stops, AtWork, Ended
    <3> QED
      BY <1>1, <3>1
  <2> QED
    BY <2>1, <2>2
<1> QED
  BY <1>1, <1>2, RunSteps DEF Exported, AtWork

\* A product or a variant that appears has no row.
LEMMA NewHasNoRow ==
  ASSUME TypeOK, Known, [Next]_vars
  PROVE  /\ \A p \in live' \ live : row[p].state = "absent" /\ UNCHANGED row
         /\ \A v \in offered' \ offered : kid[v].state = "absent" /\ UNCHANGED kid
<1> USE DEF TypeOK, ShopOK, KidsOf
<1>1. ASSUME NEW p \in Products, Create(p)
      PROVE  /\ live' = live \cup {p} /\ offered' \subseteq offered \cup KidsOf({p})
             /\ UNCHANGED <<row, kid>> /\ p \notin Named
  BY <1>1 DEF Create, Change, Named, dbVars
<1>2. ASSUME NEW p \in Products, Create(p)
      PROVE  /\ \A q \in live' \ live : row[q].state = "absent" /\ UNCHANGED row
             /\ \A v \in offered' \ offered : kid[v].state = "absent" /\ UNCHANGED kid
  BY <1>1, <1>2 DEF Known
<1>3. CASE \E p \in Products : Edit(p) \/ Delete(p)
  BY <1>3 DEF Edit, Delete
<1>4. CASE UNCHANGED shopVars
  BY <1>4 DEF shopVars
<1> QED
  BY <1>2, <1>3, <1>4, ShopFrame

\* A row that appears after a result was made comes from the result.
LEMMA CoveredStep ==
  ASSUME TypeOK, Known, Held, Progress, Exported, Covered, [Next]_vars
  PROVE  Covered'
<1>1. ASSUME op.status = "COMPLETED", op'.feed = op.feed, op'.kids = op.kids
      PROVE  Covered'
  <2>1. ASSUME NEW p \in Products, row'[p].state # "absent", row[p].state = "absent"
        PROVE  p \in InFeed(op.feed)
    <3>1. ASSUME NEW s \in Slots, Commit(s) PROVE FALSE
      BY <2>1, <3>1, HookFacts DEF Commit, At, Held, TypeOK, RowsOK
    <3>2. ASSUME NEW r \in Runs, NEW B \in Batches(r), FlushProducts(r, B) PROVE p \in InFeed(op.feed)
      BY <2>1, <3>2 DEF FlushProducts, RunAt, Batches, Progress, Exported
    <3>3. ASSUME NEW r \in Runs, JudgeProducts(r) PROVE FALSE
      BY <2>1, <3>3 DEF JudgeProducts, Unseen
    <3> QED
      BY <2>1, <3>1, <3>2, <3>3, RowFrame
  <2>2. ASSUME NEW v \in Variants, kid'[v].state # "absent", kid[v].state = "absent"
        PROVE  v \in op.kids
    <3>1. ASSUME NEW r \in Runs, FlushVariants(r) PROVE v \in op.kids
      BY <2>2, <3>1 DEF FlushVariants, RunAt, Exported
    <3>2. ASSUME NEW r \in Runs, JudgeVariants(r) PROVE FALSE
      BY <2>2, <3>2 DEF JudgeVariants, Unseen
    <3> QED
      BY <2>2, <3>1, <3>2, KidFrame
  <2>3. live' \subseteq Products /\ offered' \subseteq Variants
    BY ShopTyped DEF TypeOK, ShopOK, KidsOf
  <2>4. \A p \in live' : row'[p].state # "absent" => p \in InFeed(op.feed)
    BY <1>1, <2>1, <2>3, NewHasNoRow DEF Covered
  <2>5. \A v \in offered' : kid'[v].state # "absent" => v \in op.kids
    BY <1>1, <2>2, <2>3, NewHasNoRow DEF Covered
  <2> QED
    BY <1>1, <2>4, <2>5 DEF Covered
<1>2. CASE OpEnds
  <2>1. op'.status # "COMPLETED" \/ (op'.feed = ShopFeed /\ op'.kids = offered)
    BY <1>2 DEF OpEnds, TypeOK, Operations
  <2>2. live' = live /\ offered' = offered /\ live \subseteq InFeed(ShopFeed)
    BY <1>2 DEF OpEnds, shopVars, InFeed, ShopFeed, Known, Named, TypeOK, ShopOK
  <2> QED
    BY <2>1, <2>2 DEF Covered
<1>3. ASSUME NEW r \in Runs, CancelOp(r)
      PROVE  op'.status = "COMPLETED" => op.status = "COMPLETED" /\ op' = op
  BY <1>3 DEF CancelOp, TypeOK, Operations
<1>4. ASSUME NEW r \in Runs, SubmitOp(r)
      PROVE  op'.status = "COMPLETED" => op.status = "COMPLETED" /\ op' = op
  BY <1>4 DEF SubmitOp
<1>5. CASE op'.status # "COMPLETED"
  BY <1>5 DEF Covered
<1> QED
  BY <1>1, <1>2, <1>3, <1>4, <1>5, OpFrame

\* A handler's statement over what the run has written is late, or was built after
\* the run began and stamps the row no earlier.
LEMMA StampedStep ==
  ASSUME TypeOK, Alone, Known, Progress, Stamped, [Next]_vars
  PROVE  Stamped'
<1> DEFINE Stamping == {"write", "variants", "judge_variants"}
<1>1. ASSUME NEW r \in Runs, run[r].pc \in Stamping
      PROVE  /\ r \in Nat /\ r <= started /\ Running(r)
             /\ \A q \in Runs : Running(q) => q = r
  BY <1>1, LimitsAssumption DEF Running, Ended, TypeOK, RunsOK, Runs, Alone
<1>2. ASSUME NEW r \in Runs, run[r].pc \in Stamping, NEW p \in InFeed(run[r].feed) \ run[r].todo
      PROVE  p \in late' \/ row'[p].seen >= 2 * r
  <2>1. /\ p \in Products /\ r \in Nat /\ row[p].seen \in Nat
        /\ p \in late \/ row[p].seen >= 2 * r
    BY <1>1, <1>2 DEF Stamped, InFeed, TypeOK, RowsOK, ProductRows
  <2>2. ASSUME NEW s \in Slots, Commit(s) PROVE p \in late' \/ row'[p].seen >= 2 * r
    <3>1. CASE subject[hook[s]] = p
      <4>1. stamp[s] \in Nat /\ started \in Nat /\ r <= started
        BY <1>1, <1>2, LimitsAssumption DEF TypeOK, ExecsOK, RunsOK
      <4>2. CASE stamp[s] < 2 * started
        BY <2>2, <3>1, <4>2 DEF Commit
      <4>3. CASE ~(stamp[s] < 2 * started)
        <5>1. row'[p].seen = stamp[s]
          BY <2>1, <2>2, <3>1 DEF Commit, TypeOK, RowsOK
        <5> QED
          BY <2>1, <4>1, <4>3, <5>1
      <4> QED
        BY <4>2, <4>3
    <3>2. CASE subject[hook[s]] # p
      <4>1. row'[p] = row[p] /\ (p \in late => p \in late')
        BY <2>1, <2>2, <3>2 DEF Commit, TypeOK, RowsOK
      <4> QED
        BY <2>1, <4>1
    <3> QED
      BY <3>1, <3>2
  <2>3. ASSUME NEW q \in Runs, NEW B \in Batches(q), FlushProducts(q, B)
        PROVE  p \in late' \/ row'[p].seen >= 2 * r
    <3>1. q = r
      BY <1>1, <1>2, <2>3 DEF FlushProducts, RunAt, Running, Ended
    <3>2. CASE p \in B
      <4>1. row'[p].seen = 2 * r
        BY <2>1, <2>3, <3>1, <3>2 DEF FlushProducts
      <4> QED
        BY <2>1, <4>1
    <3>3. CASE p \notin B
      <4>1. row'[p] = row[p] /\ (p \in late => p \in late')
        BY <2>1, <2>3, <3>3 DEF FlushProducts
      <4> QED
        BY <2>1, <4>1
    <3> QED
      BY <3>2, <3>3
  <2>4. ASSUME NEW q \in Runs, JudgeProducts(q) PROVE p \in late' \/ row'[p].seen >= 2 * r
    <3>1. row'[p].seen = row[p].seen /\ late' = late
      BY <2>1, <2>4 DEF JudgeProducts, TypeOK, RowsOK, ProductRows
    <3> QED
      BY <2>1, <3>1
  <2>5. CASE UNCHANGED row /\ UNCHANGED late
    BY <2>1, <2>5
  <2> QED
    BY <2>2, <2>3, <2>4, <2>5, RowFrame, LateFrame
<1>4. ASSUME NEW r \in Runs, run[r].pc \in Stamping,
             NEW v \in run[r].kids, ParentOf[v] \notin run[r].todo \cup run[r].batch
      PROVE  kid'[v].seen >= 2 * r
  <2>1. v \in Variants /\ kid[v].seen >= 2 * r /\ r \in Nat
    BY <1>1, <1>4 DEF Stamped, TypeOK, RunsOK, RunRecords
  <2>2. ASSUME NEW q \in Runs, FlushVariants(q) PROVE kid'[v].seen >= 2 * r
    <3>1. q = r
      BY <1>1, <1>4, <2>2 DEF FlushVariants, RunAt, Running, Ended
    <3> QED
      BY <2>1, <2>2, <3>1 DEF FlushVariants
  <2>3. ASSUME NEW q \in Runs, JudgeVariants(q) PROVE kid'[v].seen >= 2 * r
    BY <2>1, <2>3 DEF JudgeVariants, TypeOK, RowsOK, VariantRows
  <2> QED
    BY <2>1, <2>2, <2>3, KidFrame
<1> DEFINE Marked(r) ==
      /\ \A p \in InFeed(run'[r].feed) \ run'[r].todo : p \in late' \/ row'[p].seen >= 2 * r
      /\ \A v \in run'[r].kids :
           ParentOf[v] \notin run'[r].todo \cup run'[r].batch => kid'[v].seen >= 2 * r
<1>5. ASSUME NEW r \in Runs, run[r].pc \in Stamping, run'[r].feed = run[r].feed, run'[r].kids = run[r].kids,
             run'[r].todo = run[r].todo, run'[r].batch = run[r].batch
      PROVE  Marked(r)
  BY <1>2, <1>4, <1>5
<1>6. ASSUME NEW r \in Runs, Reads(r) PROVE Marked(r)
  BY <1>6 DEF Reads, Known, KidsOf
<1>7. ASSUME NEW r \in Runs, Writes(r) PROVE Marked(r)
  <2>1. PICK B \in Batches(r) : /\ FlushProducts(r, B)
                                /\ run'[r].todo = run[r].todo \ B /\ run'[r].batch = B
    BY <1>7 DEF Writes
  <2>2. /\ run[r].pc \in Stamping /\ run[r].batch = {} /\ B \subseteq run[r].todo
        /\ run'[r].feed = run[r].feed /\ run'[r].kids = run[r].kids
    BY <1>7, <2>1 DEF Writes, Progress, Batches
  <2>3. ASSUME NEW p \in InFeed(run'[r].feed) \ run'[r].todo
        PROVE  p \in late' \/ row'[p].seen >= 2 * r
    <3>1. CASE p \in B
      <4>1. p \in Products /\ r \in Nat
        BY <1>1, <2>2 DEF InFeed
      <4>2. row'[p].seen = 2 * r
        BY <2>1, <3>1, <4>1 DEF FlushProducts
      <4> QED
        BY <4>1, <4>2
    <3>2. CASE p \notin B
      BY <1>2, <2>1, <2>2, <2>3, <3>2
    <3> QED
      BY <3>1, <3>2
  <2>4. ASSUME NEW v \in run'[r].kids, ParentOf[v] \notin run'[r].todo \cup run'[r].batch
        PROVE  kid'[v].seen >= 2 * r
    BY <1>4, <2>1, <2>2, <2>4
  <2> QED
    BY <2>3, <2>4
<1>8. ASSUME NEW r \in Runs, Completes(r) PROVE Marked(r)
  <2>1. /\ run[r].pc \in Stamping /\ r \in Nat
        /\ run'[r].feed = run[r].feed /\ run'[r].kids = run[r].kids
        /\ run'[r].todo = run[r].todo
    BY <1>1, <1>8 DEF Completes
  <2>2. ASSUME NEW v \in run'[r].kids, ParentOf[v] \notin run'[r].todo \cup run'[r].batch
        PROVE  kid'[v].seen >= 2 * r
    <3>1. CASE ParentOf[v] \in run[r].batch
      <4>1. v \in Variants
        BY <2>1, <2>2 DEF TypeOK, RunsOK, RunRecords
      <4>2. kid'[v] = [state |-> "live", seen |-> 2 * r]
        BY <1>8, <2>1, <2>2, <3>1, <4>1 DEF Completes, FlushVariants
      <4> QED
        BY <2>1, <4>2
    <3>2. CASE ParentOf[v] \notin run[r].batch
      BY <1>4, <2>1, <2>2, <3>2
    <3> QED
      BY <3>1, <3>2
  <2> QED
    BY <1>2, <2>1, <2>2
<1>9. ASSUME NEW r \in Runs, Steps(r), run'[r].pc \in Stamping PROVE Marked(r)
  BY <1>5, <1>6, <1>7, <1>8, <1>9 DEF Steps, Moves, Takes, Stops, Ended
<1>10. ASSUME NEW r \in Runs, run'[r] = run[r], run'[r].pc \in Stamping PROVE Marked(r)
  BY <1>5, <1>10
<1>11. \A r \in Runs : run'[r].pc \in Stamping => Marked(r)
  BY <1>9, <1>10, RunSteps
<1> QED
  BY <1>11 DEF Stamped

\* What a judgement marks was not in the result, so it is not in the shop.
LEMMA GoneStep ==
  ASSUME TypeOK, Known, Progress, Exported, Covered, Stamped, DeletedMeansGone, [Next]_vars
  PROVE  DeletedMeansGone'
<1>1. ASSUME NEW p \in Products, row'[p].state = "deleted" PROVE p \notin live' \/ p \in late'
  <2>1. CASE row[p].state = "deleted"
    <3>1. p \notin live' \/ p \in late
      BY <2>1, NewHasNoRow DEF DeletedMeansGone
    <3>2. ASSUME NEW s \in Slots, Commit(s) PROVE p \in late => p \in late'
      BY <1>1, <3>2 DEF Commit, TypeOK, RowsOK
    <3>3. ASSUME NEW r \in Runs, NEW B \in Batches(r), FlushProducts(r, B)
          PROVE  p \in late => p \in late'
      BY <1>1, <3>3 DEF FlushProducts
    <3> QED
      BY <3>1, <3>2, <3>3, LateFrame
  <2>2. CASE row[p].state # "deleted"
    <3>1. PICK r \in Runs : JudgeProducts(r)
      <4>1. ASSUME NEW s \in Slots, Commit(s) PROVE row'[p] = row[p] \/ row'[p].state = "live"
        BY <4>1 DEF Commit, TypeOK, RowsOK
      <4>2. ASSUME NEW r \in Runs, NEW B \in Batches(r), FlushProducts(r, B)
            PROVE  row'[p] = row[p] \/ row'[p].state = "live"
        BY <4>2 DEF FlushProducts
      <4> QED
        BY <1>1, <2>2, <4>1, <4>2, RowFrame
    <3>2. row[p].state = "live" /\ row[p].seen < 2 * r /\ row[p].seen \in Nat /\ r \in Nat
      <4>1. Unseen(r, row[p])
        BY <1>1, <2>2, <3>1 DEF JudgeProducts
      <4> QED
        BY <4>1 DEF Unseen, TypeOK, RowsOK, ProductRows, Runs
    <3>3. p \in late \/ p \notin InFeed(run[r].feed)
      BY <3>1, <3>2 DEF JudgeProducts, RunAt, Stamped
    <3>4. p \in late \/ p \notin live
      BY <3>1, <3>2, <3>3 DEF JudgeProducts, RunAt, Exported, Covered
    <3> QED
      BY <3>1, <3>4 DEF JudgeProducts, shopVars
  <2> QED
    BY <2>1, <2>2
<1>2. ASSUME NEW v \in Variants, kid'[v].state = "deleted" PROVE v \notin offered'
  <2>1. CASE kid[v].state = "deleted"
    BY <2>1, NewHasNoRow DEF DeletedMeansGone
  <2>2. CASE kid[v].state # "deleted"
    <3>1. PICK r \in Runs : JudgeVariants(r)
      <4>1. ASSUME NEW r \in Runs, FlushVariants(r) PROVE kid'[v] = kid[v] \/ kid'[v].state = "live"
        BY <4>1 DEF FlushVariants
      <4> QED
        BY <1>2, <2>2, <4>1, KidFrame
    <3>2. kid[v].state = "live" /\ kid[v].seen < 2 * r /\ kid[v].seen \in Nat /\ r \in Nat
      <4>1. Unseen(r, kid[v])
        BY <1>2, <2>2, <3>1 DEF JudgeVariants
      <4> QED
        BY <4>1 DEF Unseen, TypeOK, RowsOK, VariantRows, Runs
    <3>3. v \notin run[r].kids
      BY <3>1, <3>2 DEF JudgeVariants, RunAt, Stamped, Progress
    <3>4. v \notin offered
      BY <3>1, <3>2, <3>3 DEF JudgeVariants, RunAt, Exported, Covered
    <3> QED
      BY <3>1, <3>4 DEF JudgeVariants, shopVars
  <2> QED
    BY <2>1, <2>2
<1> QED
  BY <1>1, <1>2 DEF DeletedMeansGone

\* The invariant holds in the beginning.
LEMMA InitIInv == Init => IInv
<1> SUFFICES ASSUME Init PROVE IInv
  OBVIOUS
<1>1. TypeOK
  BY InitTyped
<1>2. Known
  BY DEF Init, Known, Named, InFeed, NoFeed, NoWork, KidsOf, Changes
<1>3. Alone /\ Held /\ Progress /\ Exported /\ Covered /\ Stamped /\ DeletedMeansGone
  BY DEF Init, Alone, Running, Held, Progress, Exported, Covered, Stamped, DeletedMeansGone, NoWork
<1> QED
  BY <1>1, <1>2, <1>3 DEF IInv

\* The invariant behind the marking of deleted rows.
THEOREM Invariance == SerialRuns /\ Spec => []IInv
<1> SUFFICES ASSUME SerialRuns PROVE Spec => []IInv
  OBVIOUS
<1>1. IInv /\ [Next]_vars => IInv'
  <2> SUFFICES ASSUME IInv, [Next]_vars PROVE IInv'
    OBVIOUS
  <2> USE DEF IInv
  <2>1. TypeOK'
    BY TypedStep
  <2>2. Known' /\ Held' /\ Progress'
    BY KnownStep, HeldStep, ProgressStep
  <2>3. Alone' /\ Exported'
    BY AloneStep, ExportedStep
  <2>4. Covered' /\ Stamped' /\ DeletedMeansGone'
    BY CoveredStep, StampedStep, GoneStep
  <2> QED
    BY <2>1, <2>2, <2>3, <2>4
<1> QED
  BY <1>1, InitIInv, PTL DEF Spec

\* When runs do not overlap, only what the shop no longer has is marked deleted,
\* with any number of products, executions and failed runs.
THEOREM DeletedAlwaysGone == SerialRuns /\ Spec => []DeletedMeansGone
<1>1. IInv => DeletedMeansGone
  BY DEF IInv
<1> QED
  BY <1>1, Invariance, PTL

-----------------------------------------------------------------------------
(* Why a run that gets to its end has healed every row, when runs do not   *)
(* overlap.  A row is stamped by the run that is under way, by a handler   *)
(* the run's history knows of, or earlier than the run began; the first    *)
(* kind agrees with the result, the last kind is marked.                   *)

\* What a run has written.
Mending    == {"write", "variants", "judge_variants", "finish"}
Written(r) == IF run[r].pc \in Mending THEN InFeed(run[r].feed) \ run[r].todo ELSE {}
WrittenKids(r) ==
  IF run[r].pc \in Mending
  THEN {v \in run[r].kids : ParentOf[v] \notin run[r].todo \cup run[r].batch} ELSE {}

\* No stamp is later than the start of the next run.
Dated ==
  /\ \A p \in Products : row[p].seen <= 2 * started + 1
  /\ \A v \in Variants : kid[v].seen <= 2 * started + 1
  /\ \A s \in Slots : stamp[s] <= 2 * started + 1

\* A batch is no longer to be done.
Parted == \A r \in Runs : run[r].batch \cap run[r].todo = {}

\* A product's row, unless a handler wrote it after the run, is stamped before the
\* run or shows what the run has written, and is not shown if the run judged it.
RowHealed(r, p) ==
  p \notin touched[r] =>
    IF p \in Written(r)
      THEN /\ row[p].state = "live" /\ row[p].version = run[r].feed[p]
           /\ row[p].seen >= 2 * r
      ELSE /\ row[p].seen < 2 * r
           /\ run[r].pc \in {"judge_variants", "finish"} => row[p].state # "live"

\* A variant's row likewise; no handler writes one.
KidHealed(r, v) ==
  IF v \in WrittenKids(r)
    THEN kid[v].state = "live"
    ELSE /\ kid[v].seen < 2 * r
         /\ run[r].pc = "finish" => kid[v].state # "live"

Healing ==
  \A r \in Runs : Running(r) =>
    (\A p \in Products : RowHealed(r, p)) /\ (\A v \in Variants : KidHealed(r, v))

\* Stamps are of the present.
LEMMA DatedStep ==
  ASSUME TypeOK, Dated, [Next]_vars
  PROVE  Dated'
<1>0. /\ started \in Nat /\ started' \in Nat /\ started <= started'
      /\ \A r \in Runs : r \in Nat /\ (run[r].pc # "waiting" => r <= started)
  <2>1. started \in Nat /\ \A r \in Runs : r \in Nat /\ (run[r].pc # "waiting" => r <= started)
    BY LimitsAssumption DEF TypeOK, RunsOK, Runs
  <2>2. \A r \in Runs : Begin(r) => started' = started + 1
    BY DEF Begin
  <2> QED
    BY <2>1, <2>2, StartFrame
<1> DEFINE D  == 2 * started + 1
           DD == 2 * started' + 1
<1>a. ASSUME NEW s \in Nat, NEW t \in Nat, s <= t
      PROVE  /\ 2 * s + 1 \in Nat /\ 2 * t + 1 \in Nat /\ 2 * s + 1 <= 2 * t + 1
             /\ \A r \in Nat : r <= s => 2 * r <= 2 * t + 1
  BY <1>a
<1>1. D \in Nat /\ DD \in Nat /\ D <= DD /\ \A r \in Runs : run[r].pc # "waiting" => 2 * r <= DD
  BY <1>0, <1>a
<1>2. /\ \A p \in Products : row[p].seen \in Nat /\ row[p].seen <= D
      /\ \A v \in Variants : kid[v].seen \in Nat /\ kid[v].seen <= D
      /\ \A s \in Slots : stamp[s] \in Nat /\ stamp[s] <= D
  BY DEF TypeOK, RowsOK, ExecsOK, ProductRows, VariantRows, Dated
<1> HIDE DEF D, DD
<1>3. \A p \in Products : row'[p].seen <= DD
  <2>1. ASSUME NEW s \in Slots, Commit(s) PROVE \A p \in Products : row'[p].seen <= DD
    BY <1>1, <1>2, <2>1 DEF Commit, TypeOK, RowsOK
  <2>2. ASSUME NEW r \in Runs, NEW B \in Batches(r), FlushProducts(r, B)
        PROVE  \A p \in Products : row'[p].seen <= DD
    <3>1. 2 * r <= DD
      BY <1>1, <2>2 DEF FlushProducts, RunAt
    <3> QED
      BY <1>1, <1>2, <2>2, <3>1 DEF FlushProducts
  <2>3. ASSUME NEW r \in Runs, JudgeProducts(r) PROVE \A p \in Products : row'[p].seen <= DD
    <3>1. \A p \in Products : row'[p].seen = row[p].seen
      BY <2>3 DEF JudgeProducts, TypeOK, RowsOK, ProductRows
    <3> QED
      BY <1>1, <1>2, <3>1
  <2>4. CASE UNCHANGED row
    BY <1>1, <1>2, <2>4
  <2> QED
    BY <2>1, <2>2, <2>3, <2>4, RowFrame
<1>4. \A v \in Variants : kid'[v].seen <= DD
  <2>1. ASSUME NEW r \in Runs, FlushVariants(r) PROVE \A v \in Variants : kid'[v].seen <= DD
    <3>1. 2 * r <= DD
      BY <1>1, <2>1 DEF FlushVariants, RunAt
    <3> QED
      BY <1>1, <1>2, <2>1, <3>1 DEF FlushVariants
  <2>2. ASSUME NEW r \in Runs, JudgeVariants(r) PROVE \A v \in Variants : kid'[v].seen <= DD
    <3>1. \A v \in Variants : kid'[v].seen = kid[v].seen
      BY <2>2 DEF JudgeVariants, TypeOK, RowsOK, VariantRows
    <3> QED
      BY <1>1, <1>2, <3>1
  <2>3. CASE UNCHANGED kid
    BY <1>1, <1>2, <2>3
  <2> QED
    BY <2>1, <2>2, <2>3, KidFrame
<1>5. \A s \in Slots : stamp'[s] <= DD
  <2>0. 0 <= DD /\ 2 * started + 1 <= DD
    BY <1>1 DEF D
  <2>1. ASSUME NEW s \in Slots, TakeStamp(s) PROVE \A e \in Slots : stamp'[e] <= DD
    BY <1>1, <1>2, <2>0, <2>1 DEF TakeStamp, TypeOK, ExecsOK
  <2>2. ASSUME NEW s \in Slots, Leave(s) PROVE \A e \in Slots : stamp'[e] <= DD
    BY <1>1, <1>2, <2>0, <2>2 DEF Leave, TypeOK, ExecsOK
  <2>3. CASE UNCHANGED stamp
    BY <1>1, <1>2, <2>3
  <2> QED
    BY <2>1, <2>2, <2>3, ExecFrame DEF Start, ReadProduct, RecordNoop, UpdateRow, Commit, Abandon, execVars
<1> QED
  BY <1>3, <1>4, <1>5 DEF Dated, DD

\* A batch is taken off what is to be done.
LEMMA PartedStep ==
  ASSUME TypeOK, Progress, Parted, [Next]_vars
  PROVE  Parted'
<1>1. ASSUME NEW r \in Runs, Steps(r) PROVE run'[r].batch \cap run'[r].todo = {}
  <2>1. CASE Reads(r)
    BY <2>1 DEF Reads, Progress
  <2>2. CASE Writes(r)
    BY <2>2 DEF Writes
  <2>3. CASE Completes(r)
    BY <2>3 DEF Completes
  <2>4. CASE Stops(r)
    BY <2>4 DEF Stops
  <2> QED
    BY <1>1, <2>1, <2>2, <2>3, <2>4 DEF Steps, Moves, Takes, Parted
<1> QED
  BY <1>1, RunSteps DEF Parted

\* Only a batch, a commit and an end change what a run knows to be touched.
LEMMA TouchedFrame ==
  ASSUME SerialRuns, TypeOK, Alone, [Next]_vars, NEW r \in Runs, Running(r), Running(r)'
  PROVE  \/ touched'[r] = touched[r]
         \/ \E B \in Batches(r) : FlushProducts(r, B)
         \/ \E s \in Slots : Commit(s)
<1>1. ASSUME NEW q \in Runs, NEW l \in Ended, End(q, l) PROVE touched'[r] = touched[r]
  <2>1. q # r
    BY <1>1, Ending DEF Running, TypeOK, RunsOK
  <2> QED
    BY <1>1, <2>1 DEF End, TypeOK, RunsOK
<1>2. ASSUME NEW q \in Runs, NEW B \in Batches(q), FlushProducts(q, B) PROVE q = r
  BY <1>2 DEF FlushProducts, RunAt, Running, Ended, Alone
<1>3. ASSUME NEW q \in Runs,
             SubmitOp(q) \/ PollOp(q) \/ PollTimesOut(q) \/ Finish(q) \/ RunStops(q)
      PROVE  touched'[r] = touched[r]
  BY <1>1, <1>3, Zenon DEF SubmitOp, PollOp, PollTimesOut, Finish, RunStops, Ended
<1>4. ASSUME NEW q \in Runs,
             Begin(q) \/ CheckCurrent(q) \/ CancelOp(q) \/ ReadSnapshot(q) \/ FlushVariants(q)
             \/ JudgeProducts(q) \/ JudgeVariants(q)
      PROVE  touched'[r] = touched[r]
  BY <1>4, Zenon DEF Begin, CheckCurrent, CancelOp, ReadSnapshot, FlushVariants, JudgeProducts,
      JudgeVariants
<1> QED
  BY <1>2, <1>3, <1>4, SyncFrame DEF syncVars

\* What a step does to the products' side of a run that is under way: it leaves a
\* row alone, a handler commits it, the run writes it, or the run judges it.
LEMMA RowSteps ==
  ASSUME SerialRuns, TypeOK, Alone, Progress, [Next]_vars,
         NEW r \in Runs, Running(r), Running(r)', NEW p \in Products
  PROVE  \/ /\ row'[p] = row[p] /\ (p \in touched'[r] <=> p \in touched[r])
            /\ p \in Written(r)' <=> p \in Written(r)
            /\ p \in Written(r)' => run'[r].feed = run[r].feed
            /\ run'[r].pc \in {"judge_variants", "finish"} => run[r].pc \in {"judge_variants", "finish"}
         \/ p \in touched'[r]
         \/ /\ row'[p] = [state |-> "live", version |-> run'[r].feed[p], seen |-> 2 * r]
            /\ p \in Written(r)' /\ run'[r].pc = "variants"
         \/ /\ JudgeProducts(r) /\ touched'[r] = touched[r]
            /\ p \in Written(r)' <=> p \in Written(r)
            /\ run[r].pc = "write" /\ run'[r].feed = run[r].feed
<1>0. /\ \A q \in Runs : Running(q) => q = r
      /\ run \in [Runs -> RunRecords] /\ touched \in [Runs -> SUBSET Products]
  BY DEF Alone, TypeOK, RunsOK
<1>1. CASE \E s \in Slots : Commit(s)
  <2>1. PICK s \in Slots : Commit(s)
    BY <1>1
  <2>2. run' = run /\ touched'[r] = touched[r] \cup {subject[hook[s]]}
    BY <2>1 DEF Commit
  <2>3. row'[p] = row[p] \/ p = subject[hook[s]]
    BY <2>1 DEF Commit, TypeOK, RowsOK
  <2> QED
    BY <2>2, <2>3 DEF Written
<1>2. CASE \E q \in Runs : \E B \in Batches(q) : FlushProducts(q, B)
  <2>1. PICK q \in Runs : \E B \in Batches(q) : FlushProducts(q, B)
    BY <1>2
  <2>2. q = r
    BY <1>0, <2>1 DEF FlushProducts, RunAt, Running, Ended
  <2>3. PICK B \in Batches(r) : FlushProducts(r, B)
    BY <2>1, <2>2
  <2> DEFINE w == [run[r] EXCEPT !.pc = "variants", !.todo = @ \ B, !.batch = B]
  <2>4. run[r] \in RunRecords /\ B \subseteq run[r].todo
    BY <1>0 DEF Batches
  <2>5. /\ w \in RunRecords /\ w.pc = "variants" /\ w.feed = run[r].feed
        /\ w.todo = run[r].todo \ B
    BY <2>4 DEF RunRecords, RunPlaces
  <2>6. run'[r] = w /\ run[r].pc = "write"
    BY <1>0, <2>3, <2>5, Becoming DEF FlushProducts, RunAt
  <2>7. touched'[r] = touched[r] \ B
    BY <1>0, <2>3 DEF FlushProducts
  <2>8. /\ p \in B => row'[p] = [state |-> "live", version |-> run[r].feed[p], seen |-> 2 * r]
        /\ p \notin B => row'[p] = row[p]
    BY <2>3 DEF FlushProducts
  <2>9. B \subseteq InFeed(run[r].feed)
    BY <2>4 DEF Progress
  <2> HIDE DEF w
  <2> QED
    BY <2>5, <2>6, <2>7, <2>8, <2>9 DEF Written, Mending
<1>3. CASE \E q \in Runs : JudgeProducts(q)
  <2>1. PICK q \in Runs : JudgeProducts(q)
    BY <1>3
  <2>2. q = r
    BY <1>0, <2>1 DEF JudgeProducts, RunAt, Running, Ended
  <2>3. /\ run[r].pc = "write" /\ RunGoto(r, "judge_variants") /\ touched' = touched
    BY <2>1, <2>2 DEF JudgeProducts, RunAt
  <2>4. /\ run'[r].pc = "judge_variants" /\ run'[r].feed = run[r].feed /\ run'[r].todo = run[r].todo
    BY <1>0, <2>3, Going DEF RunPlaces
  <2> QED
    BY <2>1, <2>2, <2>3, <2>4 DEF Written, Mending
<1>4. CASE /\ ~\E s \in Slots : Commit(s)
           /\ ~\E q \in Runs : \E B \in Batches(q) : FlushProducts(q, B)
           /\ ~\E q \in Runs : JudgeProducts(q)
  <2>1. row' = row /\ touched'[r] = touched[r]
    BY <1>4, RowFrame, TouchedFrame
  <2>2. \/ run'[r] = run[r]
        \/ \E l, m \in RunPlaces : Moves(r, l, m) /\ <<l, m>> \in
             {<<"check", "cancel">>, <<"check", "submit">>, <<"cancel", "submit">>,
              <<"submit", "poll">>, <<"judge_variants", "finish">>}
        \/ Takes(r) \/ Reads(r) \/ Completes(r)
    <3>1. ~Stops(r) /\ ~Moves(r, "waiting", "check")
      BY DEF Stops, Moves, Running
    <3>2. ~Writes(r) /\ ~JudgeProducts(r)
      BY <1>4 DEF Writes
    <3> QED
      BY <3>1, <3>2, RunSteps DEF Steps, RunPlaces
  <2>3. CASE run'[r] = run[r]
    BY <2>1, <2>3 DEF Written
  <2>4. ASSUME NEW l \in RunPlaces, NEW m \in RunPlaces, Moves(r, l, m),
               l \in Mending <=> m \in Mending,
               m \in {"judge_variants", "finish"} => l \in {"judge_variants", "finish"}
        PROVE  /\ p \in Written(r)' <=> p \in Written(r)
               /\ p \in Written(r)' => run'[r].feed = run[r].feed
               /\ run'[r].pc \in {"judge_variants", "finish"} => run[r].pc \in {"judge_variants", "finish"}
    BY <2>4 DEF Written, Moves
  <2>5. CASE Takes(r)
    BY <2>1, <2>5 DEF Written, Mending, Takes
  <2>6. CASE Reads(r)
    BY <2>1, <2>6 DEF Written, Mending, Reads
  <2>7. CASE Completes(r)
    BY <2>1, <2>7 DEF Written, Mending, Completes
  <2> QED
    BY <2>1, <2>2, <2>3, <2>4, <2>5, <2>6, <2>7 DEF Mending
<1> QED
  BY <1>1, <1>2, <1>3, <1>4

\* What a step does to the variants' side of such a run.
LEMMA KidSteps ==
  ASSUME SerialRuns, TypeOK, Alone, Known, Progress, Parted, [Next]_vars,
         NEW r \in Runs, Running(r), Running(r)', NEW v \in Variants
  PROVE  \/ /\ kid'[v] = kid[v]
            /\ v \in WrittenKids(r)' <=> v \in WrittenKids(r)
            /\ run'[r].pc = "finish" => run[r].pc = "finish"
         \/ /\ kid'[v] = [state |-> "live", seen |-> 2 * r]
            /\ v \in WrittenKids(r)' /\ run'[r].pc = "write"
         \/ /\ JudgeVariants(r)
            /\ v \in WrittenKids(r)' <=> v \in WrittenKids(r)
<1>0. /\ \A q \in Runs : Running(q) => q = r
      /\ run \in [Runs -> RunRecords]
  BY DEF Alone, TypeOK, RunsOK
<1>1. CASE \E q \in Runs : FlushVariants(q)
  <2>1. PICK q \in Runs : FlushVariants(q)
    BY <1>1
  <2>2. q = r
    BY <1>0, <2>1 DEF FlushVariants, RunAt, Running, Ended
  <2> DEFINE w == [run[r] EXCEPT !.pc = "write", !.batch = {}]
  <2>3. run[r] \in RunRecords
    BY <1>0
  <2>4. /\ w \in RunRecords /\ w.pc = "write" /\ w.kids = run[r].kids /\ w.todo = run[r].todo
        /\ w.batch = {}
    BY <2>3 DEF RunRecords, RunPlaces
  <2>5. run'[r] = w /\ run[r].pc = "variants"
    BY <1>0, <2>1, <2>2, <2>4, Becoming DEF FlushVariants, RunAt
  <2>6. /\ v \in run[r].kids /\ ParentOf[v] \in run[r].batch =>
             kid'[v] = [state |-> "live", seen |-> 2 * r]
        /\ ~(v \in run[r].kids /\ ParentOf[v] \in run[r].batch) => kid'[v] = kid[v]
    BY <2>1, <2>2 DEF FlushVariants
  <2>7. run[r].batch \cap run[r].todo = {}
    BY DEF Parted
  <2> HIDE DEF w
  <2> QED
    BY <2>4, <2>5, <2>6, <2>7 DEF WrittenKids, Mending
<1>2. CASE \E q \in Runs : JudgeVariants(q)
  <2>1. PICK q \in Runs : JudgeVariants(q)
    BY <1>2
  <2>2. q = r
    BY <1>0, <2>1 DEF JudgeVariants, RunAt, Running, Ended
  <2>3. run[r].pc = "judge_variants" /\ RunGoto(r, "finish")
    BY <2>1, <2>2 DEF JudgeVariants, RunAt
  <2>4. /\ run'[r].pc = "finish" /\ run'[r].kids = run[r].kids
        /\ run'[r].todo = run[r].todo /\ run'[r].batch = run[r].batch
    BY <1>0, <2>3, Going DEF RunPlaces
  <2> QED
    BY <2>1, <2>2, <2>3, <2>4 DEF WrittenKids, Mending
<1>3. CASE ~(\E q \in Runs : FlushVariants(q)) /\ ~(\E q \in Runs : JudgeVariants(q))
  <2>1. kid' = kid
    BY <1>3, KidFrame
  <2>2. \/ run'[r] = run[r]
        \/ \E l, m \in RunPlaces : Moves(r, l, m) /\ <<l, m>> \in
             {<<"check", "cancel">>, <<"check", "submit">>, <<"cancel", "submit">>,
              <<"submit", "poll">>, <<"write", "judge_variants">>}
        \/ Takes(r) \/ Reads(r) \/ Writes(r)
    <3>1. ~Stops(r) /\ ~Moves(r, "waiting", "check")
      BY DEF Stops, Moves, Running
    <3>2. ~Completes(r) /\ ~JudgeVariants(r)
      BY <1>3 DEF Completes
    <3> QED
      BY <3>1, <3>2, RunSteps DEF Steps, RunPlaces
  <2>3. CASE run'[r] = run[r]
    BY <2>1, <2>3 DEF WrittenKids
  <2>4. ASSUME NEW l \in RunPlaces, NEW m \in RunPlaces, Moves(r, l, m),
               l \in Mending <=> m \in Mending, m # "finish"
        PROVE  v \in WrittenKids(r)' <=> v \in WrittenKids(r)
    BY <2>4 DEF WrittenKids, Moves
  <2>5. CASE Takes(r)
    BY <2>1, <2>5 DEF WrittenKids, Mending, Takes
  <2>6. CASE Reads(r)
    <3>1. v \notin WrittenKids(r)
      BY <2>6 DEF WrittenKids, Mending, Reads
    <3>2. v \in run'[r].kids => ParentOf[v] \in run'[r].todo
      BY <2>6 DEF Reads, Known, KidsOf
    <3> QED
      BY <2>1, <2>6, <3>1, <3>2 DEF WrittenKids, Reads
  <2>7. CASE Writes(r)
    <3>1. PICK B \in Batches(r) : run'[r].todo = run[r].todo \ B /\ run'[r].batch = B
      BY <2>7 DEF Writes
    <3>2. B \subseteq run[r].todo /\ run[r].batch = {}
      BY <2>7 DEF Batches, Writes, Progress
    <3> QED
      BY <2>1, <2>7, <3>1, <3>2 DEF WrittenKids, Mending, Writes
  <2> QED
    BY <2>1, <2>2, <2>3, <2>4, <2>5, <2>6, <2>7 DEF Mending, Moves
<1> QED
  BY <1>1, <1>2, <1>3

\* A run begins later than everything that is stamped.
LEMMA BeginHeals ==
  ASSUME TypeOK, Dated, NEW r \in Runs, Begin(r)
  PROVE  (\A p \in Products : RowHealed(r, p)') /\ (\A v \in Variants : KidHealed(r, v)')
<1>0. /\ run'[r].pc = "check" /\ row' = row /\ kid' = kid
      /\ r = started + 1 /\ started \in Nat
  BY Going, LimitsAssumption DEF Begin, dbVars, RunPlaces, TypeOK, RunsOK
<1>a. ASSUME NEW s \in Nat, NEW n \in Nat, n <= 2 * s + 1 PROVE n < 2 * (s + 1)
  BY <1>a
<1>1. ASSUME NEW p \in Products PROVE row[p].seen < 2 * r
  <2>1. row[p].seen \in Nat /\ row[p].seen <= 2 * started + 1
    BY DEF TypeOK, RowsOK, ProductRows, Dated
  <2> QED
    BY <1>0, <1>a, <2>1
<1>2. ASSUME NEW v \in Variants PROVE kid[v].seen < 2 * r
  <2>1. kid[v].seen \in Nat /\ kid[v].seen <= 2 * started + 1
    BY DEF TypeOK, RowsOK, VariantRows, Dated
  <2> QED
    BY <1>0, <1>a, <2>1
<1> QED
  BY <1>0, <1>1, <1>2 DEF RowHealed, KidHealed, Written, WrittenKids, Mending

\* A run that is under way was, or begins.
LEMMA UnderWay ==
  ASSUME TypeOK, [Next]_vars, NEW r \in Runs, Running(r)', ~Running(r)
  PROVE  Begin(r)
<1>1. run'[r].pc # run[r].pc /\ run'[r].pc \notin Ended
  BY DEF Running
<1>2. Steps(r)
  BY <1>1, RunSteps
<1> QED
  BY <1>1, <1>2 DEF Steps, Moves, Takes, Reads, Writes, Completes, Stops, Running, Ended

\* A judgement leaves what the run stamped and marks what it did not.
LEMMA RowHeals ==
  ASSUME SerialRuns, IInv, Dated, Healing, [Next]_vars, NEW r \in Runs, Running(r)', NEW p \in Products
  PROVE  RowHealed(r, p)'
<1> USE DEF IInv
<1>1. CASE ~Running(r)
  BY <1>1, UnderWay, BeginHeals
<1>2. CASE Running(r)
  <2>0. RowHealed(r, p)
    BY <1>2 DEF Healing
  <2>1. CASE /\ row'[p] = row[p] /\ (p \in touched'[r] <=> p \in touched[r])
             /\ p \in Written(r)' <=> p \in Written(r)
             /\ p \in Written(r)' => run'[r].feed = run[r].feed
             /\ run'[r].pc \in {"judge_variants", "finish"} => run[r].pc \in {"judge_variants", "finish"}
    BY <2>0, <2>1 DEF RowHealed
  <2>2. CASE p \in touched'[r]
    BY <2>2 DEF RowHealed
  <2>3. CASE /\ row'[p] = [state |-> "live", version |-> run'[r].feed[p], seen |-> 2 * r]
             /\ p \in Written(r)' /\ run'[r].pc = "variants"
    <3>1. 2 * r \in Nat /\ row'[p].seen = 2 * r
      BY <2>3 DEF Runs
    <3> QED
      BY <2>3, <3>1 DEF RowHealed
  <2>4. CASE /\ JudgeProducts(r) /\ touched'[r] = touched[r]
             /\ p \in Written(r)' <=> p \in Written(r)
             /\ run[r].pc = "write" /\ run'[r].feed = run[r].feed
    <3>1. /\ row[p] \in ProductRows /\ r \in Nat
          /\ row'[p] = IF Unseen(r, row[p]) THEN [row[p] EXCEPT !.state = "deleted"] ELSE row[p]
      BY <2>4 DEF JudgeProducts, TypeOK, RowsOK, Runs
    <3>2. CASE p \in Written(r) /\ p \notin touched[r]
      <4>1. row[p].seen >= 2 * r
        BY <2>0, <3>2 DEF RowHealed
      <4>2. row'[p] = row[p]
        BY <3>1, <4>1 DEF Unseen, ProductRows
      <4> QED
        BY <2>0, <2>4, <3>2, <4>2 DEF RowHealed
    <3>4. CASE p \in touched[r]
      BY <2>4, <3>4 DEF RowHealed
    <3>3. CASE p \notin Written(r)
      <4>1. row'[p].seen = row[p].seen /\ (row[p].seen < 2 * r => row'[p].state # "live")
        BY <3>1 DEF Unseen, ProductRows
      <4> QED
        BY <2>0, <2>4, <3>3, <4>1 DEF RowHealed
    <3> QED
      BY <3>2, <3>3, <3>4
  <2> QED
    BY <1>2, <2>1, <2>2, <2>3, <2>4, RowSteps
<1> QED
  BY <1>1, <1>2

LEMMA KidHeals ==
  ASSUME SerialRuns, IInv, Dated, Parted, Healing, [Next]_vars,
         NEW r \in Runs, Running(r)', NEW v \in Variants
  PROVE  KidHealed(r, v)'
<1> USE DEF IInv
<1>1. CASE ~Running(r)
  BY <1>1, UnderWay, BeginHeals
<1>2. CASE Running(r)
  <2>0. KidHealed(r, v)
    BY <1>2 DEF Healing
  <2>1. CASE /\ kid'[v] = kid[v]
             /\ v \in WrittenKids(r)' <=> v \in WrittenKids(r)
             /\ run'[r].pc = "finish" => run[r].pc = "finish"
    BY <2>0, <2>1 DEF KidHealed
  <2>2. CASE /\ kid'[v] = [state |-> "live", seen |-> 2 * r]
             /\ v \in WrittenKids(r)' /\ run'[r].pc = "write"
    BY <2>2 DEF KidHealed
  <2>3. CASE JudgeVariants(r) /\ (v \in WrittenKids(r)' <=> v \in WrittenKids(r))
    <3>1. /\ kid[v] \in VariantRows /\ r \in Nat /\ run[r].pc = "judge_variants"
          /\ kid'[v] = IF Unseen(r, kid[v]) THEN [kid[v] EXCEPT !.state = "deleted"] ELSE kid[v]
      BY <2>3 DEF JudgeVariants, RunAt, TypeOK, RowsOK, Runs
    <3>2. CASE v \in WrittenKids(r)
      <4>1. kid[v].seen >= 2 * r
        BY <3>1, <3>2 DEF Stamped, WrittenKids, Mending
      <4>2. kid'[v] = kid[v]
        BY <3>1, <4>1 DEF Unseen, VariantRows
      <4> QED
        BY <2>0, <2>3, <3>2, <4>2 DEF KidHealed
    <3>3. CASE v \notin WrittenKids(r)
      <4>1. kid'[v].seen = kid[v].seen /\ (kid[v].seen < 2 * r => kid'[v].state # "live")
        BY <3>1 DEF Unseen, VariantRows
      <4> QED
        BY <2>0, <2>3, <3>3, <4>1 DEF KidHealed
    <3> QED
      BY <3>2, <3>3
  <2> QED
    BY <1>2, <2>1, <2>2, <2>3, KidSteps
<1> QED
  BY <1>1, <1>2

\* At the end everything of the result is written and nothing else is shown.
LEMMA FinishHeals == IInv /\ Healing => SyncHeals
<1> SUFFICES ASSUME IInv, Healing, NEW r \in Runs,
                    run[r].pc = "finish", run[r].feed = ShopFeed, run[r].kids = offered
             PROVE  /\ \A p \in Products \ touched[r] :
                         IF p \in live THEN row[p].state = "live" /\ row[p].version = version[p]
                                       ELSE row[p].state # "live"
                    /\ \A v \in Variants : v \in offered <=> kid[v].state = "live"
  BY DEF SyncHeals, RunAt
<1>1. Running(r) /\ run[r].todo = {} /\ run[r].batch = {}
  BY DEF Running, Ended, IInv, Progress
<1>2. Written(r) = InFeed(run[r].feed) /\ WrittenKids(r) = {v \in Variants : v \in offered}
  BY <1>1 DEF Written, WrittenKids, Mending, IInv, TypeOK, ShopOK, KidsOf
<1>3. ASSUME NEW p \in Products PROVE p \in live <=> p \in Written(r)
  BY <1>2 DEF InFeed, ShopFeed, IInv, Known, Named
<1>4. ASSUME NEW p \in live, p \in Products PROVE run[r].feed[p] = version[p]
  BY <1>4 DEF ShopFeed
<1>5. ASSUME NEW p \in Products \ touched[r]
      PROVE  IF p \in live THEN row[p].state = "live" /\ row[p].version = version[p]
                           ELSE row[p].state # "live"
  BY <1>1, <1>3, <1>4 DEF Healing, RowHealed
<1>6. ASSUME NEW v \in Variants PROVE v \in offered <=> kid[v].state = "live"
  BY <1>1, <1>2 DEF Healing, KidHealed
<1> QED
  BY <1>5, <1>6

\* When runs do not overlap, one that gets to its end has healed every row of an
\* unchanged shop, whatever webhooks, lost runs and crashes left there before.
THEOREM SyncAlwaysHeals == SerialRuns /\ Spec => []SyncHeals
<1> SUFFICES ASSUME SerialRuns PROVE Spec => []SyncHeals
  OBVIOUS
<1> DEFINE HInv == IInv /\ Dated /\ Parted /\ Healing
<1>1. Init => HInv
  <2> SUFFICES ASSUME Init PROVE Dated /\ Parted /\ Healing
    BY InitIInv
  <2>1. Parted /\ Healing
    BY DEF Init, Parted, Healing, Running, NoWork
  <2>2. Dated
    BY DEF Init, Dated
  <2> QED
    BY <2>1, <2>2
<1>2. IInv /\ IInv' /\ HInv /\ [Next]_vars => HInv'
  <2> SUFFICES ASSUME IInv, IInv', Dated, Parted, Healing, [Next]_vars PROVE Dated' /\ Parted' /\ Healing'
    OBVIOUS
  <2>1. Dated' /\ Parted'
    BY DatedStep, PartedStep DEF IInv
  <2>2. Healing'
    BY RowHeals, KidHeals DEF Healing
  <2> QED
    BY <2>1, <2>2
<1>3. HInv => SyncHeals
  BY FinishHeals
<1> QED
  BY <1>1, <1>2, <1>3, Invariance, PTL DEF Spec

-----------------------------------------------------------------------------
(* The handlers and the runs implement the mirror.                         *)

\* A number that stands for a state of p stands for a change p went through.
Real(p, n) == n # 0 => n \in Changes /\ n <= changes /\ subject[n] = p

\* So does every number the shop, the rows and the results hold.
Genuine ==
  \A p \in Products :
    /\ Real(p, version[p]) /\ Real(p, row[p].version) /\ Real(p, op.feed[p])
    /\ \A r \in Runs : Real(p, run[r].feed[p])

\* Changes are never undone, and copies are of real ones.
LEMMA GenuineStep ==
  ASSUME TypeOK, Genuine, [Next]_vars
  PROVE  Genuine'
<1>0. ASSUME NEW p \in Products, NEW n, Real(p, n)
      PROVE  n # 0 => n \in Changes /\ n <= changes' /\ subject'[n] = p
  BY <1>0, Monotone, LimitsAssumption DEF Real, TypeOK, Changes
<1>1. ASSUME NEW p \in Products PROVE Real(p, version[p])'
  <2>1. ASSUME NEW q \in Products, Change(q) PROVE Real(p, version[p])'
    <3>1. changes' \in Changes /\ changes' = changes + 1 /\ changes \in Nat
      BY <2>1, LimitsAssumption DEF Change, TypeOK, ShopOK, Changes
    <3>2. CASE p = q
      BY <2>1, <3>1, <3>2 DEF Change, Real, TypeOK, ShopOK
    <3>3. CASE p # q
      <4>1. version'[p] = version[p] /\ Real(p, version[p])
        BY <2>1, <3>3 DEF Change, TypeOK, ShopOK, Genuine
      <4> QED
        BY <1>0, <4>1 DEF Real
    <3> QED
      BY <3>2, <3>3
  <2>2. CASE UNCHANGED <<version, changes, subject>>
    BY <2>2 DEF Genuine, Real
  <2> QED
    BY <2>1, <2>2, ShopFrame DEF Create, Edit, Delete, shopVars
<1>2. ASSUME NEW p \in Products PROVE Real(p, row[p].version)'
  <2>1. ASSUME NEW s \in Slots, Commit(s) PROVE Real(p, row'[p].version)
    <3>1. Real(subject[hook[s]], hook[s]) /\ Real(p, row[p].version)
      BY <2>1, HookFacts DEF Commit, At, Real, TypeOK, Genuine
    <3> QED
      BY <2>1, <3>1 DEF Commit, TypeOK, RowsOK
  <2>2. ASSUME NEW r \in Runs, NEW B \in Batches(r), FlushProducts(r, B) PROVE Real(p, row'[p].version)
    BY <2>2 DEF FlushProducts, Genuine
  <2>3. ASSUME NEW r \in Runs, JudgeProducts(r) PROVE Real(p, row'[p].version)
    <3>1. row'[p].version = row[p].version
      BY <2>3 DEF JudgeProducts, TypeOK, RowsOK, ProductRows
    <3> QED
      BY <3>1 DEF Genuine
  <2>4. Real(p, row'[p].version)
    BY <2>1, <2>2, <2>3, RowFrame DEF Genuine
  <2> QED
    BY <1>0, <2>4 DEF Real
<1>3. ASSUME NEW p \in Products PROVE Real(p, op.feed[p])'
  <2>1. CASE OpEnds
    <3>1. op'.feed = op.feed \/ op'.feed = ShopFeed
      BY <2>1 DEF OpEnds, TypeOK, Operations
    <3>2. op'.feed[p] \in {op.feed[p], version[p], 0}
      BY <3>1 DEF ShopFeed
    <3> QED
      BY <1>0, <3>2 DEF Real, Genuine
  <2>2. CASE \E r \in Runs : CancelOp(r)
    <3>1. op'.feed = op.feed
      BY <2>2 DEF CancelOp, TypeOK, Operations
    <3> QED
      BY <1>0, <3>1 DEF Real, Genuine
  <2>3. ASSUME NEW r \in Runs, SubmitOp(r) PROVE op'.feed[p] \in {op.feed[p], 0}
    BY <2>3 DEF SubmitOp, NoFeed
  <2> QED
    BY <1>0, <2>1, <2>2, <2>3, OpFrame DEF Real, Genuine
<1>4. ASSUME NEW p \in Products, NEW r \in Runs PROVE Real(p, run[r].feed[p])'
  <2>1. ASSUME Steps(r) PROVE run'[r].feed[p] \in {run[r].feed[p], op.feed[p], 0}
    BY <2>1 DEF Steps, Moves, Takes, Reads, Writes, Completes, Stops, NoFeed
  <2>2. run'[r].feed[p] \in {run[r].feed[p], op.feed[p], 0}
    BY <2>1, RunSteps
  <2> QED
    BY <1>0, <2>2 DEF Real, Genuine
<1> QED
  BY <1>1, <1>2, <1>3, <1>4 DEF Genuine

History == [p \in Products |-> {c \in Changes : subject[c] = p}]
Shown   == [p \in Products |-> row[p].version]
Hidden  == {p \in Products : row[p].state = "deleted"}
Told    == {c \in Changes : notified[c] > 0}

\* What the shop does is what the mirror expects of it.
LEMMA ShopRefines ==
  ASSUME TypeOK, Known, NEW p \in Products, Shop(p)
  PROVE  Mirror!Next
<1>1. UNCHANGED <<row, notified, late>>
  BY DEF Shop, Create, Edit, Delete, dbVars
<1>2. UNCHANGED <<Shown, Hidden, Told, late>>
  BY <1>1 DEF Shown, Hidden, Told
<1>3. ASSUME Change(p), live' = live \cup {p}, History[p] = {} \/ p \in live
      PROVE  Mirror!Next
  <2>1. PICK c \in Changes : c = changes' /\ c = changes + 1 /\ changes \in Nat
    BY <1>3, LimitsAssumption DEF Change, TypeOK, ShopOK, Changes
  <2>2. subject[c] \notin Products
    BY <2>1 DEF TypeOK, ShopOK
  <2>3. History' = [History EXCEPT ![p] = @ \cup {c}]
    <3>1. c \in Changes /\ subject' = [subject EXCEPT ![c] = p] /\ c \in DOMAIN subject
      BY <1>3, <2>1, LimitsAssumption DEF Change, Changes, TypeOK, ShopOK
    <3>2. \A d \in Changes : subject'[d] = IF d = c THEN p ELSE subject[d]
      BY <3>1 DEF TypeOK, ShopOK
    <3>3. \A q \in Products : {d \in Changes : subject'[d] = q} =
                                 IF q = p THEN {d \in Changes : subject[d] = q} \cup {c}
                                 ELSE {d \in Changes : subject[d] = q}
      BY <2>2, <3>1, <3>2
    <3>4. History' = [q \in Products |-> IF q = p THEN History[q] \cup {c} ELSE History[q]]
      BY <3>3, Zenon DEF History
    <3>5. History = [q \in Products |-> History[q]]
      BY DEF History
    <3>6. DOMAIN History = Products
      BY DEF History
    <3> QED BY <3>4, <3>5, <3>6
  <2>4. \A q \in Products : c \notin History[q]
    BY <2>2 DEF History
  <2>5. Mirror!Change(p, c)
    BY <1>2, <1>3, <2>3, <2>4 DEF Mirror!Change, History, Shown, Hidden, Told
  <2> QED
    BY <2>5 DEF Mirror!Next
<1>4. CASE Create(p)
  <2>1. History[p] = {}
    BY <1>4 DEF Create, Known, Named, History, TypeOK, ShopOK
  <2> QED
    BY <1>3, <1>4, <2>1 DEF Create
<1>5. CASE Edit(p)
  <2>1. live' = live \cup {p}
    BY <1>5 DEF Edit
  <2> QED
    BY <1>3, <1>5, <2>1 DEF Edit
<1>6. CASE Delete(p)
  <2>1. UNCHANGED History
    BY <1>6 DEF Delete, History
  <2> QED
    BY <1>2, <1>6, <2>1 DEF Delete, Mirror!Remove, Mirror!Next, History, Shown, Hidden, Told
<1> QED
  BY <1>4, <1>5, <1>6 DEF Shop

\* A commit shows a change of its product and announces it for the first time.
LEMMA CommitRefines ==
  ASSUME GuardEnabled, TypeOK, NotifiedOnce, NEW s \in Slots, Commit(s)
  PROVE  Mirror!Next
<1>0. PICK w \in Changes, p \in Products : w = hook[s] /\ p = subject[w]
  BY HookFacts DEF Commit, At, TypeOK
<1>1. w \notin processed /\ live' = live /\ subject' = subject
  BY <1>0 DEF Commit, shopVars
<1>2. /\ row' = [row EXCEPT ![p] = [state |-> "live", version |-> w, seen |-> stamp[s]]]
      /\ notified' = [notified EXCEPT ![w] = @ + 1]
  BY <1>0 DEF Commit
<1>3. w \in History[p] \ Told
  BY <1>0, <1>1 DEF History, Told, NotifiedOnce
<1>4. Shown' = [Shown EXCEPT ![p] = w] /\ Hidden' = Hidden \ {p}
  BY <1>1, <1>2 DEF Shown, Hidden, TypeOK, RowsOK
<1>5. Told' = Told \cup {w}
  BY <1>1, <1>2 DEF Told, TypeOK, RowsOK
<1>7. late' \in {late \cup {p}, late \ {p}}
  BY <1>0 DEF Commit
<1>6. Mirror!Announce(p, w)
  BY <1>1, <1>3, <1>4, <1>5, <1>7 DEF Mirror!Announce, History, Shown, Hidden, Told
<1> QED
  BY <1>6 DEF Mirror!Next

\* A batch shows states its products had when the result was made.
LEMMA FlushRefines ==
  ASSUME TypeOK, Genuine, Progress, NEW r \in Runs, NEW B \in Batches(r), FlushProducts(r, B)
  PROVE  Mirror!Next
<1>1. /\ B \in SUBSET Products /\ live' = live /\ subject' = subject /\ notified' = notified
      /\ \A p \in B : run[r].feed[p] # 0
  BY DEF FlushProducts, Batches, Progress, InFeed, shopVars
<1>2. row' = [p \in Products |->
               IF p \in B THEN [state |-> "live", version |-> run[r].feed[p], seen |-> 2 * r]
                          ELSE row[p]]
  BY DEF FlushProducts
<1>3. \A p \in Products : IF p \in B THEN Shown'[p] \in History[p] ELSE Shown'[p] = Shown[p]
  BY <1>1, <1>2 DEF Shown, History, Genuine, Real
<1>4. Shown' \in [Products -> Changes \cup {0}]
  <2>1. \A p \in Products : row'[p].version \in Changes \cup {0}
    BY <1>1, <1>2 DEF Genuine, Real
  <2> QED
    BY <2>1 DEF Shown
<1>5. Hidden' = Hidden \ B
  BY <1>1, <1>2 DEF Hidden
<1>7. late' = late \ B
  BY DEF FlushProducts
<1>6. Mirror!Refresh(B)
  BY <1>1, <1>3, <1>4, <1>5, <1>7 DEF Mirror!Refresh, History, Shown, Hidden, Told
<1> QED
  BY <1>1, <1>6 DEF Mirror!Next

\* A judgement hides what is gone, or was written late.
LEMMA JudgeRefines ==
  ASSUME TypeOK, DeletedMeansGone', NEW r \in Runs, JudgeProducts(r)
  PROVE  Mirror!Next
<1>0. PICK P \in SUBSET Products : P = {p \in Products : Unseen(r, row[p])}
  OBVIOUS
<1>1. live' = live /\ subject' = subject /\ notified' = notified /\ late' = late
  BY DEF JudgeProducts, shopVars
<1>2. \A p \in Products : /\ row'[p].version = row[p].version
                          /\ row'[p].state = IF p \in P THEN "deleted" ELSE row[p].state
  BY <1>0 DEF JudgeProducts, TypeOK, RowsOK, ProductRows
<1>3. P \cap live \subseteq late
  BY <1>1, <1>2 DEF DeletedMeansGone
<1>4. Shown' = Shown /\ Hidden' = Hidden \cup P
  BY <1>2 DEF Shown, Hidden
<1>5. Mirror!Hide(P)
  BY <1>1, <1>3, <1>4 DEF Mirror!Hide, History, Shown, Hidden, Told
<1> QED
  BY <1>5 DEF Mirror!Next

\* Every step is one of the mirror's or leaves it alone.
LEMMA MirrorStep ==
  ASSUME GuardEnabled, IInv, IInv', NotifiedOnce, Genuine, [Next]_vars
  PROVE  [Mirror!Next]_(Mirror!vars)
<1> USE DEF IInv
<1>1. CASE \E p \in Products : Shop(p)
  BY <1>1, ShopRefines
<1>2. CASE \E s \in Slots : Commit(s)
  BY <1>2, CommitRefines
<1>3. CASE \E r \in Runs : \E B \in Batches(r) : FlushProducts(r, B)
  BY <1>3, FlushRefines
<1>4. CASE \E r \in Runs : JudgeProducts(r)
  BY <1>4, JudgeRefines
<1>5. ASSUME UNCHANGED shopVars, UNCHANGED row, UNCHANGED notified, UNCHANGED late
      PROVE  UNCHANGED Mirror!vars
  BY <1>5 DEF shopVars, Mirror!vars
<1>6. ASSUME NEW s \in Slots, RecordNoop(s), UNCHANGED shopVars, UNCHANGED row, UNCHANGED late
      PROVE  UNCHANGED Mirror!vars
  BY <1>5, <1>6 DEF RecordNoop
<1> QED
  BY <1>1, <1>2, <1>3, <1>4, <1>5, <1>6, ShopFrame, RowFrame, LateFrame, BookFrame DEF Shop

\* With the guard on and no overlap, nothing a reader of the rows could see
\* breaks the promise of the mirror, in any interleaving, crash or retry.
THEOREM MirrorImplemented == GuardEnabled /\ SerialRuns /\ Spec => ImplementsMirror
<1> SUFFICES ASSUME GuardEnabled, SerialRuns PROVE Spec => ImplementsMirror
  OBVIOUS
<1>1. Init => Mirror!Init
  <2> SUFFICES ASSUME Init PROVE Mirror!Init
    OBVIOUS
  <2>1. live = {} /\ Hidden = {} /\ Told = {} /\ late = {}
    BY DEF Init, Hidden, Told
  <2>2. History = [p \in Products |-> {}]
    BY ParentAssumption DEF Init, History
  <2>3. Shown = [p \in Products |-> 0]
    BY DEF Init, Shown
  <2> QED
    BY <2>1, <2>2, <2>3 DEF Mirror!Init, History, Shown, Hidden, Told
<1>2. Init => Genuine
  BY DEF Init, Genuine, Real, NoFeed, NoWork
<1>3. IInv /\ Genuine /\ [Next]_vars => Genuine'
  BY GenuineStep DEF IInv
<1>4. IInv /\ IInv' /\ NotifiedOnce /\ Genuine /\ [Next]_vars => [Mirror!Next]_(Mirror!vars)
  BY MirrorStep
<1>5. Spec => []IInv
  BY Invariance
<1>6. Spec => []Genuine
  BY <1>2, <1>3, <1>5, PTL DEF Spec
<1> QED
  BY <1>1, <1>4, <1>5, <1>6, NotifiedAlwaysOnce, PTL DEF Spec, ImplementsMirror, Mirror!Spec

=============================================================================
