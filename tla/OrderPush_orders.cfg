SPECIFICATION FairSpec
CONSTANTS
  o1 = o1
  o2 = o2
  o3 = o3
  w1 = w1
  w2 = w2
  w3 = w3
  Orders = {o1, o2, o3}
  Webhooks = {w1, w2, w3}
  OrderOf <- OrderEach
  TestOrders = {o3}
  AllowTest = FALSE
  GuardEnabled = TRUE
  Tooling = FALSE
  Slots = {s1}
  Requests = {p1}
  ErpModes = {"ok", "slow", "lost"}
  MaxAccepts = 2
  MaxRestarts = 0
  NoHook = NoHook
  NoOrder = NoOrder
  Gone = Gone
INVARIANTS
  ConfirmedIsTruthful
  TestOrdersStayLocal
  ReferencesAreUnique
PROPERTIES
  EveryExecutionEnds
