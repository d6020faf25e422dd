SPECIFICATION Spec
CONSTANTS
  o1 = o1
  o2 = o2
  o3 = o3
  w1 = w1
  w2 = w2
  w3 = w3
  Orders = {o1}
  Webhooks = {w1, w2}
  OrderOf <- OneOrder
  TestOrders = {}
  AllowTest = FALSE
  GuardEnabled = TRUE
  Tooling = TRUE
  Slots = {s1, s2}
  Requests = {p1, p2}
  ErpModes = {"flaky", "lost"}
  MaxAccepts = 2
  MaxRestarts = 1
  NoHook = NoHook
  NoOrder = NoOrder
  Gone = Gone
SYMMETRY Interchangeable
INVARIANTS
  TypeOK
  ConfirmedIsTruthful
  EvidenceOfPush
  ProcessedMeansDone
PROPERTIES
  ImplementsLedger
