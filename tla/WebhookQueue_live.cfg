SPECIFICATION FairSpec
CONSTANTS
  Ids = {w1}
  Slots = {s1, s2}
  MaxAttempts = 5
  MaxStalled = 2
  ReplayBatch = 1
  MaxDeliveries = 3
  MaxReplays = 1
  MaxClears = 1
  NoId = NoId
  NoSlot = NoSlot
INVARIANTS
  TypeOK
  NothingIsLost
  TogetherOnlyIfLoose
  StartsAreBounded
PROPERTIES
  ImplementsHandoff
  EveryJobSettles
\* Every delivery made and every job at rest: all may stop.
CHECK_DEADLOCK FALSE
