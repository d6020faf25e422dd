SPECIFICATION FairSpec
CONSTANTS
  Calls = {q1, m1}
  Idempotent = {q1}
  Maximum = 4
  Floor = 1
  InitialEstimate = 2
  CostWindow = 1
  Costs = {1, 3}
  Readings = {0, 4}
  Rates = {0, 3}
  MaxAttempts = 3
  TokenAttempts = 2
CHECK_DEADLOCK FALSE
INVARIANTS
  TypeOK
  CountsWhatIsOut
  ReservesWhatIsOut
  SentOnce
PROPERTIES
  HeadroomIsNotShared
  RefusedTokenIsDropped
  EveryCallSettles
