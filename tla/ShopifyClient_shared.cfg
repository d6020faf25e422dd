SPECIFICATION Spec
CONSTANTS
  Calls = {q1, q2, q3}
  Idempotent = {q1, q2, q3}
  Maximum = 6
  Floor = 1
  InitialEstimate = 2
  CostWindow = 2
  Costs = {1, 4}
  Readings = {0, 6}
  Rates = {2}
  MaxAttempts = 2
  TokenAttempts = 1
CHECK_DEADLOCK FALSE
SYMMETRY Alike
PROPERTIES
  CallersSeeTheirOwnHeadroom
