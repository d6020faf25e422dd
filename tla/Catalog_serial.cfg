SPECIFICATION FairSpec
CONSTANTS
  a = a
  v1 = v1
  Products = {a}
  Variants = {v1}
  ParentOf <- Parent
  Slots = {s1, s2}
  GuardEnabled = TRUE
  SerialRuns = TRUE
  BatchSize = 1
  MaxChanges = 2
  MaxRuns = 2
  NoProduct = NoProduct
INVARIANTS
  TypeOK
  DeletedMeansGone
  SyncHeals
  NotifiedOnce
PROPERTIES
  ImplementsMirror
  EveryRunEnds
\* Every change made, every webhook processed and no run left: all may stop.
CHECK_DEADLOCK FALSE
