SPECIFICATION FairSpec
CONSTANTS
  p = p
  q = q
  r = r
  x = x
  y = y
  Products = {p, q, r}
  Variants = {x, y}
  Parent <- ParentOfVariant
  BatchSize = 2
  MaxLines = 5
  MaxChunk = 4
  NoGroup = NoGroup
INVARIANTS
  TypeOK
  GivenIsAPrefix
  CompletedIsWhole
  VariantsHaveProducts
PROPERTIES
  EveryImportEnds
\* A run that has completed or failed stops.
CHECK_DEADLOCK FALSE
