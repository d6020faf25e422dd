SPECIFICATION FairSpec
CONSTANTS
  a = a
  b = b
  ship = ship
  shop = shop
  Scripts = {a, b}
  Scenes <- ScenesPlayed
  Lanes <- Widths
  Attempts = 2
  PageSize = 1
  Count = 2
  Limit = 2
  Locations = {ship, shop}
  Plan <- Plans
  Seeded = 2
  MaxProducts = 4
  MaxItems = 4
INVARIANTS
  TypeOK
  EffectOnce
  OkMeansDone
  SparesUntagged
  EachItemOnce
  ListedWhatStayed
PROPERTIES
  ScriptsEnd
\* Runs that have ended stop.
CHECK_DEADLOCK FALSE
