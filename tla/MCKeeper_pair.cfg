SPECIFICATION FairSpec
CONSTANTS
  k1 = k1  k2 = k2
  p1 = p1  p2 = p2
  Keepers = {k1, k2}
  Plans = {p1}
  None = None
  Listed = {p1}
  Closed = {}
  OneShot = {k2}
  Flat = TRUE
  Cadence <- MCCadence
  InitialPlan <- MCPlan
  Shares = 1
  Rates = {1}
  InitialRate = 1
  InitialStock = 2
  ATTEMPTS = 2
  MAX_PRICE_AGE = 1
  BLOCKHASH_LIFE = 1
  MaxTime = 1
  MAX_MISHAPS = 2
INVARIANT TypeOK
INVARIANT ReportsAreReal
PROPERTY PlansKeepTheirPromise
