SPECIFICATION FairSpec
CONSTANTS
  k1 = k1  k2 = k2
  p1 = p1  p2 = p2
  Keepers = {k1}
  Plans = {p1, p2}
  None = None
  Listed = {p1, p2}
  Closed = {p2}
  OneShot = {}
  Flat = FALSE
  Cadence <- MCCadence
  InitialPlan <- MCBacklog
  Shares = 4
  Rates = {1, 2}
  InitialRate = 1
  InitialStock = 12
  ATTEMPTS = 2
  MAX_PRICE_AGE = 1
  BLOCKHASH_LIFE = 2
  MaxTime = 3
  MAX_MISHAPS = 2
PROPERTY SaverGetsTheQuote
PROPERTY DuePlansAreRun
