SPECIFICATION Spec
CONSTANTS
  a = a  b = b
  w1 = w1  w2 = w2
  Users = {a, b}
  Wrappers = {w1, w2}
  Decimals <- MCDecimals
  InitialConfig <- MCConfig
  InitialWallet <- MCWallet
  InitialStock <- MCStock
  Multipliers = {2, 3}
  OnlyGrowing = TRUE
  MaxTime = 1
  PowerOfTen <- MCPowerOfTen
  BPS = 10
  MAX_KEEPER_FEE_BPS = 2
  MAX_FLOOR_TOLERANCE = 5
  MULTIPLIER_SCALE = 2
  RATE_SCALE = 20
  MAX_DECIMALS = 2
  EQUITY_UNIT_DECIMALS = 1
  U64_MAX = 1000
  U128_MAX = 100000
  I64_MAX = 100
INVARIANT TypeOK
INVARIANT Backed
INVARIANT SharesOnBooks
PROPERTY SurplusNeverShrinks
