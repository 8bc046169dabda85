SPECIFICATION Spec
CONSTANTS
  MaxAmount = 25
  MaxMultiplier = 5
  Few = 3
  Paces = {1, 2, 5, 7, 14}
  MONEY_DECIMALS = 1
  WEEK = 7
  COVERAGE_WARN_AT = 2
  MIN_RUNS_FUNDED = 3
  FUNDED_HORIZON = 10
  MIN_CADENCE = 2
  null = null
  PowerOfTen <- MCPowerOfTen
  BPS = 10
  MAX_KEEPER_FEE_BPS = 2
  MAX_FLOOR_TOLERANCE = 5
  MULTIPLIER_SCALE = 3
  RATE_SCALE = 20
  MAX_DECIMALS = 2
  EQUITY_UNIT_DECIMALS = 1
  U64_MAX = 100000
  U128_MAX = 1000000
  I64_MAX = 100
INVARIANT FeeMatchesReference
INVARIANT FloorMatchesReference
INVARIANT ConversionsNeverProfit
INVARIANT SplittingNeverPays
INVARIANT TakingOutIsNoLoss
INVARIANT StreakIsFair
INVARIANT FundingMatchesTheProgram
