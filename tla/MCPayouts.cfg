SPECIFICATION Spec
CONSTANTS
  Wrappers = {1, 2}
  Decimals <- MCDecimals
  Multipliers = {2, 3}
  InitialMultiplier <- MCMultiplier
  Balances = {0, 3}
  InitialBalances <- MCBalances
  InitialShares = 5
  Amounts = {2, 5}
  Prices = {2, 3}
  InitialPrice = 3
  Desk = {1, 5}
  InitialDesk = 5
  None = None
  MAX_MOVES = 1
  PowerOfTen <- MCPowerOfTen
  BPS = 10
  MAX_KEEPER_FEE_BPS = 2
  MAX_FLOOR_TOLERANCE = 5
  MULTIPLIER_SCALE = 2
  RATE_SCALE = 20
  MAX_DECIMALS = 2
  EQUITY_UNIT_DECIMALS = 1
  U64_MAX = 1000
  U128_MAX = 100000
  I64_MAX = 100
CHECK_DEADLOCK FALSE
INVARIANT TypeOK
INVARIANT FreshPlansAreAccepted
PROPERTY CashOutPaysTheQuote
PROPERTY WithdrawsWhatWasAsked
