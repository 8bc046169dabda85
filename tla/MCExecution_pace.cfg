SPECIFICATION Spec
CONSTANTS
  o = o  k = k  g = g
  acc_o = acc_o  acc_k = acc_k
  s1 = s1  s2 = s2
  v1 = v1  v2 = v2
  w1 = w1  w2 = w2
  Users = {o, k, g}
  Accounts = {acc_o, acc_k}
  Schedules = {s1, s2}
  Vaults = {v1, v2}
  Wrappers = {w1, w2}
  None = None
  Registered <- MCRegistered
  Decimals <- MCDecimals
  MintConfig <- MCMintConfig
  VaultAuthority <- MCAuthority
  InitialVault <- MCInitialVault
  InitialAccount <- MCFundedAccount
  PowerOfTen <- MCPowerOfTen
  BPS = 10
  MAX_KEEPER_FEE_BPS = 2
  MAX_FLOOR_TOLERANCE = 5
  MULTIPLIER_SCALE = 2
  RATE_SCALE = 10
  MAX_DECIMALS = 2
  EQUITY_UNIT_DECIMALS = 1
  U64_MAX = 1000
  U128_MAX = 100000
  I64_MAX = 100
  DUST_FLOOR = 5
  MIN_CADENCE_SECONDS = 2
  MAX_SCANNED_INSTRUCTIONS = 6
  Transactions <- MCPace
  MaxTime = 8
INVARIANT BuysArePaced
INVARIANT DeliveryIsFloored
