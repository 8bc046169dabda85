SPECIFICATION FairSpec
CONSTANTS
  Vaults <- MCVaults
  Pending = {"NVDAx"}
  Target = 2
  Refill = 1
  MAX_KEYS = 2
  MAX_MISHAPS = 2
INVARIANT TypeOK
INVARIANT BookIsTrue
INVARIANT OneMintPerWorth
INVARIANT NeverInflated
PROPERTY SetupConverges
