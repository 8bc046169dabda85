SPECIFICATION Spec
CONSTANTS
  t1 = t1  t2 = t2
  Tabs = {t1, t2}
  Assets = {1}
  Indexes = {0, 1}
  Cadences = {1}
  Runs <- MCRuns
  COVERAGE_WARN_AT = 1
  Foreign = Foreign
  None = None
  InitialCash = 3
  MaxTime = 1
  MAX_SIGNED = 3
  MAX_MISHAPS = 0
CHECK_DEADLOCK FALSE
SYMMETRY TabSymmetry
INVARIANT TypeOK
INVARIANT OneTabIsTidy
PROPERTY ChangeIsOneForOne
