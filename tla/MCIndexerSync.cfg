CONSTANTS
  m1 = m1  m2 = m2  m3 = m3  run1 = run1  run2 = run2
  Markets = {m1, m2, m3}
  Runs = {run1, run2}
  PageSize = 2
  PerBlock = 1
  Schemas = {TRUE, FALSE}
  MaxBlock = 3
  MaxCrashes = 1
SPECIFICATION FairIndexerSpec
INVARIANT NoMarketIsSkipped
PROPERTY EveryMarketGetsARow
CHECK_DEADLOCK FALSE
