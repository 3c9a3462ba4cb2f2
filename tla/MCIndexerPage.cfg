CONSTANTS
  m1 = m1  m2 = m2  m3 = m3  run1 = run1  run2 = run2
  Markets = {m1, m2, m3}
  Runs = {run1}
  PageSize = 2
  PerBlock = 2
  Schemas = {TRUE}
  MaxBlock = 2
  MaxCrashes = 0
SPECIFICATION FairIndexerSpec
PROPERTY RowsCatchUp
CHECK_DEADLOCK FALSE
