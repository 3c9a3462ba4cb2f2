CONSTANTS
  b1 = b1  b2 = b2  b3 = b3
  alice = alice  bob = bob
  m1 = m1  m2 = m2  c1 = c1  c2 = c2
  Bets = {b1, b2, b3}
  AmountOf <- MCAmountOf
  Pools = {0, 30}
  UserOf <- MCUserOf
  MarketOf <- MCMarketOf
  CreatorOf <- MCCreatorOf
  FeeShareBps <- MCShares
  Thresholds <- MCThresholds
  FeeBps <- MCFeeBps
  SummaryLimit = 1
  PerWhale = 1
  MinBetAmount = 10
  WhaleLimit = 2
  Limit = 1
  Window = 2
  Day = 2
  CollectEvery = 1
  CollectDelay = 1
  QueryDelay = 1
  MaxFaults = 1
  MaxTime = 6
CONSTRAINT Focus
SPECIFICATION Spec
INVARIANTS
  PagesMissNothing
  WhaleRowsHold
  DashboardIsRecent
PROPERTY ReportsAgree
CHECK_DEADLOCK FALSE
