CONSTANTS
  admin = admin  dora = dora  market = market  usdc = usdc
  NoAccount = NoAccount  NoMarket = NoMarket
  Accounts = {admin, dora}
  Admin = admin
  Factory = admin
  Grants = {}
  Listed = {dora}
  Treasuries = {dora}
  Schedules <- MCSchedules
  InitialFees <- DefaultFees
  BondAmounts = {0, 1}
  Markets = {market}
  MarketIds = {1}
  Tokens = {usdc}
  PrimaryCollateral = usdc
  Modules = {dora}
  Funds = 1
  MaxSlashed = 1
  Timelock = 1
  MaxTime = 3
  MaxUnaccounted = 1
CONSTRAINT Focus
SPECIFICATION FactorySpec
INVARIANT BondsSettleExactly
PROPERTIES
  ChangesWereAnnounced
  MarketsStartBonded
CHECK_DEADLOCK FALSE
