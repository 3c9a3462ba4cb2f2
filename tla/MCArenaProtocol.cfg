CONSTANTS
  admin = admin  alice = alice  bob = bob
  market = market  usdc = usdc  yes = yes  no = no
  NoAccount = NoAccount  NoMarket = NoMarket  NoOutcome = NoOutcome
  Accounts <- MCAccounts
  Admin = admin
  Factory = admin
  Grants <- MCGrants
  Listed = {alice}
  Treasuries = {}
  Schedules <- MCSchedules
  InitialFees <- MCFees
  BondAmounts = {1}
  Markets = {market}
  MarketIds = {1}
  Tokens = {usdc}
  PrimaryCollateral = usdc
  Modules = {}
  Timelock = 2
  Funds = 1
  MaxSlashed = 0
  MaxTime = 3
  MaxUnaccounted = 1
  Outcomes = {yes, no}
  Vouchers <- MCVouchers
  MarketChoices <- MCChoices
  MaxSignatureAge = 2
  MinBet = 1
  MaxBet = 20
  TheMarket = market
SPECIFICATION Spec
INVARIANT
  MarketMoneyIsSafe
PROPERTY
  OddsStandForATimelock
CHECK_DEADLOCK FALSE
