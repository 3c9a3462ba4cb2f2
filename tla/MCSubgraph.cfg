CONSTANTS
  alice = alice  bob = bob  carol = carol  owner = owner
  yes = yes  no = no
  NoAccount = NoAccount
  NoOutcome = NoOutcome
  Accounts <- MCAccounts
  Outcomes <- MCOutcomes
  Vouchers <- MCVouchers
  RegistryViews <- MCViews
  MarketChoices <- MCChoices
  MaxSignatureAge = 2
  MaxTime = 2
  MaxUnaccounted = 0
  MaxLag = 3
SPECIFICATION SubgraphSpec
INVARIANTS
  CountersMatchChain
  StatusMatchesChain
PROPERTIES
  EndIsShownForGood
  EveryWinnerIsPaid
  EveryBettorIsRefunded
CHECK_DEADLOCK FALSE
