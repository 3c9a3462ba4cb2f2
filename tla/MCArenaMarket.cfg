CONSTANTS
  alice = alice  bob = bob  carol = carol  oracle = oracle  owner = owner
  yes = yes  no = no
  NoAccount = NoAccount
  NoOutcome = NoOutcome
  Accounts <- MCAccounts
  Outcomes <- MCOutcomes
  Vouchers <- MCVouchers
  RegistryViews <- MCViews
  MarketChoices <- MCChoices
  MaxSignatureAge = 2
  MaxTime = 4
  MaxUnaccounted = 1
SPECIFICATION Spec
INVARIANTS
  TypeOK
  EveryTokenAccountedFor
  ClaimsNeverBlocked
  RoundingStaysWithWinners
  CreatorSeedsOneOutcome
  OneBetPerNonce
  WinnersKeepHalf
  NobodyLosesBeforeFinal
PROPERTIES
  FinalTermsAreFrozen
  ImplementsEscrow
CHECK_DEADLOCK FALSE
