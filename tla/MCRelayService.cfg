CONSTANTS
  first = first  again = again  other = other
  Requests = {first, again, other}
  Signed = {first, again}
  KeyOf <- MCKeyOf
  SlotOf <- MCSlotOf
  Ceiling = 2
  Periods = 2
  MaxCrashes = 1
SPECIFICATION FairSpec
INVARIANTS
  RowsTellTheTruth
  SilentAfterShutdown
PROPERTIES
  ImplementsGaslessBets
  RetryIsFree
  EveryTimerStops
CHECK_DEADLOCK FALSE
