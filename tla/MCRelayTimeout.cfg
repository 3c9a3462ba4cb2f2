CONSTANTS
  first = first  again = again  other = other
  Requests = {first}
  Signed = {first}
  KeyOf <- MCKeyOf
  SlotOf <- MCSlotOf
  Ceiling = 2
  Periods = 2
  MaxCrashes = 0
SPECIFICATION FairSpec
PROPERTY NoStatusTimesOut
CHECK_DEADLOCK FALSE
