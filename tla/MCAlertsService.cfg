CONSTANTS
  b1 = b1  b2 = b2  alice = alice
  Bets = {b1, b2}
  AmountOf <- MCAmountOf
  UserOf <- MCUserOf
  DefaultRules <- MCRules
  AddedRules <- NewRules
  Switched = {2}
  Top = 2
  Keep = 2
  QuietTime <- MCQuiet
  HoursInDay = 4
  FeeMille = 27
  c1 = c1 c2 = c2
  Checks = {c1, c2}
  MaxDelay = 1
  MaxFaults = 1
  MaxCollecting = 1
  Acknowledged = {1}
  MaxTime = 6
SYMMETRY Symmetric
CONSTRAINT Focus
SPECIFICATION Spec
INVARIANTS
  AlertsAreDistinct
  RapidMeansRapid
  WhaleBetsAreReported
PROPERTY DisabledRulesStayQuiet
CHECK_DEADLOCK FALSE
