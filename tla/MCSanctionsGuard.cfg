CONSTANTS
  r1 = r1  r2 = r2  r3 = r3
  Screenings = {r1, r2, r3}
  CacheLife = 2
  MaxDelay = 1
  MaxTime = 4
SYMMETRY Symmetric
SPECIFICATION GuardSpec
PROPERTY ListingTakesEffect
CHECK_DEADLOCK FALSE
