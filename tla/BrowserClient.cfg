SPECIFICATION FairSpec
CONSTANTS
  c1 = c1
  c2 = c2
  Commands = {c1, c2}
  Unplayable = {c2}
  Delays = 1
  MaxOutbox = 2
  MaxMishaps = 3
CHECK_DEADLOCK FALSE
INVARIANTS SettledAsDecided NobodyWaitsInVain GivesUpForAReason
PROPERTIES ComesToRest
