SPECIFICATION Spec
CONSTANTS
  a = a
  b = b
  c = c
  v1 = v1
  v2 = v2
  Players = {a, b, c}
  play = play
  Plays = {play}
  Concession = concession
  Interval = 3
  Versions = {v1, v2}
  NoVersion = NoVersion
  Down = Down
  NoRow = NoRow
  MaxRevision = 4
  MaxLegacy = 1
  Absentees = {a}
SYMMETRY Symmetry
CHECK_DEADLOCK FALSE
INVARIANTS EveryVersionLoads OwnRowsAreTrusted
PROPERTIES KeepsDurableLog
