SPECIFICATION Spec
CONSTANTS
  a = a
  b = b
  c = c
  d = d
  table = table
  c1 = c1
  c2 = c2
  play = play
  pass = pass
  Players = {a, b, c, d}
  First = d
  Holders = {a, d}
  Observers = {}
  CommandIds = {c1, c2}
  GameActions = {play}
  StewardActions = {}
  Drafts <- RaceDrafts
  Absentees = {}
  MaxRequests = 4
  MaxInFlight = 1
  StoresRejects = FALSE
CHECK_DEADLOCK FALSE
INVARIANTS StateStaysValid AppliedOnItsBase LeavingIsLast
PROPERTIES KeepsCommandLog
SYMMETRY Leavers
