SPECIFICATION Spec
CONSTANTS
  a = a
  b = b
  c = c
  d = d
  table = table
  c1 = c1
  c2 = c2
  play = play
  pass = pass
  Players = {a, b, c, d}
  First = a
  Holders = {a, b}
  Observers = {table}
  CommandIds = {c1, c2}
  GameActions = {play, pass}
  StewardActions = {pass}
  Drafts <- OddDrafts
  Absentees = {b}
  MaxRequests = 3
  MaxInFlight = 1
  StoresRejects = TRUE
CHECK_DEADLOCK FALSE
PROPERTIES KeepsCommandLog
