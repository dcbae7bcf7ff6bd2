SPECIFICATION Spec
CONSTANTS
  h = h
  p = p
  q = q
  h1 = h1
  p1 = p1
  p2 = p2
  p3 = p3
  q1 = q1
  elves = elves
  goblins = goblins
  None = None
  Seats = {0, 1}
  Host = h
  People = {h, p, q}
  Submissions <- TwoTenants
  MaxRevision = 3
  MaxRestarts = 1
CHECK_DEADLOCK FALSE
INVARIANTS LobbyStaysReadable StartsAsAgreed RefusedIsFinal NoSeatIsStuck
