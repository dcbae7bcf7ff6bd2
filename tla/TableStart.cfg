SPECIFICATION Spec
CONSTANTS
  h = h
  p = p
  q = q
  r = r
  d1 = d1
  d2 = d2
  Unseated = Unseated
  Host = h
  Guests = {p, q, r}
  Decks = {d1, d2}
  MaxIssued = 2
  MaxInFlight = 2
  OpeningHand = 3
  ManualLimit = 1
  Absentees = {1}
SYMMETRY Alike
CHECK_DEADLOCK FALSE
INVARIANTS StartsAsDeclared KickedStaysOut OnlyAnOpenWaveIsUnreadable MulligansArePaid
PROPERTIES PresenceIsKept
