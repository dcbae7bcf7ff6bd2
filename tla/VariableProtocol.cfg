SPECIFICATION Spec
CONSTANTS
  p = p
  q = q
  r = r
  c1 = c1
  c2 = c2
  Nobody = Nobody
  NoCheckpoint = NoCheckpoint
  TurnOrder <- ThreeSeats
  CommandIds = {c1, c2}
  Drafts <- AllDrafts
  Fickle = {"move"}
  Absentees = {q}
  MaxRequests = 3
CHECK_DEADLOCK FALSE
INVARIANTS StateStaysLoadable TableIsTheLog SomebodyMovesOn
PROPERTIES UndoKeepsTheSteward KeepsCommandLog
