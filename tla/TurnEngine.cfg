SPECIFICATION FairSpec
CONSTANTS
  p = p
  q = q
  r = r
  t1 = t1
  t2 = t2
  t3 = t3
  spell = spell
  Players = {p, q, r}
  Objects = {t1, t2, t3, spell}
  Abilities = {t1, t2, t3}
  ControllerOf <- Controllers
  BucketOf <- Buckets
  MaximumHand <- OneCard
  TurnOrders <- Tables
  MaxTurns = 2
  MaxEvents = 3
CHECK_DEADLOCK FALSE
INVARIANTS BundleIsValid EveryoneAnswered TurnEndsClean
PROPERTIES StacksInApnapOrder EveryTriggerIsPlaced EveryTurnEnds
