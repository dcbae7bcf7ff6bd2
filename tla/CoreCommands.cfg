SPECIFICATION CommandSpec
CONSTANTS
  p = p
  q = q
  r = r
  s1 = s1
  s2 = s2
  bear = bear
  wall = wall
  Players = {p, q, r}
  TurnOrder <- Three
  Objects = {s1, s2}
  ControllerOf <- Controllers
  BucketOf <- Buckets
  MaximumHand <- OneCard
  Creatures = {bear, wall}
  Attackers = {bear}
  OwnerOf <- Owners
  Library <- OneInFront
  NoSource = NoSource
  Holders = {q}
  Movers = {p, q}
  MaxCards = 1
  MaxEntries = 2
INVARIANTS EveryoneMayAnswer SomebodyMovesOn CombatFollowsTheTurn
CHECK_DEADLOCK FALSE
