SPECIFICATION Spec
CONSTANTS
  a = a
  b = b
  table = table
  s1 = s1
  s2 = s2
  s3 = s3
  t1 = t1
  t2 = t2
  Players = {a, b}
  Observers = {}
  Sockets = {s1, s2}
  Tokens = {t1}
  HttpPlayers = {a}
  CapabilityLifetime = 2
  LeaseLifetime = 1
  MaxRetired = 1
  ProtocolVersion = 2
  MaxClock = 1
  MaxGeneration = 1
  MaxRevision = 2
SYMMETRY Alike
CHECK_DEADLOCK FALSE
INVARIANTS EveryoneTold
PROPERTIES OneController
