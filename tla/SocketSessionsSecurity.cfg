SPECIFICATION Spec
CONSTANTS
  a = a
  b = b
  table = table
  s1 = s1
  s2 = s2
  s3 = s3
  t1 = t1
  t2 = t2
  Players = {a, b}
  Observers = {table}
  Sockets = {s1, s2}
  Tokens = {t1, t2}
  HttpPlayers = {}
  CapabilityLifetime = 2
  LeaseLifetime = 1
  MaxRetired = 1
  ProtocolVersion = 1
  MaxClock = 4
  MaxGeneration = 3
  MaxRevision = 1
SYMMETRY Alike
CHECK_DEADLOCK FALSE
INVARIANTS SecurityReadable AttachedIsPresent GoneIsAbsent
