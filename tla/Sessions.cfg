\* Users come and go while exceptions change, alone, with splits, or with
\* reloads and expiry.
SPECIFICATION SessionsSpec
CONSTANTS
  Keys = {h1, h2}
  Owners = {o1}
  Values = {2}
  NONE = NONE
  alloc_units = 3
  Duration = 1
  MaxNow = 3
  Users = {u1, u2, u3}
  DefaultMaxUsers = 1
  MaxHits = 2
  MaxGlines = 1
  Scenarios = {{}, {"squit"}, {"reload", "expire", "drop"}}
INVARIANTS CountIsConnections LimitInForce
PROPERTIES AdmittedWithinLimit ImplementsCachedTable
CHECK_DEADLOCK FALSE
