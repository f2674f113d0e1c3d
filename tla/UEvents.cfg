\* Three rows of two events, one more of an event than its index can hold.
SPECIFICATION UEventsSpec
CONSTANTS
  Keys = {k1, k2, k3}
  Owners = {}
  Values = {ON_CONNECT, ON_JOIN}
  NONE = NONE
  alloc_units = 3
  Duration = 1
  MaxNow = 3
  MaxIndex = 2
INVARIANTS EventsInForce
PROPERTIES ExpiredRowsLeave
CHECK_DEADLOCK FALSE
