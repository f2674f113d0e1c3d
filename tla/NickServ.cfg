\* Two connections, their guest nicks and a nick that is registered twice.
SPECIFICATION Spec
CONSTANTS
  Users = {u1, u2}
  Names = {n1}
  NONE = NONE
  NickSecurityCode = TRUE
  MaxTimeForAuth = TRUE
  Scenarios = {{"split", "restart"}, {"sset"}}
  MaxSnid = 2
  MaxSent = 2
INVARIANTS TypeOK HolderOwnsNick HeldIsOnline StrangerIsTimed AuthFollowsRecord
CHECK_DEADLOCK FALSE
