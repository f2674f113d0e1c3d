CONSTANTS
  Nicks = {n1, n2}
  Rids = {r1, r2, r3, r4}
  Names = {admin, operator, voice, other}
  Admin = admin
  Operator = operator
  Voice = voice
  Perms = {opdeop}
  MaxRolesPerChan = 4
  MaxUsersPerChan = 1
  RoleAcceptance = TRUE
  MaxFailures = 1
  NONE = NONE
SPECIFICATION Spec
INVARIANTS TypeOK WalksEnd AdminIsRoot PermissionsWereAccepted
SYMMETRY Symmetry
