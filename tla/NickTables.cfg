\* Two nicks and the groups, the memos or the lists they keep; three groups.
SPECIFICATION Spec
CONSTANTS
  Nicks = {n1, n2}
  NONE = NONE
  MaxNow = 3
  Scenarios = {{"groups"}, {"members", "time"}, {"members", "drops"}, {"memos", "time"}, {"memos", "drops"}, {"buddies", "time"}, {"buddies", "drops"}, {"ajoins", "drops"}}
  Groups = {root, admin, oper, g1}
  RootGroup = root
  AdminGroup = admin
  OperGroup = oper
  MemberGroups = {admin, oper}
  MaxRows = 3
  Masterless = Masterless
  RootNick = n1
  Durations = {0, 1}
  MaxUsers = {1}
  MaxCopies = 2
  Owners = {n1}
  MaxMemos = 2
  Limits = {1}
  DefaultOptions = {"notify"}
  ExpireTime = 1
  MaxId = 2
  MaxBuddies = 2
  InvitationTime = 1
  Channels = {c1, c2}
  MaxAjoins = 2
  MaxOrder = 2
INVARIANTS TypeOK GroupsUnderRoot CacheFollows BuddiesMutual
CHECK_DEADLOCK FALSE
