SPECIFICATION ModesSpec
CONSTANTS
  u1 = u1
  u2 = u2
  b1 = b1
  k1 = k1
  k2 = k2
  none = none
  Users = {u1, u2}
  Bot = b1
  FlagModes = {"n", "t", "r"}
  Params = {"k"}
  Values = {k1, k2}
  NoValue = none
  SetOn = {"n"}
  SetOff = {"t"}
  SetParams = {"k"}
  LockedValue = k1
  Masks = {{u1}, {u1, u2}}
  AdminUsers = {u1}
  OperatorUsers = {}
  VoiceUsers = {}
  SecureOps = TRUE
  Scenarios = {{"modes", "kicks"}, {"modes", "params", "bot"}, {"modes", "kicks", "default"}, {"modes", "bot", "split", "default"}, {"ops", "commands", "bot"}, {"bans"}, {"ops", "kicks", "split"}, {"voices"}}
  MaxUp = 2
  MaxDown = 3
INVARIANTS LockConverges OpsConverge BansKnown
CHECK_DEADLOCK FALSE
