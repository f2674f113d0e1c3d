\* One channel guarded by ChanServ while users come, go and are banned.
SPECIFICATION Spec
CONSTANTS
  Remotes = {u1, u2}
  Locals = {cs, bot}
  ChanServ = cs
  Servers = {s1}
  Chans = {c1, log}
  LogChan = log
  NONE = NONE
  LocalServer = me
  Features = {"akick"}
  MaxPartTimers = 2
  MaxCount = 2
INVARIANTS NoFault CountsExact
PROPERTY GuardLeaves
CHECK_DEADLOCK FALSE
