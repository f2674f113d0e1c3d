\* Every feature of the network, up to the first fault; services log to c1.
SPECIFICATION Spec
CONSTANTS
  Remotes = {u1, u2}
  Locals = {cs, bot}
  ChanServ = cs
  Servers = {s1, s2}
  Chans = {c1}
  LogChan = c1
  NONE = NONE
  LocalServer = me
  Features = {"stealth", "akick", "joinkill", "crossing"}
  MaxPartTimers = 1
  MaxCount = 2
INVARIANTS MirrorSound
CHECK_DEADLOCK FALSE
