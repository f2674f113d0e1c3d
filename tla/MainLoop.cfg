\* Timers beside a daemon that may fall silent, or local users beside one that kills them and cuts its lines anywhere.
SPECIFICATION MainSpec
CONSTANTS
  o1 = o1
  o2 = o2
  Owners = {o1, o2}
  Cancellable = {o2}
  TIMER_INTERVAL = 1
  Delay = 0
  Start = 2
  LastAdd = 4
  MaxNow = 6
  MaxAdds = 2
  MaxDrift = 1
  u1 = u1
  u2 = u2
  Locals = {u1, u2}
  c1 = c1
  c2 = c2
  Chans = {c1, c2}
  Hashings = {{u1, u2, c1, c2}, {u1, c1}}
  Bots = {u2}
  BotChan = c1
  Masks = {m1, m2}
  MaxSlines = 3
  Scids = {1, 2}
  Snids = {1}
  LostSnids = {2}
  MaxStops = 2
  BufferSize = 5
  IRC_READ_TIMEOUT = 1
  Scenarios = {{"timers", "time"}, {"fragments", "closes"}, {"locals", "kills", "closes"}, {"locals", "channels", "kills"}, {"locals", "servers", "kills"}, {"tables"}}
  MaxLines = 2
INVARIANTS NoHandlerOnFreedOwner LinesIntact DaemonFollows SlinesFollow UpgradesFit
PROPERTIES FiresOrEnds ImplementsTimers
CHECK_DEADLOCK FALSE
