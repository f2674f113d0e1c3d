\* Two channels, a nick for each and a bot: a channel may be registered again
\* once. Every action may be taken in every order.
SPECIFICATION Spec
SYMMETRY Symmetry
CONSTANTS
  Users = {u1}
  Nicks = {n1, n2}
  Bots = {b1}
  Chans = {c1, c2}
  Masks = {{u1}}
  ChanServ = cs
  NONE = NONE
  MaxScid = 2
INVARIANTS RecordOfRow SuspensionInForce AkicksInForce
PROPERTIES SuccessorInherits
CHECK_DEADLOCK FALSE
