----------------------------- MODULE ChanModes -----------------------------
(***************************************************************************)
(* The modes of one registered channel, seen from both sides: `real` is     *)
(* the channel on the IRC daemon, `mirror` what services know of it         *)
(* (libircservice/src/cmode.c), and two queues of lines lie between them.   *)
(* Services answer each line they read: they put back what the mode lock    *)
(* says (irc_ChanMLockApply), give users the status of their role and take  *)
(* what SECUREOPS forbids (modules/cs_role.c), and give the bot its op      *)
(* back (ev_cs_deop).  They change the mirror when they send a line, the    *)
(* daemon changes the channel when it reads it, and neither repeats what    *)
(* it has read: the two sides agree only if every line that crosses         *)
(* another is answered.                                                     *)
(***************************************************************************)
EXTENDS Integers, Sequences, SequencesExt, FiniteSets

CONSTANTS
  Users, Bot,                 \* remote users, and the bot of the channel
  FlagModes,                  \* mode letters without a parameter, "r" among them
  Params, Values, NoValue,    \* letters with a parameter, and what they may be
  SetOn, SetOff,              \* the mode lock of a channel whose founder has set one
  SetParams, LockedValue,     \* parameters it locks, all at one value
  Masks,                      \* ban masks, each the set of users it matches
  AdminUsers, OperatorUsers, VoiceUsers,  \* users with a role in force
  SecureOps,                  \* the channel option
  Scenarios,                  \* sets of features, one per behaviour
  MaxUp, MaxDown              \* bounds: lines in each direction

Roled == AdminUsers \union OperatorUsers \union VoiceUsers

ASSUME ChanModesAssumption ==
  /\ Roled \subseteq Users /\ Bot \notin Users /\ "r" \in FlagModes
  /\ FlagModes \intersect Params = {} /\ (FlagModes \union Params) \intersect {"a", "o", "v", "b"} = {}
  /\ IsFiniteSet(Users) /\ IsFiniteSet(FlagModes) /\ IsFiniteSet(Params)
  /\ SetOn \subseteq FlagModes /\ SetOff \subseteq (FlagModes \ {"r"}) \union Params
  /\ SetParams \subseteq Params /\ LockedValue \in Values /\ NoValue \notin Values
  /\ SetOff \intersect (SetOn \union SetParams) = {}
  /\ Masks \subseteq SUBSET Users /\ SecureOps \in BOOLEAN /\ {MaxUp, MaxDown} \subseteq Nat \ {0}

VARIABLES
  real,     \* the channel of the daemon
  mirror,   \* the channel in the memory of services, with `locked`
  up,       \* lines of the daemon services have not read
  down,     \* lines of services the daemon has not read
  crossed,  \* history: a KICK of services has crossed a join
  unseen,   \* history: flags of the daemon that services may never be told of
  features  \* what happens in this behaviour

modesvars == <<real, mirror, up, down, crossed, unseen, features>>

Statuses == {"a", "o", "v"}  \* letters of members

\* The flags irc_ChanJoin asks for in the SJOIN of a local user, and does not
\* put in the mirror.
Creation == {"n", "t"} \intersect FlagModes

\* The lock a channel is registered with (DefaultMLock, "+nt" if not set).
DefaultMLock == {"n", "t"} \intersect FlagModes

\* The mode lock of the channel: letters that stay on, letters that stay off.
LockOn == IF "default" \in features THEN DefaultMLock ELSE SetOn
LockOff == IF "default" \in features THEN {} ELSE SetOff
LockedParams == IF "default" \in features THEN {} ELSE SetParams

Everyone == Users \union {Bot}

NoChan == [on |-> {}, status |-> [m \in Everyone |-> {}], modes |-> {},
           param |-> [p \in Params |-> NoValue], bans |-> {}, locked |-> FALSE]

Channels ==
  [on : SUBSET Everyone, status : [Everyone -> SUBSET Statuses], modes : SUBSET FlagModes,
   param : [Params -> Values \union {NoValue}], bans : SUBSET Masks, locked : BOOLEAN]

\* A change of one letter, and the lines made of changes.
Change(on, letter, arg) == [on |-> on, letter |-> letter, arg |-> arg]
Mode(changes) == [type |-> "mode", changes |-> changes]
Sjoin(u, status, modes) == [type |-> "sjoin", user |-> u, status |-> status, modes |-> modes]
Leaves(u) == [type |-> "leaves", user |-> u]
Kicked(u) == [type |-> "kick", user |-> u]
Give(letter, u) == Mode({Change(TRUE, letter, u)})
Take(letter, u) == Mode({Change(FALSE, letter, u)})

\* irc_FindOnChan
OnChan(c, m) == m \in c.on

AddIf(c, S, x) == IF c THEN S \union {x} ELSE S \ {x}

\* What one change of channel_mode does to a channel; a status change of a
\* user that is not on the channel does nothing.
Applied(c, ch) ==
  CASE ch.letter \in FlagModes -> [c EXCEPT !.modes = AddIf(ch.on, @, ch.letter)]
    [] ch.letter \in Params -> [c EXCEPT !.param[ch.letter] = IF ch.on THEN ch.arg ELSE NoValue]
    [] ch.letter = "b" -> [c EXCEPT !.bans = AddIf(ch.on, @, ch.arg)]
    [] OTHER -> IF OnChan(c, ch.arg)
                  THEN [c EXCEPT !.status[ch.arg] = AddIf(ch.on, @, ch.letter)] ELSE c

\* The changes of one line have different letters: their order is no matter.
AppliedAll(c, changes) == FoldLeft(Applied, c, SetToSeq(changes))

With(c, u, status, modes) ==
  [c EXCEPT !.on = @ \union {u}, !.status[u] = status, !.modes = @ \union modes]

\* The last member that leaves takes the channel with it.
Without(c, u) ==
  IF c.on \subseteq {u} THEN NoChan
  ELSE [c EXCEPT !.on = @ \ {u}, !.status[u] = {}]

----------------------------------------------------------------------------
(* Services: a side is the mirror and what was sent. *)

Side(c, sent) == [chan |-> c, sent |-> sent]

DeoppedUnlessMember(ch) ==
  ch.letter = "o" /\ ch.on /\ ch.arg \in Users /\ SecureOps /\ ch.arg \notin Roled /\ ch.arg \notin mirror.on

\* ev_cs_role_op: nobody without a role in force keeps an op under SECUREOPS.
Deopped(ch) == ch.letter = "o" /\ ch.on /\ ch.arg \in Users /\ SecureOps /\ ch.arg \notin Roled

\* ev_cs_deop: a local user gets its op back.
Reopped(ch) == ch.letter = "o" /\ ~ch.on /\ ch.arg \notin Users

\* The answers of the handlers of "+o" and "-o".
Answer(changes) ==
  {Take("o", ch.arg) : ch \in {c \in changes : Deopped(c)}}
    \union {Give("o", ch.arg) : ch \in {c \in changes : Reopped(c)}}

\* The part of channel_mode before the lock.  The handlers are called before
\* the change is made, and what they answer is applied to the mirror by a
\* channel_mode of its own: the change itself comes last.
ChannelMode(side, changes) ==
  LET answers == SetToSeq(Answer(changes))
      Step(c, line) == AppliedAll(c, line.changes)
  IN Side(AppliedAll(FoldLeft(Step, side.chan, answers), changes), side.sent \o answers)

\* irc_ChanMode, irc_ChanUMode: the line is sent, then applied.
SendMode(side, changes) ==
  ChannelMode([side EXCEPT !.sent = Append(@, Mode(changes))], changes)

LockChangesNoCompare(c) ==
  {Change(FALSE, f, NoValue) : f \in LockOff \intersect c.modes}
    \union {Change(TRUE, f, NoValue) : f \in LockOn \ c.modes}
    \union {Change(TRUE, p, LockedValue) : p \in {q \in LockedParams : c.param[q] = NoValue}}

\* What the lock asks of a channel: letters to take off, letters to put on.
LockChanges(c) ==
  {Change(FALSE, f, NoValue) : f \in LockOff \intersect c.modes}
    \union {Change(FALSE, p, NoValue) : p \in {q \in LockOff \intersect Params : c.param[q] # NoValue}}
    \union {Change(TRUE, f, NoValue) : f \in LockOn \ c.modes}
    \union {Change(TRUE, p, LockedValue) : p \in {q \in LockedParams : c.param[q] # LockedValue}}

\* irc_ChanMLockApply: nothing while no lock is set.
LockApply(side) ==
  LET changes == LockChanges(side.chan)
  IN IF side.chan.locked /\ changes # {} THEN SendMode(side, changes) ELSE side

\* The status that the actions of a role give at a join.
RoleStatus(u) ==
  IF u \in AdminUsers THEN {"a", "o"}
  ELSE IF u \in OperatorUsers THEN {"o"}
  ELSE IF u \in VoiceUsers THEN {"v"} ELSE {}

\* ev_cs_role_chan_join: the actions of the role, then the op of those whose
\* role gives none.  Users have no stealth mode here, and the channel is
\* neither suspended nor restricted: no join ends in a ban and a KICK.
RoleJoin(side, u) ==
  LET missing == RoleStatus(u) \ side.chan.status[u]
      GiveOne(s, letter) == SendMode(s, {Change(TRUE, letter, u)})
      given == FoldLeft(GiveOne, side, SetToSeq(missing))
  IN IF "o" \in given.chan.status[u] /\ "o" \notin RoleStatus(u)
       THEN SendMode(given, {Change(FALSE, "o", u)}) ELSE given

\* irc_ChanMLockSet: the lock is read, not yet applied.
LockSet(side) == [side EXCEPT !.chan.locked = TRUE]

\* ev_cs_chan_join: the first remote user of a registered channel brings +r
\* and the lock, which is set here and applied at the end of m_sjoin.
CsJoin(side, u) ==
  LET first == side.chan.on \intersect Users = {u}
      marked == SendMode(side, {Change(TRUE, "r", NoValue)})
  IN RoleJoin(IF first THEN LockSet(marked) ELSE side, u)

\* m_sjoin with one nick; the modes of the line are applied again at its end.
MSjoin(c, line) ==
  LET joined == CsJoin(Side(With(c, line.user, line.status, line.modes), <<>>), line.user)
  IN LockApply([joined EXCEPT !.chan.modes = @ \union line.modes])

\* What services make of a line: m_sjoin, m_mode, and m_part, m_kick or m_quit.
Handled(line) ==
  CASE line.type = "sjoin" -> MSjoin(mirror, line)
    [] line.type = "mode" -> IF mirror.on = {} THEN Side(mirror, <<>>)
                             ELSE LockApply(ChannelMode(Side(mirror, <<>>), line.changes))
    [] OTHER -> Side(Without(mirror, line.user), <<>>)

\* A KICK of services and a join that neither side has seen.
Crossing(u, d) ==
  /\ \E i \in DOMAIN u : u[i].type = "sjoin"
  /\ \E i \in DOMAIN d : d[i].type = "kick"

PutsOn(line, f) ==
  \/ line.type = "sjoin" /\ f \in line.modes
  \/ line.type = "mode" /\ Change(TRUE, f, NoValue) \in line.changes

TakesOff(line, f) == line.type = "mode" /\ Change(FALSE, f, NoValue) \in line.changes

\* Flags of the lock that services will find put on while the daemon will find
\* them taken off, with no line behind that puts them back.
Overtaken(u, d) ==
  {f \in LockOn :
     /\ \E i \in DOMAIN u : PutsOn(u[i], f)
     /\ \E j \in DOMAIN d : TakesOff(d[j], f) /\ \A k \in j + 1..Len(d) : ~PutsOn(d[k], f)}

\* Services make a step: their lines are on the way to the daemon.
Services(side) ==
  /\ mirror' = side.chan
  /\ down' = down \o side.sent
  /\ Len(down') <= MaxDown
  /\ UNCHANGED <<real, features>>

Receive ==
  /\ up # <<>>
  /\ Services(Handled(Head(up)))
  /\ up' = Tail(up)
  /\ UNCHANGED <<crossed, unseen>>

----------------------------------------------------------------------------
(* Commands of users with a permission; the guards look at the mirror. *)

Command(side) ==
  /\ Services(side) /\ UNCHANGED up
  /\ crossed' = (crossed \/ Crossing(up, down'))
  /\ unseen' = unseen \union Overtaken(up, down')

Here == Side(mirror, <<>>)
Deop(side, u) == SendMode(side, {Change(FALSE, "o", u)})
OpDeopUsers == AdminUsers \union OperatorUsers
VoicingUsers == AdminUsers \union OperatorUsers \union VoiceUsers

\* OP
Op(source, target) ==
  /\ "commands" \in features /\ source \in OpDeopUsers
  /\ OnChan(mirror, target) /\ "o" \notin mirror.status[target]
  /\ Command(SendMode(Here, {Change(TRUE, "o", target)}))

\* DEOP
DeopCommand(source, target) ==
  /\ "commands" \in features /\ source \in OpDeopUsers
  /\ OnChan(mirror, target) /\ "o" \in mirror.status[target] /\ "a" \notin mirror.status[target]
  /\ Command(Deop(Here, target))

\* VOICE, DEVOICE
VoiceCommand(source, target) ==
  /\ "voices" \in features /\ source \in VoicingUsers
  /\ OnChan(mirror, target)
  /\ \/ /\ "v" \notin mirror.status[target]
        /\ Command(SendMode(Here, {Change(TRUE, "v", target)}))
     \/ /\ "v" \in mirror.status[target] /\ "a" \notin mirror.status[target]
        /\ Command(SendMode(Here, {Change(FALSE, "v", target)}))

\* irc_Kick: the mirror loses the member at once.
Kick(side, u) == Side(Without(side.chan, u), Append(side.sent, Kicked(u)))

\* KICK
KickCommand(source, target) ==
  /\ "kicks" \in features /\ source \in OpDeopUsers
  /\ OnChan(mirror, target) /\ "a" \notin mirror.status[target]
  /\ Command(Kick(Here, target))

\* The triggers of BotServ (!op, !deop, !voice, !devoice, !kick) are messages to
\* the channel.
OpTrigger(source, target) == source \in real.on /\ (Op(source, target) \/ DeopCommand(source, target))
VoiceTrigger(source, target) == source \in real.on /\ VoiceCommand(source, target)
KickTrigger(source, target) == source \in real.on /\ KickCommand(source, target)

\* CLEAR OPS: neither the one who asks nor local users.
ClearOps(source) ==
  /\ "commands" \in features /\ source \in AdminUsers /\ mirror.on # {}
  /\ Command(FoldLeft(Deop, Here,
        SetToSeq({u \in (mirror.on \intersect Users) \ {source} : "o" \in mirror.status[u]})))

\* CLEAR VOICES
ClearVoices(source) ==
  /\ "voices" \in features /\ source \in AdminUsers /\ mirror.on # {}
  /\ LET Devoice(s, u) == SendMode(s, {Change(FALSE, "v", u)})
     IN Command(FoldLeft(Devoice, Here,
          SetToSeq({u \in (mirror.on \intersect Users) \ {source} : "v" \in mirror.status[u]})))

\* CLEAR USERS
ClearUsers(source) ==
  /\ "kicks" \in features /\ source \in AdminUsers /\ mirror.on # {}
  /\ Command(FoldLeft(Kick, Here, SetToSeq((mirror.on \intersect Users) \ {source})))

UnbannedInMemory(side, masks) == [side EXCEPT !.chan.bans = @ \ masks]

\* One "-b" for each of the masks; they are lines without an answer.
Unbanned(side, masks) ==
  LET UnbanOne(s, mask) == SendMode(s, {Change(FALSE, "b", mask)})
  IN FoldLeft(UnbanOne, side, SetToSeq(masks))

\* UNBAN
Unban(source) ==
  /\ "bans" \in features /\ source \in OpDeopUsers /\ mirror.on # {}
  /\ Command(Unbanned(Here, {m \in mirror.bans : source \in m}))

\* CLEAR BANS
ClearBans(source) ==
  /\ "bans" \in features /\ source \in AdminUsers /\ mirror.on # {}
  /\ Command(Unbanned(Here, mirror.bans))

\* CLEAR MODES: every letter but "r" in one line, then the lock.
ClearModes(source) ==
  /\ "modes" \in features /\ source \in AdminUsers /\ mirror.on # {}
  /\ Command(LockApply(SendMode(Here,
        {Change(FALSE, l, NoValue) : l \in (FlagModes \ {"r"}) \union Params})))

----------------------------------------------------------------------------
(* The daemon and its users. *)

\* A line to services, which tells them of the flags in `told`; an empty
\* channel has no flags to tell of.
Report(line, told) ==
  /\ Len(up) < MaxUp
  /\ up' = Append(up, line)
  /\ crossed' = (crossed \/ Crossing(up', down))
  /\ unseen' = (IF real'.on = {} THEN {} ELSE unseen \ told) \union Overtaken(up', down)
  /\ UNCHANGED <<mirror, down, features>>

\* Whoever creates a channel is its op, with the flags of the daemon's choice;
\* a split may bring anyone back with op.
Join(u) ==
  /\ u \notin real.on
  /\ \E status \in SUBSET {"o"}, modes \in {{}, Creation} :
       /\ (status = {"o"}) <=> (real.on = {} \/ "split" \in features)
       /\ modes # {} => real.on = {}
       /\ real' = With(real, u, status, modes)
       /\ Report(Sjoin(u, status, modes), {})

\* PART, QUIT or a KICK by an op
Leave(u) ==
  /\ u \in real.on
  /\ real' = Without(real, u)
  /\ Report(Leaves(u), {})

Featured(feature, S) == IF feature \in features THEN S ELSE {}

MemberChanges(letter) == {Change(on, letter, m) : on \in BOOLEAN, m \in real.on}
FlagChanges == {Change(on, f, NoValue) : on \in BOOLEAN, f \in FlagModes \ {"r"}}
ParamChanges(p) == {Change(TRUE, p, v) : v \in Values} \union {Change(FALSE, p, NoValue)}
MaskChanges == {Change(on, "b", mask) : on \in BOOLEAN, mask \in Masks}

\* What an op may change: any letter but "a" and "r".
Changes ==
  Featured("ops", MemberChanges("o")) \union Featured("voices", MemberChanges("v"))
    \union Featured("modes", FlagChanges)
    \union Featured("params", UNION {ParamChanges(p) : p \in Params})
    \union Featured("bans", MaskChanges)

OpChanges(u) ==
  /\ u \in real.on /\ "o" \in real.status[u]
  /\ \E ch \in Changes :
       /\ Applied(real, ch) # real
       /\ real' = Applied(real, ch)
       /\ Report(Mode({ch}), {ch.letter})

\* The daemon carries out the oldest line of services.
Deliver ==
  /\ down # <<>>
  /\ down' = Tail(down)
  /\ real' = LET line == Head(down)
             IN IF real.on = {} THEN real
                ELSE IF line.type = "kick" THEN Without(real, line.user)
                ELSE AppliedAll(real, line.changes)
  /\ unseen' = IF real'.on = {} THEN {} ELSE {f \in unseen : ~PutsOn(Head(down), f)}
  /\ UNCHANGED <<mirror, up, crossed, features>>

\* Services have linked: the channel is empty, or their bot has created it;
\* the SJOIN of irc_ChanJoin carries modes that the mirror does not get.
ModesInit ==
  /\ features \in Scenarios
  /\ IF "bot" \in features
       THEN LET bot == With(NoChan, Bot, {"a", "o"}, {})
            IN real = [bot EXCEPT !.modes = Creation] /\ mirror = bot /\ unseen = Creation
       ELSE real = NoChan /\ mirror = NoChan /\ unseen = {}
  /\ up = <<>> /\ down = <<>> /\ crossed = FALSE

ModesNext ==
  \/ Receive \/ Deliver
  \/ \E u \in Users : Join(u) \/ OpChanges(u)
  \/ \E u \in Everyone : Leave(u)
  \/ \E s \in Users :
       \/ ClearOps(s) \/ ClearVoices(s) \/ ClearUsers(s) \/ ClearBans(s) \/ ClearModes(s)
       \/ Unban(s)
  \/ \E s \in Users, t \in Everyone :
       \/ Op(s, t) \/ DeopCommand(s, t) \/ VoiceCommand(s, t) \/ KickCommand(s, t)
       \/ OpTrigger(s, t) \/ VoiceTrigger(s, t) \/ KickTrigger(s, t)

ModesSpec == ModesInit /\ [][ModesNext]_modesvars

----------------------------------------------------------------------------
(* Properties *)

Quiet == up = <<>> /\ down = <<>>

\* What irc_ChanMLockApply is for, but for the flags services were not told of.
ObeysLock(c) ==
  /\ LockOn \subseteq c.modes \union unseen /\ LockOff \intersect c.modes \subseteq unseen
  /\ \A p \in LockedParams : c.param[p] = LockedValue
  /\ \A p \in Params \intersect LockOff : c.param[p] = NoValue

\* When every line has been read, a channel with users obeys its mode lock:
\* whatever ops change while the answers of irc_ChanMLockApply are on their
\* way.  Two things are set aside.  A KICK of services that crosses a join:
\* services then forget a channel that goes on, modes and all.  And the flags
\* services were never told of, until somebody changes them: the +nt their bot
\* has created the channel with, and a flag that CLEAR MODES takes from a
\* channel whose SJOIN, still to be read, gives it to the mirror.
LockConverges ==
  Quiet /\ ~crossed /\ real.on \intersect Users # {} => ObeysLock(real) /\ "r" \in real.modes

\* When every line has been read, no user without a role in force is op of a
\* channel with SECUREOPS, however the op was come by: creation, a split, an
\* op of the channel or the command OP of services themselves; and the bot is
\* op wherever it is, for no answer of services takes that from it.
OpsConverge ==
  Quiet => /\ SecureOps => \A u \in Users \ Roled : "o" \notin real.status[u]
           /\ Bot \in real.on => "o" \in real.status[Bot]

\* When every line has been read, services know every ban of the channel, so
\* UNBAN takes all that keep a user out.
BansKnown == Quiet /\ ~crossed => real.bans \subseteq mirror.bans

============================================================================
