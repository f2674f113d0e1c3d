----------------------------- MODULE IrcNetwork -----------------------------
(***************************************************************************)
(* The mirror of the IRC network that libircservice keeps for the services *)
(* (libircservice/src/user.c, server.c, channel.c, umode.c): which servers *)
(* and users exist, who is on which channel, and the counters and pointers *)
(* that go with every channel. The module also holds the two callers that  *)
(* change the mirror from inside a message handler: the channel guard of   *)
(* cs_akick.c and cs_role.c, and the kills of os_uevent.c.                 *)
(*                                                                         *)
(* Membership is stored twice, in the userlist of the channel and in the   *)
(* chanlist of the user, and each list is changed by functions of its own. *)
(* The lists are sets here. A second node of the same user in one list is  *)
(* outside that representation and ends a behaviour (fault "duplicate").   *)
(*                                                                         *)
(* Services run in one thread, so an action is a whole message or command. *)
(* The exception is m_sjoin: its loop takes one step per nick, because     *)
(* every nick calls the join handlers, and nothing else runs until the     *)
(* loop is done.                                                           *)
(***************************************************************************)
EXTENDS Integers, FiniteSets

CONSTANTS
  Remotes,        \* users of the network
  Locals,         \* users of the services (ChanServ, bots)
  ChanServ,       \* csu->u
  Servers,        \* names of remote servers
  Chans,          \* channel names
  LogChan,        \* the channel services log to, NONE for none
  NONE,           \* the NULL pointer
  LocalServer,    \* irc_LocalServer
  Features,       \* the optional behaviours below
  MaxPartTimers,  \* bound: part timers of one channel at the same time
  MaxCount        \* bound: no mode +S or -S while a users_count exceeds it

(* "stealth": remote users set and unset user mode +S;                     *)
(* "akick": the joining user is banned from the channel;                   *)
(* "joinkill": an os_uevent action kills the joining user;                 *)
(* "crossing": the network still mentions users the services have killed.  *)
AllFeatures == {"stealth", "akick", "joinkill", "crossing"}

Members == Remotes \union Locals

ASSUME NetworkAssumption ==
  /\ IsFiniteSet(Remotes) /\ IsFiniteSet(Locals)
  /\ Remotes \intersect Locals = {}
  /\ ChanServ \in Locals
  /\ NONE \notin Members \union Servers \union Chans
  /\ LocalServer \notin Members \union {NONE}
  /\ LogChan \in Chans \union {NONE}
  /\ Features \subseteq AllFeatures
  /\ MaxPartTimers \in Nat /\ MaxCount \in Nat

VARIABLES
  servers,      \* the remote servers of the user hash table
  users,        \* the global user list
  server, from, \* the pointers of every remote user
  stealth,      \* the remote users with UMODE_STEALTH
  locals,       \* the local user hash table
  chans,        \* the channel hash table
  chan,         \* the IRC_Chan of every name of chans
  chanlist,     \* the chanlist of every user
  part_timers,  \* pending 30 second timers of the guard, per channel
  ChanMlocker,  \* irc_ChanMlocker
  sjoin,        \* the m_sjoin being processed: its channel and nicks to go
  fault         \* why the process is lost, "none" as long as it runs

vars == <<servers, users, server, from, stealth, locals, chans, chan,
          chanlist, part_timers, ChanMlocker, sjoin, fault>>

NoSjoin == [chan |-> NONE, nicks |-> {}]

Channel == [userlist : SUBSET Members, users_count : Int,
            lusers_count : Int, local_user : Locals \union {NONE}]

(* irc_CreateChan *)
NewChan == [userlist |-> {}, users_count |-> 0, lusers_count |-> 0,
            local_user |-> NONE]

Faults == {"assert", "freed_channel", "duplicate"}

TypeOK ==
  /\ servers \subseteq Servers
  /\ users \subseteq Remotes
  /\ server \in [Remotes -> Servers \union {NONE}]
  /\ from \in [Remotes -> Servers \union {NONE}]
  /\ stealth \subseteq Remotes
  /\ locals \subseteq Locals
  /\ chans \subseteq Chans
  /\ chan \in [Chans -> Channel]
  /\ chanlist \in [Members -> SUBSET Chans]
  /\ part_timers \in [Chans -> 0..MaxPartTimers]
  /\ ChanMlocker \in Locals \union {LocalServer}
  /\ sjoin \in [chan : Chans \union {NONE}, nicks : SUBSET Remotes]
  /\ fault \in Faults \union {"none"}

Init ==
  /\ servers = {}
  /\ users = {}
  /\ server = [u \in Remotes |-> NONE]
  /\ from = [u \in Remotes |-> NONE]
  /\ stealth = {}
  /\ locals = {}
  /\ chans = {}
  /\ chan = [c \in Chans |-> NewChan]
  /\ chanlist = [m \in Members |-> {}]
  /\ part_timers = [c \in Chans |-> 0]
  /\ ChanMlocker = LocalServer
  /\ sjoin = NoSjoin
  /\ fault = "none"

Running == fault = "none"

(* The main loop is free to handle the next message, command or timer. *)
Idle == Running /\ sjoin = NoSjoin

-----------------------------------------------------------------------------
(* One channel: add_user_to_chan and del_user_from_chan.                   *)

(* The members in M that the counters of a channel count.                  *)
Counted(M) == M \ stealth

WithMember(r, m) ==
  [userlist |-> r.userlist \union {m},
   users_count |-> r.users_count + Cardinality(Counted({m})),
   lusers_count |-> r.lusers_count + Cardinality(Counted({m} \intersect Locals)),
   local_user |-> IF m \in Locals /\ r.local_user = NONE THEN m ELSE r.local_user]

LocalsOn(r) == r.userlist \intersect Locals

(* The local users that can speak for the channel once M has left: when    *)
(* local_user goes, the first local user of the rest of the list.          *)
Successors(r, M) ==
  IF r.local_user \notin M THEN {r.local_user}
  ELSE IF LocalsOn(r) \subseteq M THEN {NONE}
  ELSE LocalsOn(r) \ M

LeavesLocalCount(r, M, successor) ==
  [userlist |-> r.userlist \ M,
   users_count |-> r.users_count - Cardinality(Counted(r.userlist \intersect M)),
   lusers_count |-> r.lusers_count, local_user |-> successor]

WithoutMembers(r, M, successor) ==
  [userlist |-> r.userlist \ M,
   users_count |-> r.users_count - Cardinality(Counted(r.userlist \intersect M)),
   lusers_count |->
     r.lusers_count - Cardinality(Counted(LocalsOn(r) \intersect M)),
   local_user |-> successor]

LosesLast(r, M) == M # {} /\ r.userlist \subseteq M

(* The two assertions of del_user_from_chan. *)
AssertFails(r) ==
  \/ r.users_count < 0
  \/ r.userlist = {} /\ r.users_count # 0

-----------------------------------------------------------------------------
(* All channels.                                                           *)

(* The members of Leaving[c] leave every channel c, when base and timers   *)
(* are the channels and their part timers so far. A channel that loses its *)
(* last member is freed, with its timers.                                  *)
Remove(base, timers, Leaving) ==
  LET Out(c) == Leaving[c] \intersect base[c].userlist
      Freed == {c \in Chans : LosesLast(base[c], Out(c))}
  IN
  /\ \E successor \in [Chans -> Locals \union {NONE}] :
     /\ \A c \in Chans : successor[c] \in Successors(base[c], Out(c))
     /\ LET after(c) == WithoutMembers(base[c], Out(c), successor[c]) IN
        /\ chan' = [c \in Chans |-> IF c \in Freed THEN NewChan ELSE after(c)]
        /\ fault' =
             IF \E c \in Chans : Out(c) # {} /\ AssertFails(after(c))
             THEN "assert"
             ELSE IF \/ sjoin.chan \in Freed
                     \/ \E c \in Chans : Leaving[c] # {} /\ c \notin chans
             THEN "freed_channel"
             ELSE "none"
  /\ chans' = chans \ Freed
  /\ part_timers' = [c \in Chans |-> IF c \in Freed THEN 0 ELSE timers[c]]

(* del_chan_from_user for everybody who leaves *)
ListsWithout(lists, Leaving) ==
  [m \in Members |-> {c \in lists[m] : m \notin Leaving[c]}]

(* What del_user_chans does for the users in M: they leave the channels of *)
(* their own chanlist.                                                     *)
OwnChansForgotten(lists, M) == [c \in Chans |-> {}]

OwnChans(lists, M) == [c \in Chans |-> {m \in M : c \in lists[m]}]

LeaveOne(c, m) == [d \in Chans |-> IF d = c THEN {m} ELSE {}]

(* m joins c: add_user_to_chan, add_chan_to_user *)
With(base, m, c) == [base EXCEPT ![c] = WithMember(@, m)]

ListsWith(lists, m, c) == [lists EXCEPT ![m] = @ \union {c}]

JoinFault(c, m) == IF m \in chan[c].userlist THEN "duplicate" ELSE "none"

-----------------------------------------------------------------------------
(* Servers and users.                                                      *)

MServer(s) ==
  /\ Idle
  /\ s \notin servers
  /\ servers' = servers \union {s}
  /\ UNCHANGED <<users, server, from, stealth, locals, chans, chan, chanlist,
                 part_timers, ChanMlocker, sjoin, fault>>

(* remove_remote_user for every user in M *)
RemoveRemotes(M) ==
  LET Leaving == OwnChans(chanlist, M) IN
  /\ Remove(chan, part_timers, Leaving)
  /\ chanlist' = ListsWithout(chanlist, Leaving)
  /\ users' = users \ M
  /\ stealth' = stealth \ M
  /\ server' = [u \in Remotes |-> IF u \in M THEN NONE ELSE server[u]]
  /\ from' = [u \in Remotes |-> IF u \in M THEN NONE ELSE from[u]]

UsersBehind(s) == {u \in users : server[u] = s \/ from[u] = s}

MSquit(s) ==
  /\ Idle
  /\ s \in servers
  /\ RemoveRemotes(UsersBehind(s))
  /\ servers' = servers \ {s}
  /\ UNCHANGED <<locals, ChanMlocker, sjoin>>

(* A nick is introduced. The prefix of the message must be a known server  *)
(* or be missing; the server named in it may be unknown. A user that an    *)
(* ET_NEW_USER handler kills is gone again at once and changes nothing.    *)
MNick(u, s, f, umodes) ==
  /\ Idle
  /\ u \notin users
  /\ umodes \subseteq Features \intersect {"stealth"}
  /\ users' = users \union {u}
  /\ server' = [server EXCEPT ![u] = s]
  /\ from' = [from EXCEPT ![u] = f]
  /\ stealth' = IF umodes = {} THEN stealth ELSE stealth \union {u}
  /\ UNCHANGED <<servers, locals, chans, chan, chanlist, part_timers,
                 ChanMlocker, sjoin, fault>>

(* QUIT, KILL by the network, irc_Kill by a service or by the creation of  *)
(* a local user with the nick of u.                                        *)
RemoteLeaves(u) ==
  /\ Idle
  /\ u \in users
  /\ RemoveRemotes({u})
  /\ UNCHANGED <<servers, locals, ChanMlocker, sjoin>>

(* umode_change with +S or -S *)
UmodeChange(u) ==
  /\ Idle
  /\ "stealth" \in Features
  /\ u \in users
  /\ \A c \in Chans : chan[c].users_count <= MaxCount
  /\ stealth' = IF u \in stealth THEN stealth \ {u} ELSE stealth \union {u}
  /\ UNCHANGED <<servers, users, server, from, locals, chans, chan, chanlist,
                 part_timers, ChanMlocker, sjoin, fault>>

CreateLocalUser(l) ==
  /\ Idle
  /\ l \notin locals
  /\ locals' = locals \union {l}
  /\ UNCHANGED <<servers, users, server, from, stealth, chans, chan, chanlist,
                 part_timers, ChanMlocker, sjoin, fault>>

(* irc_QuitLocalUser, remove_local_user *)
QuitLocalUser(l) ==
  /\ Idle
  /\ l \in locals
  /\ LET Leaving == OwnChans(chanlist, {l}) IN
     /\ Remove(chan, part_timers, Leaving)
     /\ chanlist' = ListsWithout(chanlist, Leaving)
  /\ locals' = locals \ {l}
  /\ ChanMlocker' = IF ChanMlocker = l THEN LocalServer ELSE ChanMlocker
  /\ UNCHANGED <<servers, users, server, from, stealth, sjoin>>

SetChanMlocker ==
  /\ Idle
  /\ ChanServ \in locals
  /\ ChanMlocker' = ChanServ
  /\ UNCHANGED <<servers, users, server, from, stealth, locals, chans, chan,
                 chanlist, part_timers, sjoin, fault>>

-----------------------------------------------------------------------------
(* Channels.                                                               *)

(* The SJOIN message: nobody is introduced on a channel twice, and without *)
(* "crossing" only users that the services know are on the nick list.      *)
MSjoin(c, nicks) ==
  /\ Idle
  /\ nicks # {}
  /\ nicks \intersect chan[c].userlist = {}
  /\ "crossing" \notin Features => nicks \subseteq users
  /\ chans' = chans \union {c}
  /\ sjoin' = [chan |-> c, nicks |-> nicks]
  /\ UNCHANGED <<servers, users, server, from, stealth, locals, chan, chanlist,
                 part_timers, ChanMlocker, fault>>

(* m_sjoin takes u off the rest of the nick list. *)
NickDone(u) ==
  sjoin' = IF sjoin.nicks = {u} THEN NoSjoin
           ELSE [sjoin EXCEPT !.nicks = @ \ {u}]

SjoinUnknown(u) ==
  /\ Running
  /\ u \in sjoin.nicks \ users
  /\ NickDone(u)
  /\ UNCHANGED <<servers, users, server, from, stealth, locals, chans, chan,
                 chanlist, part_timers, ChanMlocker, fault>>

(* The join handlers have nothing against u. *)
SjoinNick(u) ==
  LET c == sjoin.chan IN
  /\ Running
  /\ u \in sjoin.nicks \intersect users
  /\ chan' = With(chan, u, c)
  /\ chanlist' = ListsWith(chanlist, u, c)
  /\ fault' = JoinFault(c, u)
  /\ NickDone(u)
  /\ UNCHANGED <<servers, users, server, from, stealth, locals, chans,
                 part_timers, ChanMlocker>>

(* u matches an akick, or may not be on this channel: when u is the only   *)
(* user that counts, ChanServ joins for 30 seconds to hold the ban, then   *)
(* irc_Kick takes u off the channel again.                                 *)
NeverNeedsGuard(r) == FALSE

NeedsGuard(r) == r.users_count = 1

GuardTimer(c) == [part_timers EXCEPT ![c] = @ + 1]

SjoinAkick(u) ==
  LET c == sjoin.chan
      joined == With(chan, u, c)
      lists == ListsWith(chanlist, u, c)
      kicked == LeaveOne(c, u)
  IN
  /\ Running
  /\ "akick" \in Features
  /\ u \in sjoin.nicks \intersect users
  /\ ChanServ \in locals
  /\ \/ /\ ~NeedsGuard(joined[c])
        /\ Remove(joined, part_timers, kicked)
        /\ chanlist' = ListsWithout(lists, kicked)
     \/ /\ NeedsGuard(joined[c])
        /\ ChanServ \notin chan[c].userlist
        /\ part_timers[c] < MaxPartTimers
        /\ Remove(With(joined, ChanServ, c), GuardTimer(c), kicked)
        /\ chanlist' = ListsWithout(ListsWith(lists, ChanServ, c), kicked)
     \/ /\ NeedsGuard(joined[c])
        /\ ChanServ \in chan[c].userlist
        /\ fault' = "duplicate"
        /\ UNCHANGED <<chans, chan, chanlist, part_timers>>
  /\ NickDone(u)
  /\ UNCHANGED <<servers, users, server, from, stealth, locals, ChanMlocker>>

(* The action of an os_uevent on joins kills u. *)
SjoinKill(u) ==
  LET c == sjoin.chan
      lists == ListsWith(chanlist, u, c)
      Leaving == OwnChans(lists, {u})
  IN
  /\ Running
  /\ "joinkill" \in Features
  /\ u \in sjoin.nicks \intersect users
  /\ Remove(With(chan, u, c), part_timers, Leaving)
  /\ chanlist' = ListsWithout(lists, Leaving)
  /\ users' = users \ {u}
  /\ stealth' = stealth \ {u}
  /\ server' = [server EXCEPT ![u] = NONE]
  /\ from' = [from EXCEPT ![u] = NONE]
  /\ NickDone(u)
  /\ UNCHANGED <<servers, locals, ChanMlocker>>

(* PART, KICK by the network (which may hit a local user), irc_Kick and    *)
(* irc_ChanPart by a service. Nothing happens to somebody not on c.        *)
LeaveChan(m, c) ==
  /\ Idle
  /\ c \in chans
  /\ m \in chan[c].userlist
  /\ Remove(chan, part_timers, LeaveOne(c, m))
  /\ chanlist' = ListsWithout(chanlist, LeaveOne(c, m))
  /\ UNCHANGED <<servers, users, server, from, stealth, locals, ChanMlocker,
                 sjoin>>

(* ChanServ makes itself the local_user of LogChan. *)
Speaks(r, l) ==
  IF l = ChanServ THEN [r EXCEPT !.local_user = ChanServ] ELSE r

(* irc_ChanJoin: a service joins LogChan when its module is loaded, a bot  *)
(* joins the channel it is assigned to while no local user is there.       *)
ChanJoin(l, c) ==
  /\ Idle
  /\ l \in locals
  /\ l \notin chan[c].userlist
  /\ c = LogChan \/ (l # ChanServ /\ chan[c].local_user = NONE)
  /\ chans' = chans \union {c}
  /\ chan' = [chan EXCEPT ![c] = Speaks(WithMember(@, l), l)]
  /\ chanlist' = ListsWith(chanlist, l, c)
  /\ UNCHANGED <<servers, users, server, from, stealth, locals, part_timers,
                 ChanMlocker, sjoin, fault>>

(* ev_cs_akick_timer_part, ev_cs_role_timer_part *)
Due(c) == part_timers[c] > 0

PartsAlone(c) == chan[c].local_user = ChanServ /\ chan[c].users_count = 1

Parts(c) == chan[c].local_user = ChanServ

TimerPart(c) ==
  LET Leaving == IF Parts(c) THEN LeaveOne(c, ChanServ) ELSE [d \in Chans |-> {}]
  IN
  /\ Idle
  /\ Due(c)
  /\ Remove(chan, [part_timers EXCEPT ![c] = @ - 1], Leaving)
  /\ chanlist' = ListsWithout(chanlist, Leaving)
  /\ UNCHANGED <<servers, users, server, from, stealth, locals, ChanMlocker,
                 sjoin>>

Next ==
  \/ \E s \in Servers : MServer(s) \/ MSquit(s)
  \/ \E u \in Remotes :
       \/ \E s \in servers \union {NONE}, f \in servers \union {NONE} :
            \E umodes \in SUBSET {"stealth"} : MNick(u, s, f, umodes)
       \/ RemoteLeaves(u)
       \/ UmodeChange(u)
       \/ SjoinUnknown(u)
       \/ SjoinNick(u)
       \/ SjoinAkick(u)
       \/ SjoinKill(u)
  \/ \E l \in Locals : CreateLocalUser(l) \/ QuitLocalUser(l)
  \/ SetChanMlocker
  \/ \E c \in Chans :
       \/ \E nicks \in SUBSET Remotes : MSjoin(c, nicks)
       \/ \E m \in Members : LeaveChan(m, c)
       \/ \E l \in Locals : ChanJoin(l, c)
       \/ TimerPart(c)

SjoinStep ==
  \E u \in Remotes : SjoinUnknown(u) \/ SjoinNick(u) \/ SjoinAkick(u) \/ SjoinKill(u)

(* A message being processed is processed to its end, and the main loop    *)
(* runs the timers after every batch of messages.                          *)
Spec ==
  /\ Init /\ [][Next]_vars
  /\ WF_vars(SjoinStep)
  /\ \A c \in Chans : SF_vars(TimerPart(c))

-----------------------------------------------------------------------------
(* The process neither fails an assertion of del_user_from_chan, nor goes  *)
(* on in m_sjoin with a channel that a join handler has freed, nor walks a *)
(* chanlist into a freed channel, nor lists a member twice.                *)
NoFault == fault = "none"

(* The userlist of the channel and the chanlist of the user tell the same, *)
(* although every handler updates the two by separate calls; a missing     *)
(* entry leaves a pointer to a freed user or channel behind.               *)
ListsAgree ==
  \A m \in Members, c \in Chans : c \in chanlist[m] <=> m \in chan[c].userlist

(* Whoever is listed exists, and so does every channel in a chanlist: no   *)
(* way out of the network (QUIT, KILL, SQUIT, unload) leaves a member.     *)
NoDanglingMember ==
  /\ \A c \in Chans : chan[c].userlist \subseteq users \union locals
  /\ \A m \in Members : chanlist[m] \subseteq chans

(* local_user, in whose name services act on the channel, is a local user  *)
(* on it whenever there is one.                                            *)
LocalUserSpeaks ==
  \A c \in Chans : chan[c].local_user \in
    IF LocalsOn(chan[c]) = {} THEN {NONE} ELSE LocalsOn(chan[c])

(* The counters are the numbers of visible members, so their difference,   *)
(* on which chanserv opens and closes channel records, counts the remotes. *)
CountsExact ==
  \A c \in Chans :
    /\ chan[c].users_count = Cardinality(Counted(chan[c].userlist))
    /\ chan[c].lusers_count = Cardinality(LocalsOn(chan[c]))

(* No user points to a freed server, nor the mode lock to a freed user.    *)
PointersLive ==
  /\ \A u \in users : {server[u], from[u]} \subseteq servers \union {NONE}
  /\ ChanMlocker \in locals \union {LocalServer}

(* The whole mirror: no way in or out of the network, through QUIT, KILL,  *)
(* SQUIT, PART, KICK, unloading or the handlers of a join, leaves one of   *)
(* the two lists, a pointer or the speaker of a channel behind.            *)
MirrorSound == ListsAgree /\ NoDanglingMember /\ LocalUserSpeaks /\ PointersLive

(* ChanServ is on a channel other than LogChan only as its guard, can be   *)
(* found there by the timer, and a timer is pending.                       *)
GuardHasTimer ==
  \A c \in Chans \ {LogChan} :
    ChanServ \in chan[c].userlist =>
      chan[c].local_user = ChanServ /\ part_timers[c] > 0

(* The guard does not stay: ChanServ leaves the channel after the ban.     *)
GuardLeaves ==
  \A c \in Chans \ {LogChan} :
    ChanServ \in chan[c].userlist ~> ChanServ \notin chan[c].userlist

=============================================================================
