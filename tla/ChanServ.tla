------------------------------- MODULE ChanServ -------------------------------
(***************************************************************************)
(* Registered channels (src/chanrecord.c, modules/chanserv.c,              *)
(* cs_register.c, cs_drop.c, cs_set.c, cs_suspend.c, cs_akick.c) and the   *)
(* bots assigned to them (botserv.c, bs_create.c, bs_assign.c, bs_drop.c). *)
(*                                                                         *)
(* The record of a channel is a row of the database. While the channel is  *)
(* in use it is also a ChanRecord in memory (sdata), from the first member *)
(* to the last. Handlers change one or the other or both, and every        *)
(* UpdateCR writes the whole record from memory over the row.              *)
(*                                                                         *)
(* A nick stands for its snid: once deleted it never comes back, a nick    *)
(* registered again gets another snid. An operator, an administrator and   *)
(* an owner of the roles of cs_role.c are whoever a command needs, so      *)
(* commands have no guard on who gives them unless it looks at the record. *)
(*                                                                         *)
(* Left out: ref_count (a handler that opens a record that is attached     *)
(* only ever adds references to it, see README.md), options besides the    *)
(* suspension, users in stealth mode and the timers of the guard, which    *)
(* IrcNetwork models.                                                      *)
(***************************************************************************)
EXTENDS Integers, FiniteSets

CONSTANTS
  Users,      \* remote users
  Nicks,      \* registered nicks
  Bots,
  Chans,
  Masks,      \* ban masks: a mask is the set of users it matches
  ChanServ,   \* csu->u
  NONE,
  MaxScid     \* bound: channels ever registered

ASSUME ChanServAssumption ==
  /\ NONE \notin Users \union Nicks \union Bots \union {ChanServ}
  /\ ChanServ \notin Bots
  /\ Masks \subseteq SUBSET Users
  /\ MaxScid \in Nat

VARIABLES
  users,         \* the remote users of every channel
  local,         \* its local user: the guard ChanServ or a bot
  sdata,         \* chan->sdata
  chanserv,      \* the table of channels
  suspensions,   \* the channels with a row in chanserv_suspensions
  cs_akick,      \* the masks of every channel in the database
  nicks,         \* the nicks in the database
  botserv,       \* the owner of every bot in the database
  botserv_chans, \* the bot assigned to every channel
  online,        \* the bots that are connected
  next_scid      \* auto_increment

vars == <<users, local, sdata, chanserv, suspensions, cs_akick, nicks,
          botserv, botserv_chans, online, next_scid>>

(* A row: the scid, the nicks of the founder and of the successor, and     *)
(* whether CFL_SUSPENDED is set                                            *)
NoRow == [scid |-> 0, founder |-> NONE, successor |-> NONE, suspended |-> FALSE]

(* ChanRecord: loaded is extra[ED_AKICKS] # NULL, akicks the masks it holds*)
NewCR(row) == [row |-> row, loaded |-> FALSE, akicks |-> {}]

NoCR == NewCR(NoRow)

Init ==
  /\ users = [c \in Chans |-> {}]
  /\ local = [c \in Chans |-> NONE]
  /\ sdata = [c \in Chans |-> NoCR]
  /\ chanserv = [c \in Chans |-> NoRow]
  /\ suspensions = {}
  /\ cs_akick = [c \in Chans |-> {}]
  /\ nicks = Nicks
  /\ botserv = [b \in Bots |-> NONE]
  /\ botserv_chans = [c \in Chans |-> NONE]
  /\ online = {}
  /\ next_scid = 1

-----------------------------------------------------------------------------
(* Records.                                                                *)

(* The channel is in the channel hash table. *)
InUse(us, lo, c) == us[c] # {} \/ lo[c] # NONE

(* The row of a name and of an scid, which is 0 for a name without one     *)
db_mysql_chan2scid(c) == chanserv[c].scid

db_mysql_get_cr(scid) ==
  NewCR(CHOOSE row \in {chanserv[c] : c \in Chans} : row.scid = scid)

(* OpenCR: the attached record, or a copy of the row *)
Opened(c) ==
  IF sdata[c] # NoCR THEN sdata[c]
  ELSE IF db_mysql_chan2scid(c) # 0 THEN db_mysql_get_cr(db_mysql_chan2scid(c))
  ELSE NoCR

(* UpdateCR on the table t: the foreign keys refuse a nick that is gone.   *)
ForeignKeysHold(row) == {row.founder, row.successor} \subseteq nicks \union {NONE}

Updated(t, c, row) ==
  IF t[c].scid = row.scid /\ ForeignKeysHold(row) THEN [t EXCEPT ![c] = row]
  ELSE t

StoreRow(c, row) == chanserv' = Updated(chanserv, c, row) /\ UNCHANGED sdata

(* OpenCR, a change to row, UpdateCR, CloseCR *)
Store(c, row) ==
  /\ chanserv' = Updated(chanserv, c, row)
  /\ sdata' = IF sdata[c] = NoCR THEN sdata ELSE [sdata EXCEPT ![c].row = row]

(* ev_cs_chan_part: the last member of a channel closes its record.        *)
Closed(s, us, lo) ==
  [c \in Chans |-> IF InUse(us, lo, c) THEN s[c] ELSE NoCR]

(* The local users in L leave the channels of C. *)
LocalsLeave(C, L) ==
  /\ local' = [c \in Chans |-> IF c \in C /\ local[c] \in L THEN NONE ELSE local[c]]
  /\ sdata' = Closed(sdata, users, local')

(* DELETE FROM chanserv for the channels in C, with what the foreign keys  *)
(* delete; their local users leave. t is the table as to the other rows,   *)
(* ended are suspensions that are over.                                    *)
Forget(C, t, ended) ==
  /\ chanserv' = [c \in Chans |-> IF c \in C THEN NoRow ELSE t[c]]
  /\ suspensions' = suspensions \ (C \union ended)
  /\ cs_akick' = [c \in Chans |-> IF c \in C THEN {} ELSE cs_akick[c]]
  /\ local' = [c \in Chans |-> IF c \in C /\ sdata[c] # NoCR THEN NONE ELSE local[c]]

WithRecords(s, C) == s

WithoutRecords(s, C) == [c \in Chans |-> IF c \in C THEN NoCR ELSE s[c]]

-----------------------------------------------------------------------------
(* Members.                                                                *)

(* load_akicks_for, on the first join or command that needs the list       *)
Loaded(c, r) ==
  IF r.loaded THEN r ELSE [r EXCEPT !.loaded = TRUE, !.akicks = cs_akick[c]]

Attach(c, r) == sdata' = [sdata EXCEPT ![c] = r]

(* ev_cs_chan_join writes a new maximum of users and ev_cs_role_chan_join  *)
(* the time a user with a role joined; neither changes anything else.      *)
MaySave(c, r) ==
  \/ chanserv' = chanserv
  \/ chanserv' = Updated(chanserv, c, r.row)

Joins(c, u, r) ==
  /\ users' = [users EXCEPT ![c] = @ \union {u}]
  /\ UNCHANGED local
  /\ Attach(c, r)

(* The user is banned and kicked. ChanServ joins to keep the ban when      *)
(* nobody else would be left.                                              *)
Kicked(c, r) ==
  /\ local' = IF InUse(users, local, c) THEN local
              ELSE [local EXCEPT ![c] = ChanServ]
  /\ UNCHANGED users
  /\ Attach(c, r)

(* ev_cs_role_chan_join: the channel is suspended or restricted and the    *)
(* user is no operator.                                                    *)
PassesRoles(c, u, r) == Joins(c, u, r) \/ Kicked(c, r)

(* ev_cs_akick_chan_join: the first mask that matches u may have expired;  *)
(* it is taken off the list and no other is looked at.                     *)
PassesAkicks(c, u, r) ==
  LET matching == {m \in r.akicks : u \in m} IN
  \/ /\ matching \intersect cs_akick[c] # {}
     /\ Kicked(c, r)
  \/ /\ matching = {}
     /\ PassesRoles(c, u, r)
  \/ \E m \in matching \ cs_akick[c] :
       PassesRoles(c, u, [r EXCEPT !.akicks = @ \ {m}])

(* m_sjoin of a user, ev_cs_chan_join *)
Join(c, u) ==
  /\ u \notin users[c]
  /\ LET r == Opened(c) IN
     \/ /\ r = NoCR
        /\ Joins(c, u, NoCR)
        /\ UNCHANGED chanserv
     \/ /\ r # NoCR
        /\ MaySave(c, r)
        /\ PassesAkicks(c, u, Loaded(c, r))
  /\ UNCHANGED <<suspensions, cs_akick, nicks, botserv, botserv_chans, online,
                 next_scid>>

(* PART, KICK, KILL, QUIT and SQUIT take a user off a channel.             *)
Leave(c, u) ==
  /\ u \in users[c]
  /\ users' = [users EXCEPT ![c] = @ \ {u}]
  /\ sdata' = Closed(sdata, users', local)
  /\ UNCHANGED <<local, chanserv, suspensions, cs_akick, nicks, botserv,
                 botserv_chans, online, next_scid>>

(* The timer of the guard, or a KICK of the local user.                    *)
LocalLeaves(c) ==
  /\ local[c] # NONE
  /\ LocalsLeave({c}, {local[c]})
  /\ UNCHANGED <<users, chanserv, suspensions, cs_akick, nicks, botserv,
                 botserv_chans, online, next_scid>>

-----------------------------------------------------------------------------
(* Commands of ChanServ.                                                   *)

(* db_mysql_insert_cr takes the scid that the row is given over.           *)
InsertedCR(c, cr) ==
  /\ next_scid <= MaxScid
  /\ chanserv' = [chanserv EXCEPT ![c] = cr.row]
  /\ next_scid' = next_scid + 1

(* REGISTER by a channel operator who is identified for n *)
Register(c, n) ==
  /\ n \in nicks
  /\ users[c] # {}
  /\ Opened(c) = NoCR
  /\ LET cr == NewCR([scid |-> next_scid, founder |-> n, successor |-> NONE,
                      suspended |-> FALSE]) IN
     /\ InsertedCR(c, cr)
     /\ Attach(c, cr)
  /\ UNCHANGED <<users, local, suspensions, cs_akick, nicks, botserv,
                 botserv_chans, online>>

(* SET FOUNDER, SSET FOUNDER *)
SetFounder(c, n) ==
  /\ n \in nicks
  /\ Opened(c) # NoCR
  /\ LET row == Opened(c).row IN
     /\ n \notin {row.founder, row.successor}
     /\ Store(c, [row EXCEPT !.founder = n])
  /\ UNCHANGED <<users, local, suspensions, cs_akick, nicks, botserv,
                 botserv_chans, online, next_scid>>

SetSuccessor(c, n) ==
  /\ n \in nicks
  /\ Opened(c) # NoCR
  /\ LET row == Opened(c).row IN
     /\ n \notin {row.founder, row.successor}
     /\ Store(c, [row EXCEPT !.successor = n])
  /\ UNCHANGED <<users, local, suspensions, cs_akick, nicks, botserv,
                 botserv_chans, online, next_scid>>

(* The other options of SET and SSET, and ev_cs_chan_topic.                *)
SetOption(c) ==
  /\ Opened(c) # NoCR
  /\ Store(c, Opened(c).row)
  /\ UNCHANGED <<users, local, suspensions, cs_akick, nicks, botserv,
                 botserv_chans, online, next_scid>>

(* SUSPEND and UNSUSPEND change the row and the attached record apart.     *)
Suspended(t, c, b) == [t EXCEPT ![c].suspended = b]

RecordNotTold(s, c, b) == s

RecordSuspended(s, c, b) ==
  IF s[c] = NoCR THEN s ELSE [s EXCEPT ![c].row.suspended = b]

Suspend(c) ==
  /\ chanserv[c] # NoRow
  /\ c \notin suspensions
  /\ suspensions' = suspensions \union {c}
  /\ chanserv' = Suspended(chanserv, c, TRUE)
  /\ sdata' = RecordSuspended(sdata, c, TRUE)
  /\ UNCHANGED <<users, local, cs_akick, nicks, botserv, botserv_chans, online,
                 next_scid>>

Unsuspend(c) ==
  /\ c \in suspensions
  /\ suspensions' = suspensions \ {c}
  /\ chanserv' = Suspended(chanserv, c, FALSE)
  /\ sdata' = RecordSuspended(sdata, c, FALSE)
  /\ UNCHANGED <<users, local, cs_akick, nicks, botserv, botserv_chans, online,
                 next_scid>>

(* DROP by the founder of a channel that is not suspended, or SDROP;       *)
(* ev_botserv_chan_delete                                                  *)
Drop(c) ==
  /\ Opened(c) # NoCR
  /\ Forget({c}, chanserv, {})
  /\ sdata' = WithoutRecords(sdata, {c})
  /\ botserv_chans' = [botserv_chans EXCEPT ![c] = NONE]
  /\ UNCHANGED <<users, nicks, botserv, online, next_scid>>

NotLoaded(c, r, m) == [r EXCEPT !.loaded = TRUE]

(* AKICK ADD and DEL. find_akick loads the list, and takes the mask off it *)
(* when the row has expired. To add a mask that is listed, or to delete    *)
(* one that is not, does no more than that.                                *)
Found(c, r, m) ==
  LET l == Loaded(c, r) IN
  IF m \in cs_akick[c] THEN l ELSE [l EXCEPT !.akicks = @ \ {m}]

Listed(r, m) == [r EXCEPT !.akicks = @ \union {m}]

(* To a record that is only a copy of the row the list makes no difference *)
AttachIfUsed(c, r) == IF sdata[c] = NoCR THEN UNCHANGED sdata ELSE Attach(c, r)

AkickAdd(c, m) ==
  /\ Opened(c) # NoCR
  /\ cs_akick' = [cs_akick EXCEPT ![c] = @ \union {m}]
  /\ AttachIfUsed(c, Listed(Found(c, Opened(c), m), m))
  /\ UNCHANGED <<users, local, chanserv, suspensions, nicks, botserv,
                 botserv_chans, online, next_scid>>

AkickDel(c, m) ==
  /\ Opened(c) # NoCR
  /\ LET r == Found(c, Opened(c), m) IN
     /\ AttachIfUsed(c, [r EXCEPT !.akicks = @ \ {m}])
     /\ cs_akick' = [cs_akick EXCEPT ![c] = @ \ ({m} \intersect r.akicks)]
  /\ UNCHANGED <<users, local, chanserv, suspensions, nicks, botserv,
                 botserv_chans, online, next_scid>>

AkickDelAll(c) ==
  /\ Opened(c) # NoCR
  /\ AttachIfUsed(c, [Opened(c) EXCEPT !.akicks = {}])
  /\ cs_akick' = [cs_akick EXCEPT ![c] = {}]
  /\ UNCHANGED <<users, local, chanserv, suspensions, nicks, botserv,
                 botserv_chans, online, next_scid>>

(* ev_cs_akick_expire only deletes rows. *)
AkickExpire(c, m) ==
  /\ m \in cs_akick[c]
  /\ cs_akick' = [cs_akick EXCEPT ![c] = @ \ {m}]
  /\ UNCHANGED <<users, local, sdata, chanserv, suspensions, nicks, botserv,
                 botserv_chans, online, next_scid>>

-----------------------------------------------------------------------------
(* The end of nicks and records.                                           *)

NotSucceeded(row, n) ==
  IF row.successor = n THEN [row EXCEPT !.successor = NONE] ELSE row

(* ev_cs_nick_delete: n is no successor any more, its channels go to their *)
(* successors, and those without one are deleted.                          *)
Succeeded(row, n) ==
  IF row.successor = n THEN [row EXCEPT !.successor = NONE]
  ELSE IF row.founder = n /\ row.successor # NONE
  THEN [row EXCEPT !.founder = row.successor, !.successor = NONE]
  ELSE row

(* The handler compares an uninitialized pointer with sdata and changes    *)
(* the record in memory if they are equal: hit is the channel whose record *)
(* that is, NONE for any other value.                                      *)
MemoryAfter(n, hit) ==
  IF hit = NONE \/ Succeeded(chanserv[hit], n) = chanserv[hit] THEN sdata
  ELSE LET r == sdata[hit].row IN
       [sdata EXCEPT ![hit].row =
          IF chanserv[hit].successor = n THEN [r EXCEPT !.successor = NONE]
          ELSE [r EXCEPT !.founder = r.successor, !.successor = NONE]]

(* Drop or expiry of a nick. The bots it owns go by a foreign key: nothing *)
(* tells the bots.                                                         *)
NickDelete(n) ==
  /\ n \in nicks
  /\ LET after == [c \in Chans |-> Succeeded(chanserv[c], n)]
         lost == {c \in Chans : after[c].founder = n}
         bots == {b \in Bots : botserv[b] = n}
     IN
     /\ Forget(lost, after, {})
     /\ \E hit \in {c \in Chans : sdata[c] # NoCR} \union {NONE} :
          sdata' = WithoutRecords(MemoryAfter(n, hit), lost)
     /\ botserv' = [b \in Bots |-> IF b \in bots THEN NONE ELSE botserv[b]]
     /\ botserv_chans' = [c \in Chans |->
          IF c \in lost \/ botserv_chans[c] \in bots THEN NONE
          ELSE botserv_chans[c]]
  /\ nicks' = nicks \ {n}
  /\ UNCHANGED <<users, online, next_scid>>

(* ev_cs_expire: the channels in C are not used for too long and, only if  *)
(* there are any, the suspensions of those in S are over.                  *)
Expire(C, S) ==
  /\ C # {} /\ C \subseteq {c \in Chans : chanserv[c] # NoRow}
  /\ S \subseteq suspensions \ C
  /\ LET t == [c \in Chans |-> IF c \in S THEN [chanserv[c] EXCEPT !.suspended = FALSE]
                             ELSE chanserv[c]] IN
     Forget(C, t, S)
  /\ sdata' = WithoutRecords(sdata, C)
  /\ botserv_chans' = [c \in Chans |-> IF c \in C THEN NONE ELSE botserv_chans[c]]
  /\ UNCHANGED <<users, nicks, botserv, online, next_scid>>

-----------------------------------------------------------------------------
(* Bots.                                                                   *)

BotCreate(b, n) ==
  /\ n \in nicks
  /\ botserv[b] = NONE
  /\ b \notin online
  /\ botserv' = [botserv EXCEPT ![b] = n]
  /\ online' = online \union {b}
  /\ UNCHANGED <<users, local, sdata, chanserv, suspensions, cs_akick, nicks,
                 botserv_chans, next_scid>>

(* irc_QuitLocalUser, and a foreign key *)
BotDrop(b) ==
  /\ botserv[b] # NONE
  /\ LocalsLeave(Chans, {b})
  /\ botserv' = [botserv EXCEPT ![b] = NONE]
  /\ botserv_chans' = [c \in Chans |->
       IF botserv_chans[c] = b THEN NONE ELSE botserv_chans[c]]
  /\ online' = online \ {b}
  /\ UNCHANGED <<users, chanserv, suspensions, cs_akick, nicks, next_scid>>

(* The bot joins, which may create the channel. *)
BotAssign(c, b) ==
  /\ botserv[b] # NONE
  /\ Opened(c) # NoCR
  /\ local[c] = NONE
  /\ botserv_chans[c] = NONE
  /\ botserv_chans' = [botserv_chans EXCEPT ![c] = b]
  /\ IF b \in online
     THEN local' = [local EXCEPT ![c] = b] /\ Attach(c, Opened(c))
     ELSE UNCHANGED <<local, sdata>>
  /\ UNCHANGED <<users, chanserv, suspensions, cs_akick, nicks, botserv, online,
                 next_scid>>

BotUnassign(c, b) ==
  /\ botserv_chans[c] = b
  /\ LocalsLeave({c}, {b})
  /\ botserv_chans' = [botserv_chans EXCEPT ![c] = NONE]
  /\ UNCHANGED <<users, chanserv, suspensions, cs_akick, nicks, botserv, online,
                 next_scid>>

(* Services start again; ev_bs_new_server creates the bots and joins them  *)
(* to their channels before users are introduced.                          *)
Restart ==
  /\ users' = [c \in Chans |-> {}]
  /\ online' = {b \in Bots : botserv[b] # NONE}
  /\ local' = botserv_chans
  /\ sdata' = [c \in Chans |->
       IF botserv_chans[c] = NONE THEN NoCR ELSE NewCR(chanserv[c])]
  /\ UNCHANGED <<chanserv, suspensions, cs_akick, nicks, botserv, botserv_chans,
                 next_scid>>

-----------------------------------------------------------------------------
Next ==
  \/ \E c \in Chans :
       \/ \E u \in Users : Join(c, u) \/ Leave(c, u)
       \/ LocalLeaves(c)
       \/ \E n \in Nicks :
            Register(c, n) \/ SetFounder(c, n) \/ SetSuccessor(c, n)
       \/ SetOption(c) \/ Suspend(c) \/ Unsuspend(c) \/ Drop(c)
       \/ \E m \in Masks : AkickAdd(c, m) \/ AkickDel(c, m) \/ AkickExpire(c, m)
       \/ AkickDelAll(c)
       \/ \E b \in Bots : BotAssign(c, b) \/ BotUnassign(c, b)
  \/ \E n \in Nicks : NickDelete(n)
  \/ \E C, S \in SUBSET Chans : Expire(C, S)
  \/ \E b \in Bots : BotDrop(b)
  \/ \E b \in Bots, n \in Nicks : BotCreate(b, n)
  \/ Restart

Spec == Init /\ [][Next]_vars

-----------------------------------------------------------------------------
(* Properties.                                                             *)

(* A channel in use has the record of its row attached if it is registered *)
(* and none if it is not, and a channel that is not in use has none,       *)
(* whichever handler registers, drops, expires, empties or rejoins it.     *)
RecordOfRow ==
  \A c \in Chans :
    sdata[c].row.scid = IF InUse(users, local, c) THEN chanserv[c].scid ELSE 0

(* While a suspension is in the table, the row says so and so does the     *)
(* record that ev_cs_role_chan_join looks at: no command that writes a     *)
(* record back lifts a suspension given meanwhile.                         *)
SuspensionInForce ==
  \A c \in suspensions :
    chanserv[c].suspended /\ (sdata[c] # NoCR => sdata[c].row.suspended)

(* A list of masks that has been loaded has every mask of the database, so *)
(* no ban is overlooked by the joins that only look at the list.           *)
AkicksInForce ==
  \A c \in Chans : sdata[c].loaded => cs_akick[c] \subseteq sdata[c].akicks

(* When a nick is deleted, each of its channels that has a successor goes  *)
(* to the successor and stays registered; all others keep their founder.   *)
SuccessorInherits ==
  [][\A n \in nicks \ nicks', c \in Chans :
       LET row == chanserv[c] IN
       /\ row.founder = n /\ row.successor # NONE =>
            chanserv'[c].scid = row.scid /\ chanserv'[c].founder = row.successor
       /\ row.founder # n => chanserv'[c].founder = row.founder]_vars

=============================================================================
