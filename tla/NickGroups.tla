------------------------------ MODULE NickGroups ------------------------------
(***************************************************************************)
(* Groups of nicks (modules/ns_group.c): the tables ns_group and           *)
(* ns_group_users, on which every permission of services rests, and the    *)
(* list of groups kept with every online user (extra[ED_GROUPS]), which    *)
(* decides what HELP shows. Lookups are made in the tables; the list is    *)
(* loaded at identification and then patched by ADD and DEL.               *)
(*                                                                         *)
(* Left out: groups with a server rule in their name, the modes a group    *)
(* sets, descriptions, INFO, LIST and SHOW, and the warning of memberships *)
(* that end soon.                                                          *)
(***************************************************************************)
EXTENDS Nicks

CONSTANTS
  Groups,
  RootGroup,   \* "Root"
  AdminGroup,  \* "Admin"
  OperGroup,   \* "Oper"
  Masterless,  \* in place of a group, the master of RootGroup
  RootNick,    \* the setting Root of nickserv, or NONE
  Durations,   \* that ADD may give, 0 for none
  MaxUsers,    \* values of SET MAXUSERS, 0 for no limit
  MemberGroups, \* bound: the groups that get members
  MaxRows,     \* bound: memberships at a time
  MaxCopies    \* bound: entries of one group in the list of a user

ASSUME NickGroupsAssumption ==
  /\ {RootGroup, AdminGroup, OperGroup} \subseteq Groups
  /\ Cardinality({RootGroup, AdminGroup, OperGroup}) = 3
  /\ IsFiniteSet(Groups) /\ MemberGroups \subseteq Groups
  /\ Masterless \notin Groups \union {NONE}
  /\ Durations \subseteq Nat /\ MaxUsers \subseteq Nat
  /\ MaxRows \in Nat /\ MaxCopies \in Nat \ {0}
  /\ NONE \notin Groups \union Nicks

VARIABLES
  ns_group,        \* of every group its master and maxusers, or NoGroup
  ns_group_users,  \* the rows [sgid, snid, t_expire], t_expire 0 for none
  cache,           \* extra[ED_GROUPS] of the bearer of a nick, or NoList
  crashed,         \* history: services followed a null pointer
  loaded,          \* history: the list was loaded for the nick borne now
  expired          \* history: memberships of users that have expired, which
                   \* their list is not told of

groupvars == <<ns_group, ns_group_users, cache, crashed, loaded, expired>>

NoGroup == [master |-> NONE, maxusers |-> 0]

NoList == [g \in Groups |-> -1]

EmptyList == [g \in Groups |-> 0]

(* find_group(g) # 0 *)
Exists(g) == ns_group[g] # NoGroup

GroupsTypeOK ==
  /\ ns_group \in [Groups -> [master : Groups \union {Masterless, NONE}, maxusers : Nat]]
  /\ ns_group_users \subseteq [sgid : Groups, snid : Nicks, t_expire : Nat]
  /\ \A r, q \in ns_group_users : r.sgid = q.sgid /\ r.snid = q.snid => r = q
  /\ cache \in [Nicks -> [Groups -> -1..MaxCopies]]
  /\ \A n \in Nicks : ~Online(n) => cache[n] = NoList
  /\ crashed \in BOOLEAN
  /\ loaded \subseteq Nicks /\ expired \subseteq Groups \X Nicks
  \* the foreign keys
  /\ \A r \in ns_group_users : Exists(r.sgid) /\ r.snid \in registered

(* create_core_groups                                                      *)
NewGroup(master) == [master |-> master, maxusers |-> 9999]

GroupsInit ==
  /\ ns_group = [g \in Groups |-> CASE g = RootGroup -> NewGroup(Masterless)
                                     [] g = AdminGroup -> NewGroup(RootGroup)
                                     [] g = OperGroup -> NewGroup(AdminGroup)
                                     [] OTHER -> NoGroup]
  /\ ns_group_users = {}
  /\ cache = [n \in Nicks |-> NoList]
  /\ crashed = FALSE
  /\ loaded = {} /\ expired = {}

-----------------------------------------------------------------------------
(* Permissions                                                             *)

RowsFor(g, n) == {r \in ns_group_users : r.sgid = g /\ r.snid = n}

IsMemberOf(n, g) == RowsFor(g, n) # {}

IsRoot(n) == n = RootNick \/ IsMemberOf(n, RootGroup)

(* The groups the walk of is_master comes to, one at each turn             *)
Walk(g) ==
  LET at[k \in 0..Cardinality(Groups)] ==
        IF k = 0 THEN g
        ELSE IF at[k-1] \in Groups THEN ns_group[at[k-1]].master ELSE Masterless
  IN  at

(* is_master: the nearest master above g that n is a member of, or NONE    *)
MasterGroup(n, g) ==
  LET at == Walk(g)
      in(k) == at[k] \in Groups /\ IsMemberOf(n, at[k])
  IN  IF \E k \in 1..Cardinality(Groups) : in(k)
      THEN at[CHOOSE k \in 1..Cardinality(Groups) :
                in(k) /\ \A j \in 1..k-1 : ~in(j)]
      ELSE NONE

IsFull(g) ==
  /\ ns_group[g].maxusers # 0
  /\ Cardinality({r \in ns_group_users : r.sgid = g}) >= ns_group[g].maxusers

-----------------------------------------------------------------------------
(* Commands of the identified nick s                                       *)

GroupCreate(s, g, master) ==
  /\ Identified(s) /\ IsRoot(s)
  /\ Exists(master) /\ ~Exists(g)
  /\ ns_group' = [ns_group EXCEPT ![g] = NewGroup(master)]
  /\ UNCHANGED <<ns_group_users, cache, crashed, loaded, expired>>

(* The expiry of the membership that makes s a master, which limits those  *)
(* it gives; root has none when it is no master.                           *)
MasterExpire(s, g) ==
  IF MasterGroup(s, g) = NONE THEN 0
  ELSE (CHOOSE r \in RowsFor(MasterGroup(s, g), s) : TRUE).t_expire

NewExpire(s, g, duration) ==
  IF MasterExpire(s, g) # 0 THEN MasterExpire(s, g)
  ELSE IF duration # 0 THEN irc_CurrentTime + duration ELSE 0

(* array_add_int, making the list when the user has none. An offline nick  *)
(* has no list.                                                            *)
AddListed(n, list, g) ==
  IF ~Online(n) THEN list
  ELSE [(IF list = NoList THEN EmptyList ELSE list) EXCEPT ![g] = @ + 1]

GroupAdd(s, g, n, duration) ==
  /\ Identified(s)
  /\ HasSnid(n) /\ Exists(g)
  /\ ~IsFull(g)
  /\ MasterGroup(s, g) # NONE \/ IsRoot(s)
  /\ MasterExpire(s, g) = 0 \/ duration = 0
  /\ ~IsMemberOf(n, g)
  /\ cache[n][g] < MaxCopies /\ Cardinality(ns_group_users) < MaxRows
  /\ ns_group_users' = ns_group_users \union
       {[sgid |-> g, snid |-> n, t_expire |-> NewExpire(s, g, duration)]}
  /\ cache' = [cache EXCEPT ![n] = AddListed(n, @, g)]
  /\ UNCHANGED <<ns_group, crashed, loaded, expired>>

(* array_del_int takes one entry off; it does not look whether the user    *)
(* has a list, which a user that has never identified has not.             *)
DelNotListed(list, g) == list

DelListed(list, g) == IF list[g] > 0 THEN [list EXCEPT ![g] = @ - 1] ELSE list

GroupDel(s, g, n) ==
  /\ Identified(s)
  /\ Exists(g) /\ HasSnid(n)
  /\ IsRoot(s) \/ MasterGroup(s, g) # NONE
  /\ IsMemberOf(n, g)
  /\ ns_group_users' = ns_group_users \ RowsFor(g, n)
  /\ cache' = [cache EXCEPT ![n] = DelListed(@, g)]
  /\ crashed' = (Online(n) /\ cache[n] = NoList)
  /\ UNCHANGED <<ns_group, loaded, expired>>

(* drop_group: the groups below it get its own master. The id of the group *)
(* is never used again, so its entries in the lists are left out.          *)
DroppedAlone(g) == [ns_group EXCEPT ![g] = NoGroup]

DroppedGroup(g) ==
  [h \in Groups |->
     IF h = g THEN NoGroup
     ELSE IF ns_group[h].master = g
     THEN [ns_group[h] EXCEPT !.master = ns_group[g].master] ELSE ns_group[h]]

GroupDrop(s, g) ==
  /\ Identified(s) /\ IsRoot(s)
  /\ Exists(g) /\ ns_group[g].master # Masterless
  /\ ns_group' = DroppedGroup(g)
  /\ ns_group_users' = {r \in ns_group_users : r.sgid # g}
  /\ cache' = [n \in Nicks |-> IF cache[n] = NoList THEN NoList
                               ELSE [cache[n] EXCEPT ![g] = 0]]
  /\ expired' = {p \in expired : p[1] # g}
  /\ UNCHANGED <<crashed, loaded>>

GroupSet(s, g, max) ==
  /\ Identified(s) /\ IsRoot(s)
  /\ Exists(g)
  /\ ns_group' = [ns_group EXCEPT ![g].maxusers = max]
  /\ UNCHANGED <<ns_group_users, cache, crashed, loaded, expired>>

(* ev_ns_group_expire *)
MembersExpire ==
  LET over == {r \in ns_group_users : r.t_expire > 0 /\ r.t_expire < irc_CurrentTime}
  IN  /\ over # {}
      /\ ns_group_users' = ns_group_users \ over
      /\ expired' = expired \union {<<r.sgid, r.snid>> : r \in {q \in over : Online(q.snid)}}
      /\ UNCHANGED <<ns_group, cache, crashed, loaded>>

-----------------------------------------------------------------------------
(* What becomes of the rows and lists when users and nicks change          *)

(* ev_ns_group_nick_identify *)
Loaded(n, list) == [g \in Groups |-> IF IsMemberOf(n, g) THEN 1 ELSE 0]

NotExpired(n) == {p \in expired : p[2] # n}

GroupsIdentified(n) ==
  /\ cache' = [cache EXCEPT ![n] = Loaded(n, @)]
  /\ loaded' = loaded \union {n}
  /\ expired' = NotExpired(n)
  /\ UNCHANGED <<ns_group, ns_group_users, crashed>>

(* The list goes with the struct of the user.                              *)
GroupsQuit(n) ==
  /\ cache' = [cache EXCEPT ![n] = NoList]
  /\ loaded' = loaded \ {n}
  /\ expired' = NotExpired(n)
  /\ UNCHANGED <<ns_group, ns_group_users, crashed>>

(* Nothing empties it when the user takes another nick.                    *)
GroupsNick(n, new) ==
  /\ cache' = [cache EXCEPT ![n] = NoList, ![new] = cache[n]]
  /\ loaded' = loaded \ {n}
  /\ expired' = NotExpired(n)
  /\ UNCHANGED <<ns_group, ns_group_users, crashed>>

(* ON DELETE CASCADE; whoever identified for the nick no longer is.        *)
GroupsNickDropped(n) ==
  /\ ns_group_users' = {r \in ns_group_users : r.snid # n}
  /\ loaded' = loaded \ {n}
  /\ UNCHANGED <<ns_group, cache, crashed, expired>>

GroupsNext ==
  \E s \in Nicks, g \in Groups :
    \/ \E master \in Groups : GroupCreate(s, g, master)
    \/ GroupDrop(s, g)
    \/ \E max \in MaxUsers : GroupSet(s, g, max)

MembersNext ==
  \/ \E s, n \in Nicks, g \in MemberGroups :
       \/ \E duration \in Durations : GroupAdd(s, g, n, duration)
       \/ GroupDel(s, g, n)
  \/ MembersExpire

-----------------------------------------------------------------------------
(* Every group leads by masters to the root group, whichever are dropped:  *)
(* is_master comes to an end, and root is the master of all groups.        *)
GroupsUnderRoot ==
  \A g \in Groups : Exists(g) =>
    \E k \in 0..Cardinality(Groups) : Walk(g)[k] = RootGroup

(* ns_group.c:714 "this event is called when a nick is identified we will  *)
(* load the groups a nick belongs to": from then on the list of the user   *)
(* follows its memberships, whoever changes them, each group once; only    *)
(* their expiry is not seen before the next identification.                *)
CacheFollows ==
  \A n \in loaded : \A g \in Groups :
    Identified(n) /\ ~crashed =>
      \/ cache[n][g] = (IF IsMemberOf(n, g) THEN 1 ELSE 0)
      \/ <<g, n>> \in expired

=============================================================================
