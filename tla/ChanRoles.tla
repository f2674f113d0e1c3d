------------------------------ MODULE ChanRoles ------------------------------
(***************************************************************************)
(* The roles of one registered channel (modules/cs_role.c): a role is a    *)
(* row of cs_role with a master role, an assignment a row of cs_role_users *)
(* with the role of a nick and whether the nick has accepted it.           *)
(*                                                                         *)
(* Only the founder creates, drops and re-masters roles; a nick assigned   *)
(* to a role manages the assignments of the roles below it. is_master and  *)
(* role_is_master walk from master to master until they reach a role that  *)
(* has none: nothing but the tests of SET MASTER stops them on a cycle.    *)
(*                                                                         *)
(* A nick stands for its snid. The founder changes by SET FOUNDER and by   *)
(* the deletion of nicks, and the channel may be dropped, as in ChanServ.  *)
(* INSERT, UPDATE and DELETE may fail (sql_execute returns 0); a lookup    *)
(* that fails is left out. So are the message and the actions of a role,   *)
(* and the listings.                                                       *)
(***************************************************************************)
EXTENDS Integers, FiniteSets

CONSTANTS
  Nicks,
  Rids,             \* ids of roles
  Names,            \* names of roles
  Admin, Operator, Voice,  \* "admin", "operator", "voice"
  Perms,            \* the permissions a role may have
  MaxRolesPerChan,
  MaxUsersPerChan,
  RoleAcceptance,   \* BOOLEAN
  MaxFailures,      \* bound: statements that fail
  NONE

ASSUME ChanRolesAssumption ==
  /\ NONE \notin Nicks \union Rids \union Names
  /\ {Admin, Operator, Voice} \subseteq Names
  /\ Admin # Operator /\ Admin # Voice /\ Operator # Voice
  /\ {MaxRolesPerChan, MaxUsersPerChan, MaxFailures} \subseteq Nat
  /\ RoleAcceptance \in BOOLEAN

VARIABLES
  founder,        \* of the channel; NONE when it is not registered
  cs_role,        \* the table of roles
  cs_role_users,  \* the assignment of every nick
  accepted,       \* history: nicks that accepted their assignment or made it
  failures        \* statements that have failed

vars == <<founder, cs_role, cs_role_users, accepted, failures>>

Role == [name : Names \union {NONE}, master : Rids \union {NONE}, perms : SUBSET Perms]

NoRole == [name |-> NONE, master |-> NONE, perms |-> {}]

Flags == {"none", "pending", "rejected"}

Assignment == [rid : Rids \union {NONE}, who : Nicks \union {NONE}, flags : Flags]

NoAssignment == [rid |-> NONE, who |-> NONE, flags |-> "none"]

Roles == {r \in Rids : cs_role[r] # NoRole}

Assigned == {n \in Nicks : cs_role_users[n] # NoAssignment}

TypeOK ==
  /\ founder \in Nicks \union {NONE}
  /\ cs_role \in [Rids -> Role]
  /\ cs_role_users \in [Nicks -> Assignment]
  /\ accepted \subseteq Nicks
  /\ failures \in 0..MaxFailures
  \* the foreign keys
  /\ \A r \in Rids : cs_role[r].master \in Roles \union {NONE}
  /\ \A r \in Roles : cs_role[r].name # NONE
  /\ \A n \in Assigned : cs_role_users[n].rid \in Roles
  /\ founder = NONE => Roles = {}

-----------------------------------------------------------------------------
(* The hierarchy.                                                          *)

(* S holds the master of each of its roles that has one. *)
ClosedUpwards(S) == \A r \in S : cs_role[r].master \in S \union {NONE}

(* The roles the walk from r reaches: its master, the master's master, ... *)
Above(r) ==
  {a \in Rids : /\ cs_role[r].master # NONE
                /\ \A S \in SUBSET Rids :
                     ClosedUpwards(S) /\ cs_role[r].master \in S => a \in S}

(* Looks at the master of r alone. *)
RoleIsDirectMaster(a, r) == a = cs_role[r].master

(* role_is_master(a, r) *)
RoleIsMaster(a, r) == a \in Above(r)

(* is_master(n, r): the flags of the assignment are not looked at. *)
IsMaster(n, r) == cs_role_users[n].rid \in Above(r)

(* Without the test of the flags. *)
RoleWithPermissionAnyFlags(n, p) ==
  n \in Assigned /\ p \in cs_role[cs_role_users[n].rid].perms

(* role_with_permission *)
RoleWithPermission(n, p) ==
  /\ n \in Assigned
  /\ cs_role_users[n].flags = "none"
  /\ p \in cs_role[cs_role_users[n].rid].perms

Named(name) == {r \in Roles : cs_role[r].name = name}

Masterless == {r \in Roles : cs_role[r].master = NONE}

-----------------------------------------------------------------------------
(* Registration. A statement that fails ends the handler, except the       *)
(* assignment of the founder.                                              *)

NewRole(name, master, perms) == [name |-> name, master |-> master, perms |-> perms]

(* admin, operator and voice are the ids of the roles, made how many of    *)
(* them were created.                                                      *)
DefaultRoles(admin, operator, voice, made) ==
  [r \in Rids |->
     IF r = admin /\ made >= 1 THEN NewRole(Admin, NONE, Perms)
     ELSE IF r = operator /\ made >= 2 THEN NewRole(Operator, admin, Perms)
     ELSE IF r = voice /\ made >= 3 THEN NewRole(Voice, operator, {})
     ELSE NoRole]

(* Statements that fail when made roles are created                        *)
Failed(made, added) == (IF made = 3 THEN 0 ELSE 1) + (IF added THEN 0 ELSE 1)

Register(n, admin, operator, voice, made, added) ==
  /\ founder = NONE
  /\ admin # operator /\ admin # voice /\ operator # voice
  /\ failures + Failed(made, added) <= MaxFailures
  /\ made = 0 => added
  /\ founder' = n
  /\ cs_role' = DefaultRoles(admin, operator, voice, made)
  /\ IF made >= 1 /\ added
     THEN /\ cs_role_users' =
               [cs_role_users EXCEPT ![n] = [rid |-> admin, who |-> n, flags |-> "none"]]
          /\ accepted' = accepted \union {n}
     ELSE UNCHANGED <<cs_role_users, accepted>>
  /\ failures' = failures + Failed(made, added)

(* fix_channels_roles, when mod_load has installed the tables: a channel   *)
(* of older services gets the default roles, and whoever had access there  *)
(* is assigned to one of them; nobody is asked to accept.                  *)
fix_channels_roles ==
  \E n \in Nicks, admin, operator, voice \in Rids, made \in 0..3, added \in BOOLEAN :
  \E temp \in [Nicks -> {admin, operator, voice, NONE}] :
    /\ admin # operator /\ admin # voice /\ operator # voice
    /\ made = 0 => added
    /\ failures = Failed(made, added) /\ failures <= MaxFailures
    /\ founder = n
    /\ cs_role = DefaultRoles(admin, operator, voice, made)
    /\ cs_role_users =
         [x \in Nicks |->
            IF x = n /\ made >= 1 /\ added THEN [rid |-> admin, who |-> n, flags |-> "none"]
            ELSE IF made = 3 /\ temp[x] # NONE THEN [rid |-> temp[x], who |-> n, flags |-> "none"]
            ELSE NoAssignment]
    /\ accepted = Assigned

Unregistered ==
  /\ founder = NONE
  /\ cs_role = [r \in Rids |-> NoRole]
  /\ cs_role_users = [n \in Nicks |-> NoAssignment]
  /\ accepted = {}
  /\ failures = 0

Init == Unregistered \/ fix_channels_roles

(* DELETE FROM chanserv, with what the foreign keys delete *)
Forget ==
  /\ founder' = NONE
  /\ cs_role' = [r \in Rids |-> NoRole]
  /\ cs_role_users' = [n \in Nicks |-> NoAssignment]
  /\ accepted' = {}
  /\ UNCHANGED failures

Drop == founder # NONE /\ Forget  \* DROP by the founder, or the founder's nick goes

SetFounder(n) ==
  /\ founder # NONE
  /\ founder' = n
  /\ UNCHANGED <<cs_role, cs_role_users, accepted, failures>>

-----------------------------------------------------------------------------
(* ROLE CREATE, DROP and SET, by the founder.                              *)

Create(r, name, m, perms) ==
  /\ r \notin Roles /\ m \in Roles
  /\ MaxRolesPerChan = 0 \/ Cardinality(Roles) < MaxRolesPerChan
  /\ Named(name) = {}
  /\ cs_role' = [cs_role EXCEPT ![r] = NewRole(name, m, perms)]
  /\ UNCHANGED <<founder, cs_role_users, accepted, failures>>

(* Without the UPDATE. *)
DroppedOnly(r, root, updated, deleted) ==
  [x \in Rids |->
     IF x = r /\ deleted THEN NoRole
     ELSE IF deleted /\ cs_role[x].master = r THEN [cs_role[x] EXCEPT !.master = NONE]
     ELSE cs_role[x]]

(* With no foreign key on the master. *)
DroppedNoKey(r, root, updated, deleted) ==
  [x \in Rids |->
     IF x = r /\ deleted THEN NoRole
     ELSE IF updated /\ cs_role[x].master = r THEN [cs_role[x] EXCEPT !.master = root]
     ELSE cs_role[x]]

(* The roles after r is deleted; the UPDATE first gives its roles to root. *)
Dropped(r, root, updated, deleted) ==
  [x \in Rids |->
     IF x = r /\ deleted THEN NoRole
     ELSE IF cs_role[x].master # r THEN cs_role[x]
     ELSE IF updated THEN [cs_role[x] EXCEPT !.master = root]
     ELSE IF deleted THEN [cs_role[x] EXCEPT !.master = NONE]
     ELSE cs_role[x]]

(* drop_role: the UPDATE is not tested, and a foreign key clears the       *)
(* master of whoever still has the deleted role.                           *)
DropRole(r, root, updated, deleted) ==
  /\ r \in Roles \ Masterless /\ root \in Masterless
  /\ failures + (IF updated THEN 0 ELSE 1) + (IF deleted THEN 0 ELSE 1) <= MaxFailures
  /\ cs_role' = Dropped(r, root, updated, deleted)
  /\ cs_role_users' =
       [n \in Nicks |-> IF deleted /\ cs_role_users[n].rid = r THEN NoAssignment
                        ELSE cs_role_users[n]]
  /\ accepted' = accepted \ {n \in Nicks : deleted /\ cs_role_users[n].rid = r}
  /\ failures' = failures + (IF updated THEN 0 ELSE 1) + (IF deleted THEN 0 ELSE 1)
  /\ UNCHANGED founder

MayBeMaster(m, r) == m # r /\ ~RoleIsMaster(r, m)

SetMaster(r, m) ==
  /\ r \in Roles \ Masterless /\ m \in Roles
  /\ MayBeMaster(m, r)
  /\ cs_role' = [cs_role EXCEPT ![r].master = m]
  /\ UNCHANGED <<founder, cs_role_users, accepted, failures>>

SetProp(r, perms) ==
  /\ r \in Roles
  /\ cs_role' = [cs_role EXCEPT ![r].perms = perms]
  /\ UNCHANGED <<founder, cs_role_users, accepted, failures>>

-----------------------------------------------------------------------------
(* Assignments: ROLE ADD and DEL by a, ACCEPT and REJECT by the nick.      *)

Manages(a, r) == a = founder \/ IsMaster(a, r)

FlagsFor(a, n) == IF RoleAcceptance /\ a # n THEN "pending" ELSE "none"

Add(a, n, r) ==
  /\ r \in Roles
  /\ Manages(a, r)
  /\ n \notin Assigned
  /\ MaxUsersPerChan = 0 \/ Cardinality(Assigned) < MaxUsersPerChan
  /\ cs_role_users' =
       [cs_role_users EXCEPT ![n] = [rid |-> r, who |-> a, flags |-> FlagsFor(a, n)]]
  /\ accepted' = IF a = n THEN accepted \union {n} ELSE accepted
  /\ UNCHANGED <<founder, cs_role, failures>>

Del(a, n) ==
  /\ n \in Assigned
  /\ Manages(a, cs_role_users[n].rid) \/ a = n
  /\ cs_role_users' = [cs_role_users EXCEPT ![n] = NoAssignment]
  /\ accepted' = accepted \ {n}
  /\ UNCHANGED <<founder, cs_role, failures>>

DelAll ==
  /\ founder # NONE
  /\ cs_role_users' = [n \in Nicks |-> NoAssignment]
  /\ accepted' = {}
  /\ UNCHANGED <<founder, cs_role, failures>>

Accept(n) ==
  /\ cs_role_users[n].flags = "pending"
  /\ cs_role_users' = [cs_role_users EXCEPT ![n].flags = "none"]
  /\ accepted' = accepted \union {n}
  /\ UNCHANGED <<founder, cs_role, failures>>

Reject(n) ==
  /\ cs_role_users[n].flags = "pending"
  /\ cs_role_users' = [cs_role_users EXCEPT ![n].flags = "rejected"]
  /\ UNCHANGED <<founder, cs_role, accepted, failures>>

-----------------------------------------------------------------------------
(* DELETE FROM nickserv: the assignment of n goes, who becomes NULL in     *)
(* those n made. A successor gets the channel of a founder, or it goes.    *)

WithoutNick(n) ==
  [x \in Nicks |->
     IF x = n THEN NoAssignment
     ELSE IF cs_role_users[x].who = n THEN [cs_role_users[x] EXCEPT !.who = NONE]
     ELSE cs_role_users[x]]

NickDelete(n, successor) ==
  /\ successor # n
  /\ \/ /\ founder # n /\ successor = NONE
        /\ UNCHANGED founder
     \/ /\ founder = n /\ successor # NONE
        /\ founder' = successor
  /\ cs_role_users' = WithoutNick(n)
  /\ accepted' = accepted \ {n}
  /\ UNCHANGED <<cs_role, failures>>

-----------------------------------------------------------------------------
Next ==
  \/ \E n \in Nicks, a, o, v \in Rids, made \in 0..3, added \in BOOLEAN :
       Register(n, a, o, v, made, added)
  \/ Drop
  \/ \E n \in Nicks : SetFounder(n)
  \/ \E r, m \in Rids, name \in Names, perms \in SUBSET Perms : Create(r, name, m, perms)
  \/ \E r, root \in Rids, updated, deleted \in BOOLEAN : DropRole(r, root, updated, deleted)
  \/ \E r, m \in Rids : SetMaster(r, m)
  \/ \E r \in Rids, perms \in SUBSET Perms : SetProp(r, perms)
  \/ \E a, n \in Nicks, r \in Rids : Add(a, n, r)
  \/ \E a, n \in Nicks : Del(a, n)
  \/ DelAll
  \/ \E n \in Nicks : Accept(n)
  \/ \E n \in Nicks : Reject(n)
  \/ \E n \in Nicks, successor \in Nicks \union {NONE} : NickDelete(n, successor)

Spec == Init /\ [][Next]_vars

-----------------------------------------------------------------------------
(* Every walk from master to master ends: no set of roles has all its      *)
(* masters in itself. is_master and role_is_master have no other end, a    *)
(* cycle would stop the services for good. It has to survive drops whose   *)
(* UPDATE failed, after which several roles have no master.                *)
WalksEnd ==
  \A S \in SUBSET Roles : S # {} => \E r \in S : cs_role[r].master \notin S

(* While no statement has failed the role "admin" is the only one without  *)
(* a master, so every role hangs below it and drop_role finds it.          *)
AdminIsRoot ==
  founder # NONE /\ failures = 0 =>
    \E r \in Roles : Masterless = {r} /\ cs_role[r].name = Admin

(* A nick has a permission on the channel only after it accepted the role, *)
(* took it itself as the founder, or brought it from older services, since *)
(* its last assignment: not after it rejected the role, was removed and    *)
(* assigned again, or inherited an id. All commands ask                    *)
(* role_with_permission.                                                   *)
PermissionsWereAccepted ==
  RoleAcceptance =>
    \A n \in Nicks, p \in Perms : RoleWithPermission(n, p) => n \in accepted

=============================================================================
