--------------------------- MODULE ChanRoles_proofs ---------------------------
(***************************************************************************)
(* The roles of a channel, in the tables (ChanRoles) and in force on IRC   *)
(* (ChanModes).                                                            *)
(*                                                                         *)
(* First, for any nicks, roles, names and limits and any number of         *)
(* statements that fail: the walks along masters end, "admin" is the root, *)
(* and a permission was accepted.                                          *)
(*                                                                         *)
(* Then, for any users, letters, roles, lock and bans and any number of    *)
(* lines on the way: when every line has been read, nobody without a role  *)
(* is op of a channel with SECUREOPS, the bot is op, and services know     *)
(* every ban.  Both modules are spoken of apart: they share no variable.   *)
(***************************************************************************)
EXTENDS ChanRoles, ChanModes, FiniteSetTheorems, FunctionTheorems, SequenceTheorems,
        WellFoundedInduction, TLAPS

(* An assignment that is neither pending nor rejected was accepted.        *)
AcceptedInForce ==
  RoleAcceptance =>
    \A n \in Assigned : cs_role_users[n].flags = "none" => n \in accepted

RolesInv ==
  /\ TypeOK
  /\ WalksEnd
  /\ AdminIsRoot
  /\ AcceptedInForce

-----------------------------------------------------------------------------
(* Records                                                                 *)

LEMMA NewRoleType ==
  ASSUME NEW name \in Names, NEW master \in Rids \union {NONE},
         NEW perms \in SUBSET Perms
  PROVE  /\ NewRole(name, master, perms) \in Role
         /\ NewRole(name, master, perms) # NoRole
         /\ NewRole(name, master, perms).name = name
         /\ NewRole(name, master, perms).master = master
BY ChanRolesAssumption DEF NewRole, Role, NoRole

LEMMA NoRecordTypes ==
  /\ NoRole \in Role /\ NoRole.name = NONE /\ NoRole.master = NONE
  /\ NoAssignment \in Assignment /\ NoAssignment.rid = NONE
  /\ NONE \notin Rids /\ NONE \notin Nicks /\ NONE \notin Names
BY ChanRolesAssumption DEF NoRole, Role, NoAssignment, Assignment, Flags

LEMMA NewMaster ==
  ASSUME NEW R \in Role, NEW m \in Rids \union {NONE}
  PROVE  /\ [R EXCEPT !.master = m] \in Role
         /\ [R EXCEPT !.master = m].master = m
         /\ [R EXCEPT !.master = m].name = R.name
BY DEF Role

(* Names tell roles from their absence.                                    *)
LEMMA RoleByName ==
  ASSUME TypeOK
  PROVE  Roles = {r \in Rids : cs_role[r].name # NONE}
BY NoRecordTypes DEF TypeOK, Roles

(* ... and roles tell assignments from theirs.                             *)
LEMMA AssignedByRole ==
  ASSUME TypeOK
  PROVE  Assigned = {n \in Nicks : cs_role_users[n].rid \in Roles}
BY NoRecordTypes DEF TypeOK, Assigned, Roles

-----------------------------------------------------------------------------
(* The hierarchy as a property of a table of roles, so that a step can be  *)
(* spoken of by the table it makes.                                        *)

RolesOf(t) == {r \in Rids : t[r] # NoRole}

(* The types and foreign keys of the table.                                *)
TableOK(t) ==
  /\ t \in [Rids -> Role]
  /\ \A r \in Rids : t[r].master \in RolesOf(t) \union {NONE}
  /\ \A r \in RolesOf(t) : t[r].name # NONE

NoCycle(t) ==
  \A S \in SUBSET RolesOf(t) : S # {} => \E r \in S : t[r].master \notin S

RootIsAdmin(t) ==
  \E r \in RolesOf(t) : {x \in RolesOf(t) : t[x].master = NONE} = {r} /\ t[r].name = Admin

LEMMA TableFacts ==
  /\ Roles = RolesOf(cs_role)
  /\ TypeOK => TableOK(cs_role)
  /\ WalksEnd <=> NoCycle(cs_role)
  /\ AdminIsRoot <=> (founder # NONE /\ failures = 0 => RootIsAdmin(cs_role))
BY DEF Roles, RolesOf, TypeOK, TableOK, WalksEnd, NoCycle, AdminIsRoot, RootIsAdmin, Masterless

(* A table whose masters are those of an older one, or none, has no cycle. *)
LEMMA FewerMasters ==
  ASSUME NEW t, NEW s, NoCycle(t), RolesOf(s) \subseteq RolesOf(t),
         \A r \in RolesOf(s) : s[r].master = t[r].master \/ s[r].master \notin RolesOf(s)
  PROVE  NoCycle(s)
BY DEF NoCycle

(* register_chan_roles and fix_channels_roles                              *)
LEMMA DefaultTable ==
  ASSUME NEW admin \in Rids, NEW operator \in Rids, NEW voice \in Rids, NEW made \in 0..3,
         admin # operator, admin # voice, operator # voice
  PROVE  LET t == DefaultRoles(admin, operator, voice, made) IN
         /\ TableOK(t) /\ NoCycle(t)
         /\ made = 3 => RootIsAdmin(t)
         /\ made >= 1 => admin \in RolesOf(t)
         /\ made = 3 => {operator, voice} \subseteq RolesOf(t)
         /\ made = 0 => RolesOf(t) = {}
<1> DEFINE t == DefaultRoles(admin, operator, voice, made)
<1>1. \A r \in Rids : t[r] = IF r = admin /\ made >= 1 THEN NewRole(Admin, NONE, Perms)
                             ELSE IF r = operator /\ made >= 2 THEN NewRole(Operator, admin, Perms)
                             ELSE IF r = voice /\ made >= 3 THEN NewRole(Voice, operator, {})
                             ELSE NoRole
  BY DEF DefaultRoles
<1>2. /\ NewRole(Admin, NONE, Perms) \in Role /\ NewRole(Admin, NONE, Perms) # NoRole
      /\ NewRole(Admin, NONE, Perms).name = Admin /\ NewRole(Admin, NONE, Perms).master = NONE
  BY NewRoleType, ChanRolesAssumption
<1>3. /\ NewRole(Operator, admin, Perms) \in Role /\ NewRole(Operator, admin, Perms) # NoRole
      /\ NewRole(Operator, admin, Perms).name = Operator /\ NewRole(Operator, admin, Perms).master = admin
  BY NewRoleType, ChanRolesAssumption
<1>4. /\ NewRole(Voice, operator, {}) \in Role /\ NewRole(Voice, operator, {}) # NoRole
      /\ NewRole(Voice, operator, {}).name = Voice /\ NewRole(Voice, operator, {}).master = operator
  BY NewRoleType, ChanRolesAssumption
<1>5. RolesOf(t) = {r \in Rids : \/ r = admin /\ made >= 1
                                 \/ r = operator /\ made >= 2
                                 \/ r = voice /\ made >= 3}
  BY <1>1, <1>2, <1>3, <1>4 DEF RolesOf
<1>6. t \in [Rids -> Role]
  BY <1>2, <1>3, <1>4, NoRecordTypes DEF DefaultRoles
<1>7. \A r \in Rids : t[r].master \in RolesOf(t) \union {NONE}
  BY <1>1, <1>2, <1>3, <1>4, <1>5, NoRecordTypes
<1>8. \A r \in RolesOf(t) : t[r].name # NONE
  BY <1>1, <1>2, <1>3, <1>4, <1>5, NoRecordTypes, ChanRolesAssumption
<1>9. NoCycle(t)
  <2> HIDE DEF t
  <2> SUFFICES ASSUME NEW S \in SUBSET RolesOf(t), S # {}
               PROVE  \E r \in S : t[r].master \notin S
    BY DEF NoCycle
  <2>1. CASE admin \in S
    BY <2>1, <1>1, <1>2, <1>5, NoRecordTypes
  <2>2. CASE admin \notin S /\ operator \in S
    BY <2>2, <1>1, <1>3, <1>5
  <2>3. CASE admin \notin S /\ operator \notin S
    BY <2>3, <1>1, <1>4, <1>5
  <2>4. QED
    BY <2>1, <2>2, <2>3
<1>10. ASSUME made = 3 PROVE RootIsAdmin(t)
  <2> HIDE DEF t
  <2>1. {x \in RolesOf(t) : t[x].master = NONE} = {admin}
    BY <1>10, <1>1, <1>2, <1>3, <1>4, <1>5, NoRecordTypes
  <2>2. QED
    BY <1>10, <2>1, <1>1, <1>2, <1>5 DEF RootIsAdmin
<1>11. QED
  BY <1>5, <1>6, <1>7, <1>8, <1>9, <1>10 DEF TableOK

(* ROLE CREATE                                                             *)
LEMMA CreatedTable ==
  ASSUME NEW t, TableOK(t), NoCycle(t),
         NEW r \in Rids \ RolesOf(t), NEW m \in RolesOf(t),
         NEW name \in Names, NEW perms \in SUBSET Perms
  PROVE  LET s == [t EXCEPT ![r] = NewRole(name, m, perms)] IN
         /\ TableOK(s) /\ NoCycle(s)
         /\ RootIsAdmin(t) => RootIsAdmin(s)
         /\ RolesOf(t) \subseteq RolesOf(s)
<1> DEFINE R == NewRole(name, m, perms)
           s == [t EXCEPT ![r] = R]
<1>1. R \in Role /\ R # NoRole /\ R.name = name /\ R.master = m /\ m # NONE
  BY NewRoleType, NoRecordTypes DEF RolesOf
<1>2. s \in [Rids -> Role] /\ \A x \in Rids : s[x] = IF x = r THEN R ELSE t[x]
  BY <1>1 DEF TableOK
<1> HIDE DEF s, R
<1>3. RolesOf(s) = RolesOf(t) \union {r}
  BY <1>1, <1>2 DEF RolesOf
<1>4. \A x \in Rids : s[x].master \in RolesOf(s) \union {NONE}
  BY <1>1, <1>2, <1>3 DEF TableOK
<1>5. \A x \in RolesOf(s) : s[x].name # NONE
  BY <1>1, <1>2, <1>3, NoRecordTypes DEF TableOK, RolesOf
<1>6. NoCycle(s)
  <2> SUFFICES ASSUME NEW S \in SUBSET RolesOf(s), S # {}
               PROVE  \E x \in S : s[x].master \notin S
    BY DEF NoCycle
  <2>1. CASE S \ {r} = {}
    BY <2>1, <1>1, <1>2, <1>3 DEF RolesOf
  <2>2. CASE S \ {r} # {}
    <3>1. PICK x \in S \ {r} : t[x].master \notin S \ {r}
      BY <2>2, <1>3 DEF NoCycle
    <3>2. x \in Rids /\ t[x].master # r
      BY <1>3, NoRecordTypes DEF TableOK, RolesOf
    <3>3. QED
      BY <3>1, <3>2, <1>2
  <2>3. QED
    BY <2>1, <2>2
<1>7. ASSUME RootIsAdmin(t) PROVE RootIsAdmin(s)
  <2>1. PICK a \in RolesOf(t) :
          {x \in RolesOf(t) : t[x].master = NONE} = {a} /\ t[a].name = Admin
    BY <1>7 DEF RootIsAdmin
  <2>2. \A x \in RolesOf(s) : x = r \/ (x \in RolesOf(t) /\ s[x] = t[x])
    BY <1>2, <1>3 DEF RolesOf
  <2>3. s[r].master # NONE
    BY <1>1, <1>2
  <2>4. a # r /\ s[a] = t[a]
    BY <1>2 DEF RolesOf
  <2>5. {x \in RolesOf(s) : s[x].master = NONE} = {a}
    BY <2>1, <2>2, <2>3, <2>4, <1>3
  <2>6. QED
    BY <2>1, <2>4, <2>5, <1>3 DEF RootIsAdmin
<1>8. QED
  BY <1>2, <1>3, <1>4, <1>5, <1>6, <1>7 DEF TableOK, s, R

(* ROLE SET MASTER. Were there a cycle now, it would go through r and m,   *)
(* and the walk from m, which does not come to r, would never have ended.  *)
LEMMA MovedTable ==
  ASSUME TypeOK, WalksEnd,
         NEW r \in Roles \ Masterless, NEW m \in Roles, MayBeMaster(m, r)
  PROVE  LET s == [cs_role EXCEPT ![r].master = m] IN
         /\ TableOK(s) /\ NoCycle(s)
         /\ RootIsAdmin(cs_role) => RootIsAdmin(s)
         /\ RolesOf(s) = Roles
<1> DEFINE R == [cs_role[r] EXCEPT !.master = m]
           s == [cs_role EXCEPT ![r] = R]
<1>1. /\ cs_role \in [Rids -> Role] /\ TableOK(cs_role) /\ NoCycle(cs_role)
      /\ r \in Rids /\ m \in Rids /\ Roles = RolesOf(cs_role)
  BY TableFacts DEF TypeOK, Roles
<1>2. R \in Role /\ R.master = m /\ R.name = cs_role[r].name
  BY <1>1, NewMaster
<1>3. s \in [Rids -> Role] /\ \A x \in Rids : s[x] = IF x = r THEN R ELSE cs_role[x]
  BY <1>1, <1>2
<1>4. R # NoRole
  BY <1>1, <1>2, NoRecordTypes DEF TableOK
<1> HIDE DEF s, R
<1>5. RolesOf(s) = Roles
  BY <1>1, <1>3, <1>4 DEF RolesOf
<1>6. TableOK(s)
  <2>1. \A x \in Rids : s[x].master \in RolesOf(s) \union {NONE}
    BY <1>1, <1>2, <1>3, <1>5 DEF TableOK
  <2>2. \A x \in RolesOf(s) : s[x].name # NONE
    BY <1>1, <1>2, <1>3, <1>5 DEF TableOK, RolesOf
  <2>3. QED
    BY <2>1, <2>2, <1>3 DEF TableOK
<1>7. NoCycle(s)
  <2> SUFFICES ASSUME NEW S \in SUBSET Roles, S # {}, \A x \in S : s[x].master \in S
               PROVE  FALSE
    BY <1>5 DEF NoCycle
  <2>1. r \in S
    <3>1. SUFFICES ASSUME r \notin S PROVE FALSE
      OBVIOUS
    <3>2. PICK x \in S : cs_role[x].master \notin S
      BY <1>1 DEF NoCycle
    <3>3. QED
      BY <3>1, <3>2, <1>1, <1>3 DEF RolesOf
  <2>2. m \in S /\ m # r
    BY <2>1, <1>1, <1>2, <1>3 DEF MayBeMaster
  <2>3. cs_role[m].master \in S
    BY <2>2, <1>1, <1>3
  <2>4. cs_role[m].master # NONE
    BY <2>3, <1>1, NoRecordTypes DEF RolesOf
  <2>5. PICK T \in SUBSET Rids : ClosedUpwards(T) /\ cs_role[m].master \in T /\ r \notin T
    BY <2>4, <1>1 DEF MayBeMaster, RoleIsMaster, Above
  <2>6. PICK x \in S \intersect T : cs_role[x].master \notin S \intersect T
    BY <2>3, <2>5, <1>1 DEF NoCycle
  <2>7. x # r /\ cs_role[x].master \in S
    BY <2>5, <2>6, <1>1, <1>3 DEF RolesOf
  <2>8. cs_role[x].master \in T
    BY <2>5, <2>6, <2>7, <1>1, NoRecordTypes DEF ClosedUpwards, RolesOf
  <2>9. QED
    BY <2>6, <2>7, <2>8
<1>8. ASSUME RootIsAdmin(cs_role) PROVE RootIsAdmin(s)
  <2>1. PICK a \in Roles :
          {x \in Roles : cs_role[x].master = NONE} = {a} /\ cs_role[a].name = Admin
    BY <1>1, <1>8 DEF RootIsAdmin
  <2>2. m # NONE /\ a # r
    BY <2>1, <1>1, NoRecordTypes DEF Masterless
  <2>3. {x \in Roles : s[x].master = NONE} = {a}
    BY <2>1, <2>2, <1>1, <1>2, <1>3 DEF RolesOf, Masterless
  <2>4. s[a].name = Admin
    BY <2>1, <2>2, <1>1, <1>3 DEF RolesOf
  <2>5. QED
    BY <2>3, <2>4, <1>5 DEF RootIsAdmin
<1>9. QED
  BY <1>5, <1>6, <1>7, <1>8 DEF s, R

(* ROLE DROP: those below the dropped role get the root or no master,      *)
(* whichever of the statements fail.                                       *)
LEMMA DroppedTable ==
  ASSUME TypeOK, WalksEnd,
         NEW r \in Roles \ Masterless, NEW root \in Masterless,
         NEW updated \in BOOLEAN, NEW deleted \in BOOLEAN
  PROVE  LET s == Dropped(r, root, updated, deleted) IN
         /\ TableOK(s) /\ NoCycle(s)
         /\ updated /\ deleted /\ RootIsAdmin(cs_role) => RootIsAdmin(s)
         /\ RolesOf(s) = IF deleted THEN Roles \ {r} ELSE Roles
<1> DEFINE s == Dropped(r, root, updated, deleted)
<1>1. /\ cs_role \in [Rids -> Role] /\ TableOK(cs_role) /\ NoCycle(cs_role)
      /\ r \in Rids /\ root \in Roles /\ root \in Rids /\ root # r /\ Roles = RolesOf(cs_role)
      /\ cs_role[root].master = NONE /\ cs_role[root].master # r /\ cs_role[r].master # NONE
  BY TableFacts, NoRecordTypes DEF TypeOK, Roles, Masterless
<1>2. \A x \in Rids : s[x] = IF x = r /\ deleted THEN NoRole
                             ELSE IF cs_role[x].master # r THEN cs_role[x]
                             ELSE IF updated THEN [cs_role[x] EXCEPT !.master = root]
                             ELSE IF deleted THEN [cs_role[x] EXCEPT !.master = NONE]
                             ELSE cs_role[x]
  BY DEF Dropped
<1>3. \A x \in Rids :
        /\ [cs_role[x] EXCEPT !.master = root] \in Role
        /\ [cs_role[x] EXCEPT !.master = root].master = root
        /\ [cs_role[x] EXCEPT !.master = root].name = cs_role[x].name
        /\ [cs_role[x] EXCEPT !.master = NONE] \in Role
        /\ [cs_role[x] EXCEPT !.master = NONE].master = NONE
        /\ [cs_role[x] EXCEPT !.master = NONE].name = cs_role[x].name
  BY <1>1, NewMaster
<1>4. \A x \in Rids :
        /\ s[x] \in Role
        /\ ~(x = r /\ deleted) =>
             /\ s[x].name = cs_role[x].name
             /\ s[x].master = IF cs_role[x].master # r THEN cs_role[x].master
                              ELSE IF updated THEN root
                              ELSE IF deleted THEN NONE
                              ELSE r
        /\ x = r /\ deleted => s[x] = NoRole
  BY <1>1, <1>2, <1>3, NoRecordTypes
<1>5. s \in [Rids -> Role]
  BY <1>4 DEF Dropped
<1> HIDE DEF s
<1>6. RolesOf(s) = IF deleted THEN Roles \ {r} ELSE Roles
  <2>1. \A x \in Rids : cs_role[x] # NoRole <=> cs_role[x].name # NONE
    BY <1>1, NoRecordTypes DEF TableOK, RolesOf
  <2>2. ASSUME NEW x \in Rids, ~(x = r /\ deleted)
        PROVE  s[x] # NoRole <=> cs_role[x] # NoRole
    <3>1. CASE cs_role[x] # NoRole
      BY <3>1, <2>1, <2>2, <1>4, NoRecordTypes
    <3>2. CASE cs_role[x] = NoRole
      BY <3>2, <2>2, <1>1, <1>2, NoRecordTypes
    <3>3. QED
      BY <3>1, <3>2
  <2>3. QED
    BY <2>2, <1>1, <1>4 DEF RolesOf
<1>7. \A x \in Rids : s[x].master \in RolesOf(s) \union {NONE}
  BY <1>1, <1>4, <1>6, NoRecordTypes DEF TableOK
<1>8. \A x \in RolesOf(s) : s[x].name # NONE
  BY <1>1, <1>4, <1>6, NoRecordTypes DEF TableOK, RolesOf
<1>9. NoCycle(s)
  <2> SUFFICES ASSUME NEW S \in SUBSET RolesOf(s), S # {}, \A x \in S : s[x].master \in S
               PROVE  FALSE
    BY DEF NoCycle
  <2>1. S \subseteq Roles /\ S \subseteq Rids /\ NONE \notin S /\ (deleted => r \notin S)
    BY <1>6, NoRecordTypes DEF Roles
  <2>2. root \notin S
    BY <2>1, <1>1, <1>4
  <2>3. \A x \in S : cs_role[x].master \in S
    BY <2>1, <2>2, <1>4
  <2>4. QED
    BY <2>1, <2>3, <1>1 DEF NoCycle
<1>10. ASSUME updated, deleted, RootIsAdmin(cs_role) PROVE RootIsAdmin(s)
  <2>1. PICK a \in Roles :
          {x \in Roles : cs_role[x].master = NONE} = {a} /\ cs_role[a].name = Admin
    BY <1>1, <1>10 DEF RootIsAdmin
  <2>2. a = root /\ root # NONE
    BY <2>1, <1>1, NoRecordTypes
  <2>3. \A x \in Roles \ {r} : s[x].master = NONE <=> cs_role[x].master = NONE
    BY <2>2, <1>1, <1>4, <1>10, NoRecordTypes DEF RolesOf
  <2>4. {x \in RolesOf(s) : s[x].master = NONE} = {a}
    BY <2>1, <2>2, <2>3, <1>1, <1>6, <1>10
  <2>5. QED
    BY <2>1, <2>2, <2>4, <1>1, <1>4, <1>6, <1>10 DEF RootIsAdmin
<1>11. QED
  BY <1>5, <1>6, <1>7, <1>8, <1>9, <1>10 DEF TableOK, s

-----------------------------------------------------------------------------
(* The steps. A step that leaves a table with the hierarchy in order and   *)
(* assignments of its roles keeps the invariant.                           *)

UsersOK(users, roles) ==
  /\ users \in [Nicks -> Assignment]
  /\ \A n \in Nicks : users[n] # NoAssignment => users[n].rid \in roles

LEMMA FromTables ==
  ASSUME founder \in Nicks \union {NONE}, failures \in 0..MaxFailures, accepted \subseteq Nicks,
         TableOK(cs_role), NoCycle(cs_role), UsersOK(cs_role_users, RolesOf(cs_role)),
         founder = NONE => RolesOf(cs_role) = {},
         founder # NONE /\ failures = 0 => RootIsAdmin(cs_role),
         AcceptedInForce
  PROVE  RolesInv
<1>1. WalksEnd /\ AdminIsRoot /\ Roles = RolesOf(cs_role)
  BY TableFacts
<1>2. TypeOK
  BY <1>1 DEF TypeOK, TableOK, UsersOK, Assigned
<1>3. QED
  BY <1>1, <1>2 DEF RolesInv

LEMMA ToTables ==
  ASSUME RolesInv
  PROVE  /\ founder \in Nicks \union {NONE} /\ failures \in Nat /\ failures <= MaxFailures
         /\ accepted \subseteq Nicks
         /\ TableOK(cs_role) /\ NoCycle(cs_role) /\ UsersOK(cs_role_users, RolesOf(cs_role))
         /\ founder = NONE => RolesOf(cs_role) = {}
         /\ founder # NONE /\ failures = 0 => RootIsAdmin(cs_role)
         /\ AcceptedInForce
<1>1. failures \in Nat /\ failures <= MaxFailures
  BY ChanRolesAssumption DEF RolesInv, TypeOK
<1>2. UsersOK(cs_role_users, RolesOf(cs_role))
  BY TableFacts DEF RolesInv, TypeOK, UsersOK, Assigned
<1>3. QED
  BY <1>1, <1>2, TableFacts DEF RolesInv, TypeOK

(* The primed form of FromTables, for the steps.                           *)
LEMMA StepFromTables ==
  ASSUME founder' \in Nicks \union {NONE}, failures' \in Nat, failures' <= MaxFailures,
         accepted' \subseteq Nicks,
         TableOK(cs_role'), NoCycle(cs_role'), UsersOK(cs_role_users', RolesOf(cs_role')),
         founder' = NONE => RolesOf(cs_role') = {},
         founder' # NONE /\ failures' = 0 => RootIsAdmin(cs_role'),
         AcceptedInForce'
  PROVE  RolesInv'
<1>1. failures' \in 0..MaxFailures
  BY ChanRolesAssumption
<1>2. Roles' = RolesOf(cs_role')
  BY DEF Roles, RolesOf
<1>3. WalksEnd' /\ AdminIsRoot'
  BY <1>2 DEF WalksEnd, NoCycle, AdminIsRoot, RootIsAdmin, Masterless
<1>4. TypeOK'
  BY <1>1, <1>2 DEF TypeOK, TableOK, UsersOK, Assigned
<1>5. QED
  BY <1>3, <1>4 DEF RolesInv

LEMMA FailedCount ==
  ASSUME NEW made \in 0..3, NEW added \in BOOLEAN
  PROVE  Failed(made, added) \in Nat /\ (Failed(made, added) = 0 => made = 3 /\ added)
BY DEF Failed

LEMMA NewAssignment ==
  ASSUME NEW r \in Rids, NEW n \in Nicks, NEW f \in Flags
  PROVE  LET a == [rid |-> r, who |-> n, flags |-> f] IN
         a \in Assignment /\ a.rid = r /\ a.flags = f /\ a # NoAssignment
BY NoRecordTypes DEF Assignment, NoAssignment

(* A channel starts with no roles or those of fix_channels_roles.          *)
LEMMA InitHolds == Init => RolesInv
<1>1. ASSUME Unregistered PROVE RolesInv
  <2>1. RolesOf(cs_role) = {}
    BY <1>1 DEF Unregistered, RolesOf
  <2>2. cs_role \in [Rids -> Role] /\ \A r \in Rids : cs_role[r] = NoRole
    BY <1>1, NoRecordTypes DEF Unregistered
  <2>3. TableOK(cs_role)
    BY <2>1, <2>2, NoRecordTypes DEF TableOK
  <2>4. NoCycle(cs_role)
    BY <2>1 DEF NoCycle
  <2>5. UsersOK(cs_role_users, RolesOf(cs_role)) /\ AcceptedInForce
    BY <1>1, NoRecordTypes DEF Unregistered, UsersOK, AcceptedInForce, Assigned
  <2>6. failures \in 0..MaxFailures
    BY <1>1, ChanRolesAssumption DEF Unregistered
  <2>7. QED
    BY <1>1, <2>1, <2>3, <2>4, <2>5, <2>6, FromTables DEF Unregistered
<1>2. ASSUME fix_channels_roles PROVE RolesInv
  <2>1. PICK n \in Nicks, admin, operator, voice \in Rids, made \in 0..3, added \in BOOLEAN :
        \E temp \in [Nicks -> {admin, operator, voice, NONE}] :
          /\ admin # operator /\ admin # voice /\ operator # voice
          /\ made = 0 => added
          /\ failures = Failed(made, added) /\ failures <= MaxFailures
          /\ founder = n
          /\ cs_role = DefaultRoles(admin, operator, voice, made)
          /\ cs_role_users =
               [x \in Nicks |->
                  IF x = n /\ made >= 1 /\ added THEN [rid |-> admin, who |-> n, flags |-> "none"]
                  ELSE IF made = 3 /\ temp[x] # NONE
                  THEN [rid |-> temp[x], who |-> n, flags |-> "none"]
                  ELSE NoAssignment]
          /\ accepted = Assigned
    BY <1>2 DEF fix_channels_roles
  <2>2. PICK temp \in [Nicks -> {admin, operator, voice, NONE}] :
          cs_role_users =
               [x \in Nicks |->
                  IF x = n /\ made >= 1 /\ added THEN [rid |-> admin, who |-> n, flags |-> "none"]
                  ELSE IF made = 3 /\ temp[x] # NONE
                  THEN [rid |-> temp[x], who |-> n, flags |-> "none"]
                  ELSE NoAssignment]
    BY <2>1
  <2>3. /\ TableOK(cs_role) /\ NoCycle(cs_role)
        /\ made = 3 => RootIsAdmin(cs_role)
        /\ made >= 1 => admin \in RolesOf(cs_role)
        /\ made = 3 => {operator, voice} \subseteq RolesOf(cs_role)
    BY <2>1, DefaultTable
  <2>4. UsersOK(cs_role_users, RolesOf(cs_role))
    <3>1. ASSUME NEW x \in Nicks
          PROVE  /\ cs_role_users[x] \in Assignment
                 /\ cs_role_users[x] # NoAssignment => cs_role_users[x].rid \in RolesOf(cs_role)
      <4>1. CASE x = n /\ made >= 1 /\ added
        <5>1. cs_role_users[x] = [rid |-> admin, who |-> n, flags |-> "none"]
          BY <4>1, <2>2
        <5>2. LET a == [rid |-> admin, who |-> n, flags |-> "none"] IN
              a \in Assignment /\ a.rid = admin
          BY NewAssignment DEF Flags
        <5>3. QED
          BY <4>1, <5>1, <5>2, <2>3
      <4>2. CASE ~(x = n /\ made >= 1 /\ added) /\ made = 3 /\ temp[x] # NONE
        <5>1. cs_role_users[x] = [rid |-> temp[x], who |-> n, flags |-> "none"]
          BY <4>2, <2>2
        <5>2. temp[x] \in Rids /\ temp[x] \in RolesOf(cs_role)
          BY <4>2, <2>3
        <5>3. LET a == [rid |-> temp[x], who |-> n, flags |-> "none"] IN
              a \in Assignment /\ a.rid = temp[x]
          BY <5>2, NewAssignment DEF Flags
        <5>4. QED
          BY <5>1, <5>2, <5>3
      <4>3. CASE ~(x = n /\ made >= 1 /\ added) /\ ~(made = 3 /\ temp[x] # NONE)
        BY <4>3, <2>2, NoRecordTypes
      <4>4. QED
        BY <4>1, <4>2, <4>3
    <3>2. QED
      BY <3>1, <2>2 DEF UsersOK
  <2>5. AcceptedInForce /\ accepted \subseteq Nicks
    BY <2>1 DEF AcceptedInForce, Assigned
  <2>6. failures \in 0..MaxFailures /\ (failures = 0 => made = 3) /\ founder # NONE
    BY <2>1, FailedCount, NoRecordTypes, ChanRolesAssumption
  <2>7. QED
    BY <2>1, <2>3, <2>4, <2>5, <2>6, FromTables
<1>3. QED
  BY <1>1, <1>2 DEF Init

LEMMA RegisterKeeps ==
  ASSUME RolesInv, NEW n \in Nicks, NEW admin \in Rids, NEW operator \in Rids,
         NEW voice \in Rids, NEW made \in 0..3, NEW added \in BOOLEAN,
         Register(n, admin, operator, voice, made, added)
  PROVE  RolesInv'
<1>1. /\ TableOK(cs_role') /\ NoCycle(cs_role')
      /\ made = 3 => RootIsAdmin(cs_role')
      /\ made >= 1 => admin \in RolesOf(cs_role')
  BY DefaultTable DEF Register
<1>2. \A x \in Nicks : cs_role_users[x] = NoAssignment
  BY ToTables DEF Register, UsersOK
<1>3. LET a == [rid |-> admin, who |-> n, flags |-> "none"] IN a \in Assignment /\ a.rid = admin
  BY NewAssignment DEF Flags
<1>4. UsersOK(cs_role_users', RolesOf(cs_role')) /\ accepted' \subseteq Nicks
  <2>1. CASE made >= 1 /\ added
    BY <2>1, <1>1, <1>2, <1>3, ToTables DEF Register, UsersOK
  <2>2. CASE ~(made >= 1 /\ added)
    BY <2>2, <1>2, ToTables DEF Register, UsersOK
  <2>3. QED
    BY <2>1, <2>2
<1>5. AcceptedInForce'
  <2>1. \A x \in Nicks : cs_role_users'[x] # NoAssignment => x \in accepted'
    BY <1>2, ToTables DEF Register, UsersOK
  <2>2. QED
    BY <2>1 DEF AcceptedInForce, Assigned
<1>6. /\ failures' \in Nat /\ failures' <= MaxFailures /\ (failures' = 0 => made = 3)
      /\ founder' \in Nicks /\ founder' # NONE
  BY ToTables, FailedCount, NoRecordTypes DEF Register
<1>7. QED
  BY <1>1, <1>4, <1>5, <1>6, StepFromTables

LEMMA DropKeeps ==
  ASSUME RolesInv, Drop
  PROVE  RolesInv'
<1>1. /\ cs_role' \in [Rids -> Role] /\ RolesOf(cs_role') = {}
      /\ \A r \in Rids : cs_role'[r] = NoRole
  BY NoRecordTypes DEF Drop, Forget, RolesOf
<1>2. TableOK(cs_role') /\ NoCycle(cs_role')
  BY <1>1, NoRecordTypes DEF TableOK, NoCycle
<1>3. UsersOK(cs_role_users', RolesOf(cs_role')) /\ AcceptedInForce' /\ accepted' \subseteq Nicks
  BY NoRecordTypes DEF Drop, Forget, UsersOK, AcceptedInForce, Assigned
<1>4. QED
  BY <1>1, <1>2, <1>3, ToTables, StepFromTables DEF Drop, Forget

LEMMA SetFounderKeeps ==
  ASSUME RolesInv, NEW n \in Nicks, SetFounder(n)
  PROVE  RolesInv'
<1>1. AcceptedInForce'
  BY ToTables DEF SetFounder, AcceptedInForce, Assigned
<1>2. QED
  BY <1>1, ToTables, StepFromTables, NoRecordTypes DEF SetFounder

(* Commands that change roles and leave the assignments alone              *)
LEMMA RolesChangeKeeps ==
  ASSUME RolesInv, UNCHANGED <<founder, cs_role_users, accepted, failures>>,
         TableOK(cs_role'), NoCycle(cs_role'),
         RootIsAdmin(cs_role) => RootIsAdmin(cs_role'),
         RolesOf(cs_role) \subseteq RolesOf(cs_role'), RolesOf(cs_role) # {}
  PROVE  RolesInv'
<1>1. AcceptedInForce' /\ UsersOK(cs_role_users', RolesOf(cs_role'))
  BY ToTables DEF AcceptedInForce, Assigned, UsersOK
<1>2. QED
  BY <1>1, ToTables, StepFromTables

LEMMA CreateKeeps ==
  ASSUME RolesInv, NEW r \in Rids, NEW m \in Rids, NEW name \in Names,
         NEW perms \in SUBSET Perms, Create(r, name, m, perms)
  PROVE  RolesInv'
<1>1. r \in Rids \ RolesOf(cs_role) /\ m \in RolesOf(cs_role)
  BY TableFacts DEF Create
<1>2. QED
  BY <1>1, CreatedTable, RolesChangeKeeps, ToTables DEF Create

LEMMA SetMasterKeeps ==
  ASSUME RolesInv, NEW r \in Rids, NEW m \in Rids, SetMaster(r, m)
  PROVE  RolesInv'
<1>1. RolesOf(cs_role) # {}
  BY TableFacts DEF SetMaster
<1>2. QED
  BY <1>1, MovedTable, RolesChangeKeeps, TableFacts DEF SetMaster, RolesInv

LEMMA SetPropKeeps ==
  ASSUME RolesInv, NEW r \in Rids, NEW perms \in SUBSET Perms, SetProp(r, perms)
  PROVE  RolesInv'
<1> DEFINE R == [cs_role[r] EXCEPT !.perms = perms]
<1>1. /\ cs_role \in [Rids -> Role] /\ TableOK(cs_role) /\ NoCycle(cs_role)
      /\ r \in RolesOf(cs_role)
  BY ToTables, TableFacts DEF TableOK, SetProp
<1>2. R \in Role /\ R.name = cs_role[r].name /\ R.master = cs_role[r].master
  BY <1>1 DEF Role
<1>3. R # NoRole
  BY <1>1, <1>2, NoRecordTypes DEF TableOK
<1>4. cs_role' \in [Rids -> Role] /\ \A x \in Rids : cs_role'[x] = IF x = r THEN R ELSE cs_role[x]
  BY <1>1, <1>2 DEF SetProp
<1> HIDE DEF R
<1>5. RolesOf(cs_role') = RolesOf(cs_role)
  BY <1>1, <1>3, <1>4 DEF RolesOf
<1>6. \A x \in Rids : cs_role'[x].name = cs_role[x].name /\ cs_role'[x].master = cs_role[x].master
  BY <1>2, <1>4
<1>7. TableOK(cs_role') /\ NoCycle(cs_role')
  BY <1>1, <1>4, <1>5, <1>6 DEF TableOK, NoCycle, RolesOf
<1>8. RootIsAdmin(cs_role) => RootIsAdmin(cs_role')
  BY <1>5, <1>6 DEF RootIsAdmin, RolesOf
<1>9. QED
  BY <1>1, <1>5, <1>7, <1>8, RolesChangeKeeps DEF SetProp

LEMMA DropRoleKeeps ==
  ASSUME RolesInv, NEW r \in Rids, NEW root \in Rids, NEW updated \in BOOLEAN,
         NEW deleted \in BOOLEAN, DropRole(r, root, updated, deleted)
  PROVE  RolesInv'
<1>1. /\ TableOK(cs_role') /\ NoCycle(cs_role')
      /\ updated /\ deleted /\ RootIsAdmin(cs_role) => RootIsAdmin(cs_role')
      /\ RolesOf(cs_role') = IF deleted THEN Roles \ {r} ELSE Roles
  BY DroppedTable DEF DropRole, RolesInv
<1>2. \A n \in Nicks : cs_role_users'[n] = IF deleted /\ cs_role_users[n].rid = r
                                           THEN NoAssignment ELSE cs_role_users[n]
  BY DEF DropRole
<1>3. UsersOK(cs_role_users', RolesOf(cs_role'))
  <2>1. cs_role_users' \in [Nicks -> Assignment]
    BY ToTables, NoRecordTypes DEF DropRole, UsersOK
  <2>2. QED
    BY <2>1, <1>1, <1>2, ToTables, TableFacts DEF UsersOK
<1>4. AcceptedInForce'
  BY <1>2, ToTables DEF AcceptedInForce, Assigned, DropRole
<1>5. /\ failures' \in Nat /\ failures' <= MaxFailures
      /\ failures' = 0 => failures = 0 /\ updated /\ deleted
  BY ToTables DEF DropRole
<1>6. founder # NONE /\ founder' = founder /\ accepted' \subseteq Nicks
  BY ToTables, TableFacts DEF DropRole
<1>7. QED
  BY <1>1, <1>3, <1>4, <1>5, <1>6, ToTables, StepFromTables

(* Commands that change assignments and leave the roles alone              *)
LEMMA UsersChangeKeeps ==
  ASSUME RolesInv, UNCHANGED <<founder, cs_role, failures>>, accepted' \subseteq Nicks,
         UsersOK(cs_role_users', RolesOf(cs_role)), AcceptedInForce'
  PROVE  RolesInv'
BY ToTables, StepFromTables

LEMMA AddKeeps ==
  ASSUME RolesInv, NEW a \in Nicks, NEW n \in Nicks, NEW r \in Rids, Add(a, n, r)
  PROVE  RolesInv'
<1> DEFINE A == [rid |-> r, who |-> a, flags |-> FlagsFor(a, n)]
<1>1. FlagsFor(a, n) \in Flags
  BY DEF FlagsFor, Flags
<1>2. A \in Assignment /\ A.rid = r /\ A.flags = FlagsFor(a, n) /\ r \in RolesOf(cs_role)
  BY <1>1, NewAssignment, TableFacts DEF Add
<1>3. cs_role_users \in [Nicks -> Assignment]
  BY ToTables DEF UsersOK
<1>4. \A x \in Nicks : cs_role_users'[x] = IF x = n THEN A ELSE cs_role_users[x]
  BY <1>3 DEF Add
<1>5. cs_role_users' \in [Nicks -> Assignment]
  BY <1>2, <1>3 DEF Add
<1> HIDE DEF A
<1>6. UsersOK(cs_role_users', RolesOf(cs_role))
  BY <1>2, <1>4, <1>5, ToTables DEF UsersOK
<1>7. RoleAcceptance /\ FlagsFor(a, n) = "none" => a = n
  BY DEF FlagsFor
<1>8. AcceptedInForce' /\ accepted' \subseteq Nicks
  BY <1>2, <1>4, <1>7, ToTables DEF AcceptedInForce, Assigned, Add
<1>9. QED
  BY <1>6, <1>8, UsersChangeKeeps DEF Add

LEMMA DelKeeps ==
  ASSUME RolesInv, NEW a \in Nicks, NEW n \in Nicks, Del(a, n)
  PROVE  RolesInv'
<1>1. cs_role_users \in [Nicks -> Assignment]
  BY ToTables DEF UsersOK
<1>2. cs_role_users' \in [Nicks -> Assignment]
  BY <1>1, NoRecordTypes DEF Del
<1>3. \A x \in Nicks : cs_role_users'[x] = IF x = n THEN NoAssignment ELSE cs_role_users[x]
  BY <1>1 DEF Del
<1>4. UsersOK(cs_role_users', RolesOf(cs_role)) /\ accepted' \subseteq Nicks
  BY <1>2, <1>3, ToTables DEF UsersOK, Del
<1>5. AcceptedInForce'
  BY <1>3, ToTables DEF AcceptedInForce, Assigned, Del
<1>6. QED
  BY <1>4, <1>5, UsersChangeKeeps DEF Del

LEMMA DelAllKeeps ==
  ASSUME RolesInv, DelAll
  PROVE  RolesInv'
<1>1. UsersOK(cs_role_users', RolesOf(cs_role)) /\ AcceptedInForce' /\ accepted' \subseteq Nicks
  BY NoRecordTypes DEF DelAll, UsersOK, AcceptedInForce, Assigned
<1>2. QED
  BY <1>1, UsersChangeKeeps DEF DelAll

(* ACCEPT and REJECT change the flags of the own assignment.               *)
LEMMA AnswerKeeps ==
  ASSUME RolesInv, NEW n \in Nicks, Accept(n) \/ Reject(n)
  PROVE  RolesInv'
<1> DEFINE f == IF Accept(n) THEN "none" ELSE "rejected"
           A == [cs_role_users[n] EXCEPT !.flags = f]
<1>1. cs_role_users \in [Nicks -> Assignment] /\ cs_role_users[n].flags = "pending"
  BY ToTables DEF UsersOK, Accept, Reject
<1>2. A \in Assignment /\ A.rid = cs_role_users[n].rid /\ A.flags = f
  BY <1>1 DEF Assignment, Flags
<1>3. cs_role_users' = [cs_role_users EXCEPT ![n] = A]
  BY DEF Accept, Reject
<1>4. n \in Assigned
  BY <1>1 DEF Assigned, NoAssignment
<1>5. (f = "none" => n \in accepted') /\ accepted \subseteq accepted' /\ accepted' \subseteq Nicks
  BY ToTables DEF Accept, Reject
<1> HIDE DEF A, f
<1>6. /\ cs_role_users' \in [Nicks -> Assignment]
      /\ \A x \in Nicks : cs_role_users'[x] = IF x = n THEN A ELSE cs_role_users[x]
  BY <1>1, <1>2, <1>3
<1>7. UsersOK(cs_role_users', RolesOf(cs_role))
  BY <1>2, <1>4, <1>6, ToTables DEF UsersOK, Assigned
<1>8. AcceptedInForce'
  BY <1>2, <1>5, <1>6, ToTables DEF AcceptedInForce, Assigned
<1>9. QED
  BY <1>5, <1>7, <1>8, UsersChangeKeeps DEF Accept, Reject

LEMMA NickDeleteKeeps ==
  ASSUME RolesInv, NEW n \in Nicks, NEW successor \in Nicks \union {NONE},
         NickDelete(n, successor)
  PROVE  RolesInv'
<1>1. cs_role_users \in [Nicks -> Assignment]
  BY ToTables DEF UsersOK
<1>2. ASSUME NEW x \in Nicks
      PROVE  /\ cs_role_users'[x] \in Assignment
             /\ \/ cs_role_users'[x] = NoAssignment
                \/ /\ x # n /\ cs_role_users[x] # NoAssignment
                   /\ cs_role_users'[x].rid = cs_role_users[x].rid
                   /\ cs_role_users'[x].flags = cs_role_users[x].flags
  <2>1. cs_role_users'[x] = IF x = n THEN NoAssignment
                            ELSE IF cs_role_users[x].who = n THEN [cs_role_users[x] EXCEPT !.who = NONE]
                            ELSE cs_role_users[x]
    BY DEF NickDelete, WithoutNick
  <2>2. LET A == [cs_role_users[x] EXCEPT !.who = NONE] IN
        A \in Assignment /\ A.rid = cs_role_users[x].rid /\ A.flags = cs_role_users[x].flags
    BY <1>1 DEF Assignment
  <2>3. cs_role_users[x].who = n => cs_role_users[x] # NoAssignment
    BY NoRecordTypes DEF NoAssignment
  <2>4. QED
    BY <2>1, <2>2, <2>3, <1>1, NoRecordTypes
<1>3. cs_role_users' \in [Nicks -> Assignment]
  BY <1>2 DEF NickDelete, WithoutNick
<1>4. UsersOK(cs_role_users', RolesOf(cs_role))
  BY <1>2, <1>3, ToTables DEF UsersOK
<1>5. AcceptedInForce' /\ accepted' \subseteq Nicks
  BY <1>2, ToTables DEF AcceptedInForce, Assigned, NickDelete
<1>6. founder' \in Nicks \union {NONE} /\ (founder' = NONE <=> founder = NONE)
  BY ToTables, NoRecordTypes DEF NickDelete
<1>7. QED
  BY <1>4, <1>5, <1>6, ToTables, StepFromTables DEF NickDelete

LEMMA NextKeeps == RolesInv /\ [Next]_vars => RolesInv'
<1> SUFFICES ASSUME RolesInv, [Next]_vars PROVE RolesInv'
  OBVIOUS
<1>1. CASE UNCHANGED vars
  <2>1. AcceptedInForce'
    BY <1>1, ToTables DEF vars, AcceptedInForce, Assigned
  <2>2. QED
    BY <1>1, <2>1, ToTables, StepFromTables DEF vars
<1>2. CASE Next
  BY <1>2, RegisterKeeps, DropKeeps, SetFounderKeeps, CreateKeeps, DropRoleKeeps, SetMasterKeeps,
     SetPropKeeps, AddKeeps, DelKeeps, DelAllKeeps, AnswerKeeps, NickDeleteKeeps DEF Next
<1>3. QED
  BY <1>1, <1>2

-----------------------------------------------------------------------------
(* The hierarchy is in order and assignments respect acceptance in every   *)
(* state, whichever statements have failed: the invariant is inductive.    *)
THEOREM RolesInvariant == Spec => []RolesInv
BY InitHolds, NextKeeps, PTL DEF Spec

(* The foreign keys and types of the two tables                            *)
THEOREM TablesTyped == Spec => []TypeOK
<1>1. RolesInv => TypeOK
  BY DEF RolesInv
<1>2. QED
  BY <1>1, RolesInvariant, PTL

(* is_master and role_is_master end from every role of every channel.      *)
THEOREM MasterWalksEnd == Spec => []WalksEnd
<1>1. RolesInv => WalksEnd
  BY DEF RolesInv
<1>2. QED
  BY <1>1, RolesInvariant, PTL

(* The founder's "admin" stays the one root while statements succeed.      *)
THEOREM OneRoot == Spec => []AdminIsRoot
<1>1. RolesInv => AdminIsRoot
  BY DEF RolesInv
<1>2. QED
  BY <1>1, RolesInvariant, PTL

(* role_with_permission grants nothing that was not accepted.              *)
THEOREM NothingUnaccepted == Spec => []PermissionsWereAccepted
<1>1. RolesInv => PermissionsWereAccepted
  BY DEF RolesInv, AcceptedInForce, PermissionsWereAccepted, RoleWithPermission
<1>2. QED
  BY <1>1, RolesInvariant, PTL

-----------------------------------------------------------------------------
(* Least numbers, finite sets in steps, and what FoldLeft computes: a chain*)
(* of values that stays in any set the step keeps.                         *)

LEMMA Least ==
  ASSUME NEW S \in SUBSET Nat, S # {}
  PROVE  \E m \in S : \A k \in S : m <= k
<1> DEFINE T == {1..k : k \in S}
           R == StrictSubsetOrdering(Nat)
<1>1. T \subseteq FiniteSubsetsOf(Nat)
  <2>1. ASSUME NEW k \in S PROVE 1..k \subseteq Nat /\ IsFiniteSet(1..k)
    BY FS_Interval
  <2>2. QED
    BY <2>1 DEF FiniteSubsetsOf
<1>2. T # {}
  OBVIOUS
<1>3. IsWellFoundedOn(R, FiniteSubsetsOf(Nat))
  BY FS_StrictSubsetOrderingWellFounded
<1>4. PICK x \in T : \A y \in T : <<y, x>> \notin R
  <2> HIDE DEF T, R
  <2>1. QED
    BY <1>1, <1>2, <1>3, WFMin, Zenon
<1>5. PICK m \in S : x = 1..m
  OBVIOUS
<1>6. ASSUME NEW k \in S, ~(m <= k) PROVE FALSE
  <2>1. 1..k \subseteq 1..m /\ 1..k # 1..m /\ 1..k \in SUBSET Nat /\ 1..m \in SUBSET Nat
    <3>1. m \in 1..m /\ m \notin 1..k
      BY <1>6
    <3>2. QED
      BY <1>6, <3>1
  <2>2. <<1..k, 1..m>> \in R
    BY <2>1 DEF StrictSubsetOrdering
  <2>3. QED
    BY <1>4, <1>5, <2>2
<1>7. QED
  BY <1>6

LEMMA Steps ==
  ASSUME NEW n \in Nat, NEW S, 0 \in S,
         \A k \in 0..n : k \in S /\ k < n => k + 1 \in S
  PROVE  \A k \in 0..n : k \in S
<1> DEFINE W == {k \in 0..n : k \notin S}
<1>1. SUFFICES ASSUME W # {} PROVE FALSE
  OBVIOUS
<1>2. W \in SUBSET Nat
  OBVIOUS
<1> HIDE DEF W
<1>3. PICK m \in W : \A k \in W : m <= k
  BY <1>1, <1>2, Least
<1>4. m \in 0..n /\ m \notin S /\ m # 0
  BY DEF W
<1>5. m - 1 \in 0..n /\ m - 1 < n /\ m - 1 \notin W
  BY <1>3, <1>4
<1>6. m - 1 \in S
  BY <1>5 DEF W
<1>7. m - 1 + 1 \in S
  BY <1>5, <1>6
<1>8. QED
  BY <1>4, <1>7

Joins(w, s, t) ==
  /\ Len(w) = Len(s) + Len(t)
  /\ \A i \in 1..Len(s) : w[i] = s[i]
  /\ \A i \in 1..Len(t) : w[Len(s) + i] = t[i]

LEMMA Joined ==
  ASSUME NEW S, NEW s \in Seq(S), NEW t \in Seq(S)
  PROVE  s \o t \in Seq(S) /\ Joins(s \o t, s, t)
<1>1. Len(s) \in Nat /\ Len(t) \in Nat
  BY LenProperties
<1>2. /\ s \o t \in Seq(S) /\ Len(s \o t) = Len(s) + Len(t)
      /\ \A i \in 1..Len(s) + Len(t) :
           (s \o t)[i] = IF i <= Len(s) THEN s[i] ELSE t[i - Len(s)]
  BY ConcatProperties
<1>3. ASSUME NEW i \in 1..Len(s) PROVE (s \o t)[i] = s[i]
  BY <1>1, <1>2
<1>4. ASSUME NEW i \in 1..Len(t) PROVE (s \o t)[Len(s) + i] = t[i]
  <2>1. Len(s) + i \in 1..Len(s) + Len(t) /\ ~(Len(s) + i <= Len(s)) /\ (Len(s) + i) - Len(s) = i
    BY <1>1
  <2>2. QED
    BY <1>2, <2>1
<1>5. QED
  BY <1>2, <1>3, <1>4 DEF Joins

LEMMA LengthOfSeq ==
  ASSUME NEW S, NEW n \in Nat, NEW s \in [1..n -> S]
  PROVE  s \in Seq(S) /\ Len(s) = n
<1>1. s \in Seq(S)
  BY SeqDef
<1>2. Len(s) \in Nat /\ 1..n = 1..Len(s)
  BY <1>1, LenProperties
<1>3. n <= Len(s)
  <2>1. n # 0 => n \in 1..n
    OBVIOUS
  <2>2. QED
    BY <1>2, <2>1
<1>4. Len(s) <= n
  <2>1. Len(s) # 0 => Len(s) \in 1..Len(s)
    BY <1>2
  <2>2. QED
    BY <1>2, <2>1
<1>5. QED
  BY <1>1, <1>2, <1>3, <1>4

LEMMA ImageFinite ==
  ASSUME NEW S, IsFiniteSet(S), NEW f
  PROVE  IsFiniteSet({f[x] : x \in S})
<1> DEFINE T == {f[x] : x \in S}
           g == [x \in S |-> f[x]]
<1>1. g \in Surjection(S, T)
  BY DEF Surjection
<1>2. QED
  BY <1>1, FS_Surjection

FoldOf(it, D, base, H, sel) ==
  it = [s \in SUBSET D |-> IF s = {} THEN base ELSE H[<<sel[s], it[s \ {sel[s]}]>>]]

LEMMA SetSteps ==
  ASSUME NEW D, IsFiniteSet(D), NEW sel, NEW S, {} \in S,
         \A s \in SUBSET D : s # {} => sel[s] \in s,
         \A s \in SUBSET D : s # {} /\ s \ {sel[s]} \in S => s \in S
  PROVE  \A s \in SUBSET D : s \in S
<1> DEFINE n == Cardinality(D)
           N == {k \in 0..n : \A s \in SUBSET D : Cardinality(s) = k => s \in S}
<1>1. n \in Nat /\ \A s \in SUBSET D : IsFiniteSet(s) /\ Cardinality(s) \in 0..n
  BY FS_Subset, FS_CardinalityType
<1> HIDE DEF n
<1>2. 0 \in N
  BY <1>1, FS_EmptySet
<1>3. \A k \in 0..n : k \in N /\ k < n => k + 1 \in N
  <2>1. SUFFICES ASSUME NEW k \in 0..n, k \in N, k < n,
                        NEW s \in SUBSET D, Cardinality(s) = k + 1
                 PROVE  s \in S
    BY <1>1
  <2>2. s # {}
    BY <1>1, <2>1, FS_EmptySet
  <2>3. Cardinality(s \ {sel[s]}) = k /\ s \ {sel[s]} \in SUBSET D
    <3>1. sel[s] \in s /\ IsFiniteSet(s)
      BY <1>1, <2>1, <2>2
    <3>2. Cardinality(s \ {sel[s]}) = Cardinality(s) - 1
      BY <3>1, FS_RemoveElement
    <3>3. QED
      BY <2>1, <3>2
  <2>4. s \ {sel[s]} \in S
    BY <2>1, <2>3
  <2>5. QED
    BY <2>2, <2>4
<1> HIDE DEF N
<1>4. \A k \in 0..n : k \in N
  BY <1>1, <1>2, <1>3, Steps
<1>5. QED
  BY <1>1, <1>4 DEF N

LEMMA FoldExists ==
  ASSUME NEW D, IsFiniteSet(D), NEW base, NEW H, NEW sel,
         \A s \in SUBSET D : s # {} => sel[s] \in s
  PROVE  \E it : FoldOf(it, D, base, H, sel)
<1> DEFINE n == Cardinality(D)
           Small(k) == {s \in SUBSET D : Cardinality(s) <= k}
           Eq(it, s) == it[s] = IF s = {} THEN base ELSE H[<<sel[s], it[s \ {sel[s]}]>>]
           N == {k \in 0..n : \E it : \A s \in Small(k) : Eq(it, s)}
<1>1. n \in Nat /\ \A s \in SUBSET D : IsFiniteSet(s) /\ Cardinality(s) \in 0..n
  BY FS_Subset, FS_CardinalityType
<1> HIDE DEF n
<1>2. 0 \in N
  <2> DEFINE w == [s \in SUBSET D |-> base]
  <2>1. ASSUME NEW s \in Small(0) PROVE Eq(w, s)
    BY <1>1, FS_EmptySet
  <2> HIDE DEF w
  <2>2. \E it : \A s \in Small(0) : Eq(it, s)
    <3> HIDE DEF Eq, Small
    <3>1. QED
      BY <2>1, Zenon
  <2> HIDE DEF Eq, Small
  <2>3. QED
    BY <1>1, <2>2
<1>3. \A k \in 0..n : k \in N /\ k < n => k + 1 \in N
  <2>1. SUFFICES ASSUME NEW k \in 0..n, k \in N, k < n PROVE k + 1 \in N
    OBVIOUS
  <2>2. PICK it : \A s \in Small(k) : Eq(it, s)
    BY <2>1
  <2> DEFINE w == [s \in SUBSET D |-> IF s = {} THEN base ELSE H[<<sel[s], it[s \ {sel[s]}]>>]]
  <2>3. ASSUME NEW s \in Small(k) PROVE w[s] = it[s]
    BY <2>2
  <2>4. ASSUME NEW s \in Small(k + 1) PROVE Eq(w, s)
    <3>1. CASE s = {}
      BY <3>1
    <3>2. CASE s # {}
      <4> DEFINE t == s \ {sel[s]}
      <4>1. t \in SUBSET D /\ Cardinality(t) = Cardinality(s) - 1 /\ Cardinality(s) \in Nat
        BY <1>1, <3>2, FS_RemoveElement
      <4>2. t \in Small(k)
        BY <2>4, <4>1
      <4>3. w[t] = it[t]
        BY <2>3, <4>2
      <4>4. w[s] = H[<<sel[s], it[t]>>]
        BY <3>2
      <4> HIDE DEF w, t
      <4>5. w[s] = H[<<sel[s], w[t]>>]
        BY <4>3, <4>4
      <4>6. QED
        BY <3>2, <4>5 DEF t
    <3>3. QED
      BY <3>1, <3>2
  <2> HIDE DEF w
  <2>5. \E g : \A s \in Small(k + 1) : Eq(g, s)
    <3> HIDE DEF Eq, Small
    <3>1. QED
      BY <2>4, Zenon
  <2>6. k + 1 \in 0..n
    BY <1>1, <2>1
  <2>7. QED
    BY <2>5, <2>6
<1> HIDE DEF N
<1>4. \A k \in 0..n : k \in N
  BY <1>1, <1>2, <1>3, Steps
<1>5. n \in N
  BY <1>1, <1>4
<1>6. PICK it : \A s \in Small(n) : Eq(it, s)
  BY <1>5 DEF N
<1> DEFINE w == [s \in SUBSET D |-> it[s]]
<1>7. ASSUME NEW s \in SUBSET D
      PROVE  w[s] = IF s = {} THEN base ELSE H[<<sel[s], w[s \ {sel[s]}]>>]
  <2>1. s \in Small(n)
    BY <1>1
  <2>2. it[s] = IF s = {} THEN base ELSE H[<<sel[s], it[s \ {sel[s]}]>>]
    BY <1>6, <2>1
  <2>3. s \ {sel[s]} \in SUBSET D
    OBVIOUS
  <2>4. w[s] = it[s] /\ w[s \ {sel[s]}] = it[s \ {sel[s]}]
    BY <2>3
  <2> HIDE DEF w
  <2>5. QED
    BY <2>2, <2>4, Zenon
<1>8. w = [s \in SUBSET D |-> w[s]]
  OBVIOUS
<1> HIDE DEF w
<1>9. w = [s \in SUBSET D |-> IF s = {} THEN base ELSE H[<<sel[s], w[s \ {sel[s]}]>>]]
  BY <1>7, <1>8
<1>10. QED
  BY <1>9, Zenon DEF FoldOf

LEMMA MaxOf ==
  ASSUME NEW n \in Nat, NEW s \in SUBSET (1..n), s # {}
  PROVE  Max(s) \in s /\ \A k \in s : k <= Max(s)
<1> DEFINE S == {n - k : k \in s}
<1>1. S \in SUBSET Nat /\ S # {}
  <2>1. \A k \in s : n - k \in Nat
    OBVIOUS
  <2>2. QED
    BY <2>1
<1>2. PICK m \in S : \A k \in S : m <= k
  BY <1>1, Least
<1>3. PICK x \in s : m = n - x
  BY <1>2
<1>4. \A k \in s : n - k \in S
  OBVIOUS
<1>5. \A k \in s : x >= k
  BY <1>2, <1>3, <1>4
<1>6. \E y \in s : \A k \in s : y >= k
  BY <1>5
<1>7. Max(s) \in s /\ \A k \in s : Max(s) >= k
  BY <1>6, Zenon DEF Max
<1>8. QED
  BY <1>7

LEMMA MaxOfInterval ==
  ASSUME NEW n \in Nat, NEW k \in 1..n
  PROVE  /\ 1..k \in SUBSET (1..n) /\ 1..k # {} /\ Max(1..k) = k
         /\ (1..k) \ {k} = 1..k - 1
<1>1. 1..k \in SUBSET (1..n) /\ 1..k # {} /\ k \in 1..k
  OBVIOUS
<1>2. Max(1..k) \in 1..k /\ k <= Max(1..k)
  BY <1>1, MaxOf
<1>3. QED
  BY <1>1, <1>2

(* What FoldLeft computes is a chain of values in T.                       *)
IsFold(it, n, base, H) ==
  it = [s \in SUBSET (1..n) |-> IF s = {} THEN base ELSE H[<<Max(s), it[s \ {Max(s)}]>>]]

Folds(it, n, T, base, H) ==
  /\ it[{}] = base
  /\ \A s \in SUBSET (1..n) :
       s # {} /\ it[s \ {Max(s)}] \in T => it[s] = H[<<Max(s), it[s \ {Max(s)}]>>]

IsChain(c, n, base, H) == c[0] = base /\ \A k \in 1..n : c[k] = H[<<k, c[k - 1]>>]

LEMMA ChainExists ==
  ASSUME NEW n \in Nat, NEW T, NEW base \in T, NEW H \in [(1..n) \X T -> T]
  PROVE  \E w : IsFold(w, n, base, H) /\ \A s \in SUBSET (1..n) : w[s] \in T
<1> DEFINE D == 1..n
           sel == [s \in SUBSET D |-> Max(s)]
<1>1. IsFiniteSet(D) /\ \A s \in SUBSET D : s # {} => sel[s] \in s
  <2>1. \A s \in SUBSET D : s # {} => Max(s) \in s
    BY MaxOf
  <2>2. IsFiniteSet(D)
    BY FS_Interval
  <2>3. QED
    BY <2>1, <2>2
<1>2. PICK w : FoldOf(w, D, base, H, sel)
  <2> HIDE DEF sel, D
  <2>1. QED
    BY <1>1, FoldExists
<1>3. w = [s \in SUBSET D |-> IF s = {} THEN base ELSE H[<<Max(s), w[s \ {Max(s)}]>>]]
  BY <1>2 DEF FoldOf
<1> DEFINE S == {s \in SUBSET D : w[s] \in T}
<1>4. {} \in S
  BY <1>3
<1>5. ASSUME NEW s \in SUBSET D, s # {}, s \ {sel[s]} \in S PROVE s \in S
  <2>1. sel[s] = Max(s) /\ Max(s) \in D
    BY <1>1, <1>5
  <2>2. w[s] = H[<<Max(s), w[s \ {Max(s)}]>>]
    BY <1>3, <1>5
  <2>3. <<Max(s), w[s \ {Max(s)}]>> \in D \X T
    BY <1>5, <2>1
  <2>4. H[<<Max(s), w[s \ {Max(s)}]>>] \in T
    <3> HIDE DEF S, sel
    <3>1. QED
      BY <2>3
  <2>5. QED
    BY <2>2, <2>4
<1>6. \A s \in SUBSET D : s \in S
  <2> HIDE DEF S, sel, D
  <2>1. QED
    BY <1>1, <1>4, <1>5, SetSteps
<1>7. \A s \in SUBSET D : w[s] \in T
  BY <1>6
<1>8. IsFold(w, n, base, H)
  BY <1>3 DEF IsFold
<1>9. QED
  BY <1>7, <1>8

HasChain(it, n, T, base, H) ==
  \E c \in [0..n -> T] : IsChain(c, n, base, H) /\ it[1..n] = c[n]

LEMMA ChainOf ==
  ASSUME NEW n \in Nat, NEW T, NEW base \in T, NEW H \in [(1..n) \X T -> T],
         NEW it, Folds(it, n, T, base, H)
  PROVE  HasChain(it, n, T, base, H)
<1> DEFINE c == [k \in 0..n |-> it[1..k]]
           S == {k \in 0..n : c[k] \in T}
<1>1. c[0] = base /\ c[n] = it[1..n]
  <2>1. 1..0 = {} /\ 0 \in 0..n /\ n \in 0..n
    OBVIOUS
  <2>2. QED
    BY <2>1 DEF Folds
<1>2. ASSUME NEW k \in 1..n, c[k - 1] \in T PROVE c[k] = H[<<k, c[k - 1]>>] /\ c[k] \in T
  <2>1. /\ 1..k \in SUBSET (1..n) /\ 1..k # {} /\ Max(1..k) = k /\ (1..k) \ {k} = 1..k - 1
        /\ k \in 0..n /\ k - 1 \in 0..n
    BY MaxOfInterval
  <2>2. c[k] = it[1..k] /\ c[k - 1] = it[1..k - 1]
    BY <2>1
  <2>3. it[1..k] = H[<<k, it[1..k - 1]>>]
    BY <1>2, <2>1, <2>2 DEF Folds
  <2>4. <<k, c[k - 1]>> \in (1..n) \X T
    BY <1>2
  <2> HIDE DEF c
  <2>5. QED
    BY <2>2, <2>3, <2>4
<1>3. 0 \in S
  BY <1>1
<1>4. \A k \in 0..n : k \in S /\ k < n => k + 1 \in S
  <2>1. SUFFICES ASSUME NEW k \in 0..n, k \in S, k < n PROVE k + 1 \in S
    OBVIOUS
  <2>2. k + 1 \in 1..n /\ (k + 1) - 1 = k /\ k + 1 \in 0..n
    BY <2>1
  <2>3. c[k + 1] \in T
    <3>1. c[(k + 1) - 1] \in T
      BY <2>1, <2>2
    <3> HIDE DEF c
    <3>2. QED
      BY <1>2, <2>2, <3>1
  <2>4. QED
    BY <2>2, <2>3
<1> HIDE DEF S
<1>5. \A k \in 0..n : k \in S
  BY <1>3, <1>4, Steps
<1>6. \A k \in 0..n : c[k] \in T
  BY <1>5 DEF S
<1>7. c \in [0..n -> T]
  BY <1>6
<1> HIDE DEF c
<1>8. \A k \in 1..n : c[k] = H[<<k, c[k - 1]>>]
  <2>1. \A k \in 1..n : k - 1 \in 0..n
    OBVIOUS
  <2>2. QED
    BY <1>2, <1>6, <2>1
<1>9. IsChain(c, n, base, H) /\ it[1..n] = c[n]
  BY <1>1, <1>8 DEF IsChain
<1>10. QED
  BY <1>7, <1>9, Zenon DEF HasChain

-----------------------------------------------------------------------------
(* The folds of ChanModes, each an instance of the chain.                  *)

LEMMA AppliedFolded ==
  ASSUME NEW T, NEW base \in T, NEW D, NEW s \in Seq(D), \A y \in T, x \in D : Applied(y, x) \in T
  PROVE  /\ FoldLeft(Applied, base, s) \in T
         /\ Len(s) = 1 => FoldLeft(Applied, base, s) = Applied(base, s[1])
<1> DEFINE n == Len(s)
           H == [p \in (1..n) \X T |-> Applied(p[2], s[p[1]])]
           G(it) == [z \in SUBSET DOMAIN s |->
                       IF z = {} THEN base ELSE Applied(it[z \ {Max(z)}], s[Max(z)])]
           iter == CHOOSE it : it = G(it)
<1>1. n \in Nat /\ DOMAIN s = 1..n /\ \A k \in 1..n : s[k] \in D
  BY LenProperties, ElementOfSeq
<1>2. FoldLeft(Applied, base, s) = iter[1..n]
  <2>1. FoldLeft(Applied, base, s) = iter[DOMAIN s]
    BY Zenon DEF FoldLeft, MapThenFoldSet
  <2> HIDE DEF iter
  <2>2. QED
    BY <1>1, <2>1
<1>3. H \in [(1..n) \X T -> T]
  BY <1>1
<1>4. PICK w : IsFold(w, n, base, H) /\ \A z \in SUBSET (1..n) : w[z] \in T
  <2> HIDE DEF H, n
  <2>1. QED
    BY <1>1, <1>3, ChainExists, Zenon
<1>5. w = G(w)
  <2>1. ASSUME NEW z \in SUBSET (1..n), z # {}
        PROVE  H[<<Max(z), w[z \ {Max(z)}]>>] = Applied(w[z \ {Max(z)}], s[Max(z)])
    <3>1. Max(z) \in 1..n /\ z \ {Max(z)} \in SUBSET (1..n)
      BY <1>1, <2>1, MaxOf
    <3>2. w[z \ {Max(z)}] \in T
      BY <1>4, <3>1, Zenon
    <3>3. QED
      BY <3>1, <3>2
  <2> HIDE DEF H
  <2>2. QED
    BY <1>1, <1>4, <2>1 DEF IsFold
<1>6. iter = G(iter)
  <2> HIDE DEF G
  <2>1. QED
    BY <1>5, Zenon
<1> HIDE DEF iter
<1>7. ASSUME NEW z \in SUBSET (1..n)
      PROVE  iter[z] = IF z = {} THEN base ELSE Applied(iter[z \ {Max(z)}], s[Max(z)])
  BY <1>1, <1>6
<1>8. ASSUME NEW z \in SUBSET (1..n), z # {}, iter[z \ {Max(z)}] \in T
      PROVE  iter[z] = H[<<Max(z), iter[z \ {Max(z)}]>>]
  <2>1. Max(z) \in 1..n
    BY <1>1, <1>8, MaxOf
  <2>2. iter[z] = Applied(iter[z \ {Max(z)}], s[Max(z)])
    BY <1>7, <1>8, Zenon
  <2>3. QED
    BY <1>8, <2>1, <2>2
<1>9. Folds(iter, n, T, base, H)
  <2>1. iter[{}] = base
    BY <1>7
  <2> HIDE DEF H, n
  <2>2. QED
    BY <1>8, <2>1 DEF Folds
<1>10. PICK c \in [0..n -> T] : IsChain(c, n, base, H) /\ iter[1..n] = c[n]
  <2> HIDE DEF H, n
  <2>1. n \in Nat
    BY <1>1
  <2>2. HasChain(iter, n, T, base, H)
    BY <2>1, <1>3, <1>9, ChainOf, Zenon
  <2>3. QED
    BY <2>2, Zenon DEF HasChain
<1>11. ASSUME NEW k \in 1..n PROVE c[k] = Applied(c[k - 1], s[k])
  <2>1. k - 1 \in 0..n
    BY <1>1
  <2>2. c[k - 1] \in T
    BY <2>1
  <2>3. QED
    BY <1>10, <2>2 DEF IsChain
<1>12. n \in 0..n /\ c[0] = base
  BY <1>1, <1>10 DEF IsChain
<1>13. n = 1 => c[n] = Applied(base, s[1])
  <2>1. n = 1 => 1 \in 1..n /\ 1 - 1 = 0
    OBVIOUS
  <2>2. QED
    BY <1>11, <1>12, <2>1
<1> HIDE DEF n
<1>14. /\ iter[1..n] \in T
       /\ (n = 1 => iter[1..n] = Applied(base, s[1]))
  BY <1>10, <1>12, <1>13
<1>15. QED
  BY <1>2, <1>14 DEF n

LEMMA StepFolded ==
  ASSUME NEW T, NEW base \in T, NEW D, NEW s \in Seq(D), \A y \in T, x \in D : AppliedAll(y, x.changes) \in T
  PROVE  /\ FoldLeft(LAMBDA z, line : AppliedAll(z, line.changes), base, s) \in T
         /\ Len(s) = 1 => FoldLeft(LAMBDA z, line : AppliedAll(z, line.changes), base, s) = AppliedAll(base, s[1].changes)
<1> DEFINE n == Len(s)
           H == [p \in (1..n) \X T |-> AppliedAll(p[2], s[p[1]].changes)]
           G(it) == [z \in SUBSET DOMAIN s |->
                       IF z = {} THEN base ELSE AppliedAll(it[z \ {Max(z)}], s[Max(z)].changes)]
           iter == CHOOSE it : it = G(it)
<1>1. n \in Nat /\ DOMAIN s = 1..n /\ \A k \in 1..n : s[k] \in D
  BY LenProperties, ElementOfSeq
<1>2. FoldLeft(LAMBDA z, line : AppliedAll(z, line.changes), base, s) = iter[1..n]
  <2>1. FoldLeft(LAMBDA z, line : AppliedAll(z, line.changes), base, s) = iter[DOMAIN s]
    BY Zenon DEF FoldLeft, MapThenFoldSet
  <2> HIDE DEF iter
  <2>2. QED
    BY <1>1, <2>1
<1>3. H \in [(1..n) \X T -> T]
  BY <1>1
<1>4. PICK w : IsFold(w, n, base, H) /\ \A z \in SUBSET (1..n) : w[z] \in T
  <2> HIDE DEF H, n
  <2>1. QED
    BY <1>1, <1>3, ChainExists, Zenon
<1>5. w = G(w)
  <2>1. ASSUME NEW z \in SUBSET (1..n), z # {}
        PROVE  H[<<Max(z), w[z \ {Max(z)}]>>] = AppliedAll(w[z \ {Max(z)}], s[Max(z)].changes)
    <3>1. Max(z) \in 1..n /\ z \ {Max(z)} \in SUBSET (1..n)
      BY <1>1, <2>1, MaxOf
    <3>2. w[z \ {Max(z)}] \in T
      BY <1>4, <3>1, Zenon
    <3>3. QED
      BY <3>1, <3>2
  <2> HIDE DEF H
  <2>2. QED
    BY <1>1, <1>4, <2>1 DEF IsFold
<1>6. iter = G(iter)
  <2> HIDE DEF G
  <2>1. QED
    BY <1>5, Zenon
<1> HIDE DEF iter
<1>7. ASSUME NEW z \in SUBSET (1..n)
      PROVE  iter[z] = IF z = {} THEN base ELSE AppliedAll(iter[z \ {Max(z)}], s[Max(z)].changes)
  BY <1>1, <1>6
<1>8. ASSUME NEW z \in SUBSET (1..n), z # {}, iter[z \ {Max(z)}] \in T
      PROVE  iter[z] = H[<<Max(z), iter[z \ {Max(z)}]>>]
  <2>1. Max(z) \in 1..n
    BY <1>1, <1>8, MaxOf
  <2>2. iter[z] = AppliedAll(iter[z \ {Max(z)}], s[Max(z)].changes)
    BY <1>7, <1>8, Zenon
  <2>3. QED
    BY <1>8, <2>1, <2>2
<1>9. Folds(iter, n, T, base, H)
  <2>1. iter[{}] = base
    BY <1>7
  <2> HIDE DEF H, n
  <2>2. QED
    BY <1>8, <2>1 DEF Folds
<1>10. PICK c \in [0..n -> T] : IsChain(c, n, base, H) /\ iter[1..n] = c[n]
  <2> HIDE DEF H, n
  <2>1. n \in Nat
    BY <1>1
  <2>2. HasChain(iter, n, T, base, H)
    BY <2>1, <1>3, <1>9, ChainOf, Zenon
  <2>3. QED
    BY <2>2, Zenon DEF HasChain
<1>11. ASSUME NEW k \in 1..n PROVE c[k] = AppliedAll(c[k - 1], s[k].changes)
  <2>1. k - 1 \in 0..n
    BY <1>1
  <2>2. c[k - 1] \in T
    BY <2>1
  <2>3. QED
    BY <1>10, <2>2 DEF IsChain
<1>12. n \in 0..n /\ c[0] = base
  BY <1>1, <1>10 DEF IsChain
<1>13. n = 1 => c[n] = AppliedAll(base, s[1].changes)
  <2>1. n = 1 => 1 \in 1..n /\ 1 - 1 = 0
    OBVIOUS
  <2>2. QED
    BY <1>11, <1>12, <2>1
<1> HIDE DEF n
<1>14. /\ iter[1..n] \in T
       /\ (n = 1 => iter[1..n] = AppliedAll(base, s[1].changes))
  BY <1>10, <1>12, <1>13
<1>15. QED
  BY <1>2, <1>14 DEF n

GivesKeep(T, D, u) == \A y \in T, x \in D : SendMode(y, {Change(TRUE, x, u)}) \in T
TakesKeep(T, D, l) == \A y \in T, x \in D : SendMode(y, {Change(FALSE, l, x)}) \in T
GivenAll(a, q, u) == FoldLeft(LAMBDA z, letter : SendMode(z, {Change(TRUE, letter, u)}), a, q)
TakenAll(a, q, l) == FoldLeft(LAMBDA z, x : SendMode(z, {Change(FALSE, l, x)}), a, q)

LEMMA GiveOneFolded ==
  ASSUME NEW T, NEW base \in T, NEW D, NEW s \in Seq(D), NEW u,
          GivesKeep(T, D, u)
  PROVE  /\ GivenAll(base, s, u) \in T
         /\ Len(s) = 1 => GivenAll(base, s, u) = SendMode(base, {Change(TRUE, s[1], u)})
<1> DEFINE n == Len(s)
           H == [p \in (1..n) \X T |-> SendMode(p[2], {Change(TRUE, s[p[1]], u)})]
           G(it) == [z \in SUBSET DOMAIN s |->
                       IF z = {} THEN base ELSE SendMode(it[z \ {Max(z)}], {Change(TRUE, s[Max(z)], u)})]
           iter == CHOOSE it : it = G(it)
<1>1. n \in Nat /\ DOMAIN s = 1..n /\ \A k \in 1..n : s[k] \in D
  BY LenProperties, ElementOfSeq
<1>2. GivenAll(base, s, u) = iter[1..n]
  <2>1. GivenAll(base, s, u) = iter[DOMAIN s]
    BY Zenon DEF GivenAll, FoldLeft, MapThenFoldSet
  <2> HIDE DEF iter
  <2>2. QED
    BY <1>1, <2>1
<1>3. H \in [(1..n) \X T -> T]
  BY <1>1 DEF GivesKeep
<1>4. PICK w : IsFold(w, n, base, H) /\ \A z \in SUBSET (1..n) : w[z] \in T
  <2> HIDE DEF H, n
  <2>1. QED
    BY <1>1, <1>3, ChainExists, Zenon
<1>5. w = G(w)
  <2>1. ASSUME NEW z \in SUBSET (1..n), z # {}
        PROVE  H[<<Max(z), w[z \ {Max(z)}]>>] = SendMode(w[z \ {Max(z)}], {Change(TRUE, s[Max(z)], u)})
    <3>1. Max(z) \in 1..n /\ z \ {Max(z)} \in SUBSET (1..n)
      BY <1>1, <2>1, MaxOf
    <3>2. w[z \ {Max(z)}] \in T
      BY <1>4, <3>1, Zenon
    <3>3. QED
      BY <3>1, <3>2
  <2> HIDE DEF H
  <2>2. QED
    BY <1>1, <1>4, <2>1 DEF IsFold
<1>6. iter = G(iter)
  <2> HIDE DEF G
  <2>1. QED
    BY <1>5, Zenon
<1> HIDE DEF iter
<1>7. ASSUME NEW z \in SUBSET (1..n)
      PROVE  iter[z] = IF z = {} THEN base ELSE SendMode(iter[z \ {Max(z)}], {Change(TRUE, s[Max(z)], u)})
  BY <1>1, <1>6
<1>8. ASSUME NEW z \in SUBSET (1..n), z # {}, iter[z \ {Max(z)}] \in T
      PROVE  iter[z] = H[<<Max(z), iter[z \ {Max(z)}]>>]
  <2>1. Max(z) \in 1..n
    BY <1>1, <1>8, MaxOf
  <2>2. iter[z] = SendMode(iter[z \ {Max(z)}], {Change(TRUE, s[Max(z)], u)})
    BY <1>7, <1>8, Zenon
  <2>3. QED
    BY <1>8, <2>1, <2>2
<1>9. Folds(iter, n, T, base, H)
  <2>1. iter[{}] = base
    BY <1>7
  <2> HIDE DEF H, n
  <2>2. QED
    BY <1>8, <2>1 DEF Folds
<1>10. PICK c \in [0..n -> T] : IsChain(c, n, base, H) /\ iter[1..n] = c[n]
  <2> HIDE DEF H, n
  <2>1. n \in Nat
    BY <1>1
  <2>2. HasChain(iter, n, T, base, H)
    BY <2>1, <1>3, <1>9, ChainOf, Zenon
  <2>3. QED
    BY <2>2, Zenon DEF HasChain
<1>11. ASSUME NEW k \in 1..n PROVE c[k] = SendMode(c[k - 1], {Change(TRUE, s[k], u)})
  <2>1. k - 1 \in 0..n
    BY <1>1
  <2>2. c[k - 1] \in T
    BY <2>1
  <2>3. QED
    BY <1>10, <2>2 DEF IsChain
<1>12. n \in 0..n /\ c[0] = base
  BY <1>1, <1>10 DEF IsChain
<1>13. n = 1 => c[n] = SendMode(base, {Change(TRUE, s[1], u)})
  <2>1. n = 1 => 1 \in 1..n /\ 1 - 1 = 0
    OBVIOUS
  <2>2. QED
    BY <1>11, <1>12, <2>1
<1> HIDE DEF n
<1>14. /\ iter[1..n] \in T
       /\ (n = 1 => iter[1..n] = SendMode(base, {Change(TRUE, s[1], u)}))
  BY <1>10, <1>12, <1>13
<1>15. QED
  BY <1>2, <1>14 DEF n

LEMMA TakeOneFolded ==
  ASSUME NEW T, NEW base \in T, NEW D, NEW s \in Seq(D), NEW l,
          TakesKeep(T, D, l)
  PROVE  /\ TakenAll(base, s, l) \in T
         /\ Len(s) = 1 => TakenAll(base, s, l) = SendMode(base, {Change(FALSE, l, s[1])})
<1> DEFINE n == Len(s)
           H == [p \in (1..n) \X T |-> SendMode(p[2], {Change(FALSE, l, s[p[1]])})]
           G(it) == [z \in SUBSET DOMAIN s |->
                       IF z = {} THEN base ELSE SendMode(it[z \ {Max(z)}], {Change(FALSE, l, s[Max(z)])})]
           iter == CHOOSE it : it = G(it)
<1>1. n \in Nat /\ DOMAIN s = 1..n /\ \A k \in 1..n : s[k] \in D
  BY LenProperties, ElementOfSeq
<1>2. TakenAll(base, s, l) = iter[1..n]
  <2>1. TakenAll(base, s, l) = iter[DOMAIN s]
    BY Zenon DEF TakenAll, FoldLeft, MapThenFoldSet
  <2> HIDE DEF iter
  <2>2. QED
    BY <1>1, <2>1
<1>3. H \in [(1..n) \X T -> T]
  BY <1>1 DEF TakesKeep
<1>4. PICK w : IsFold(w, n, base, H) /\ \A z \in SUBSET (1..n) : w[z] \in T
  <2> HIDE DEF H, n
  <2>1. QED
    BY <1>1, <1>3, ChainExists, Zenon
<1>5. w = G(w)
  <2>1. ASSUME NEW z \in SUBSET (1..n), z # {}
        PROVE  H[<<Max(z), w[z \ {Max(z)}]>>] = SendMode(w[z \ {Max(z)}], {Change(FALSE, l, s[Max(z)])})
    <3>1. Max(z) \in 1..n /\ z \ {Max(z)} \in SUBSET (1..n)
      BY <1>1, <2>1, MaxOf
    <3>2. w[z \ {Max(z)}] \in T
      BY <1>4, <3>1, Zenon
    <3>3. QED
      BY <3>1, <3>2
  <2> HIDE DEF H
  <2>2. QED
    BY <1>1, <1>4, <2>1 DEF IsFold
<1>6. iter = G(iter)
  <2> HIDE DEF G
  <2>1. QED
    BY <1>5, Zenon
<1> HIDE DEF iter
<1>7. ASSUME NEW z \in SUBSET (1..n)
      PROVE  iter[z] = IF z = {} THEN base ELSE SendMode(iter[z \ {Max(z)}], {Change(FALSE, l, s[Max(z)])})
  BY <1>1, <1>6
<1>8. ASSUME NEW z \in SUBSET (1..n), z # {}, iter[z \ {Max(z)}] \in T
      PROVE  iter[z] = H[<<Max(z), iter[z \ {Max(z)}]>>]
  <2>1. Max(z) \in 1..n
    BY <1>1, <1>8, MaxOf
  <2>2. iter[z] = SendMode(iter[z \ {Max(z)}], {Change(FALSE, l, s[Max(z)])})
    BY <1>7, <1>8, Zenon
  <2>3. QED
    BY <1>8, <2>1, <2>2
<1>9. Folds(iter, n, T, base, H)
  <2>1. iter[{}] = base
    BY <1>7
  <2> HIDE DEF H, n
  <2>2. QED
    BY <1>8, <2>1 DEF Folds
<1>10. PICK c \in [0..n -> T] : IsChain(c, n, base, H) /\ iter[1..n] = c[n]
  <2> HIDE DEF H, n
  <2>1. n \in Nat
    BY <1>1
  <2>2. HasChain(iter, n, T, base, H)
    BY <2>1, <1>3, <1>9, ChainOf, Zenon
  <2>3. QED
    BY <2>2, Zenon DEF HasChain
<1>11. ASSUME NEW k \in 1..n PROVE c[k] = SendMode(c[k - 1], {Change(FALSE, l, s[k])})
  <2>1. k - 1 \in 0..n
    BY <1>1
  <2>2. c[k - 1] \in T
    BY <2>1
  <2>3. QED
    BY <1>10, <2>2 DEF IsChain
<1>12. n \in 0..n /\ c[0] = base
  BY <1>1, <1>10 DEF IsChain
<1>13. n = 1 => c[n] = SendMode(base, {Change(FALSE, l, s[1])})
  <2>1. n = 1 => 1 \in 1..n /\ 1 - 1 = 0
    OBVIOUS
  <2>2. QED
    BY <1>11, <1>12, <2>1
<1> HIDE DEF n
<1>14. /\ iter[1..n] \in T
       /\ (n = 1 => iter[1..n] = SendMode(base, {Change(FALSE, l, s[1])}))
  BY <1>10, <1>12, <1>13
<1>15. QED
  BY <1>2, <1>14 DEF n

LEMMA KickFolded ==
  ASSUME NEW T, NEW base \in T, NEW D, NEW s \in Seq(D), \A y \in T, x \in D : Kick(y, x) \in T
  PROVE  /\ FoldLeft(Kick, base, s) \in T
         /\ Len(s) = 1 => FoldLeft(Kick, base, s) = Kick(base, s[1])
<1> DEFINE n == Len(s)
           H == [p \in (1..n) \X T |-> Kick(p[2], s[p[1]])]
           G(it) == [z \in SUBSET DOMAIN s |->
                       IF z = {} THEN base ELSE Kick(it[z \ {Max(z)}], s[Max(z)])]
           iter == CHOOSE it : it = G(it)
<1>1. n \in Nat /\ DOMAIN s = 1..n /\ \A k \in 1..n : s[k] \in D
  BY LenProperties, ElementOfSeq
<1>2. FoldLeft(Kick, base, s) = iter[1..n]
  <2>1. FoldLeft(Kick, base, s) = iter[DOMAIN s]
    BY Zenon DEF FoldLeft, MapThenFoldSet
  <2> HIDE DEF iter
  <2>2. QED
    BY <1>1, <2>1
<1>3. H \in [(1..n) \X T -> T]
  BY <1>1
<1>4. PICK w : IsFold(w, n, base, H) /\ \A z \in SUBSET (1..n) : w[z] \in T
  <2> HIDE DEF H, n
  <2>1. QED
    BY <1>1, <1>3, ChainExists, Zenon
<1>5. w = G(w)
  <2>1. ASSUME NEW z \in SUBSET (1..n), z # {}
        PROVE  H[<<Max(z), w[z \ {Max(z)}]>>] = Kick(w[z \ {Max(z)}], s[Max(z)])
    <3>1. Max(z) \in 1..n /\ z \ {Max(z)} \in SUBSET (1..n)
      BY <1>1, <2>1, MaxOf
    <3>2. w[z \ {Max(z)}] \in T
      BY <1>4, <3>1, Zenon
    <3>3. QED
      BY <3>1, <3>2
  <2> HIDE DEF H
  <2>2. QED
    BY <1>1, <1>4, <2>1 DEF IsFold
<1>6. iter = G(iter)
  <2> HIDE DEF G
  <2>1. QED
    BY <1>5, Zenon
<1> HIDE DEF iter
<1>7. ASSUME NEW z \in SUBSET (1..n)
      PROVE  iter[z] = IF z = {} THEN base ELSE Kick(iter[z \ {Max(z)}], s[Max(z)])
  BY <1>1, <1>6
<1>8. ASSUME NEW z \in SUBSET (1..n), z # {}, iter[z \ {Max(z)}] \in T
      PROVE  iter[z] = H[<<Max(z), iter[z \ {Max(z)}]>>]
  <2>1. Max(z) \in 1..n
    BY <1>1, <1>8, MaxOf
  <2>2. iter[z] = Kick(iter[z \ {Max(z)}], s[Max(z)])
    BY <1>7, <1>8, Zenon
  <2>3. QED
    BY <1>8, <2>1, <2>2
<1>9. Folds(iter, n, T, base, H)
  <2>1. iter[{}] = base
    BY <1>7
  <2> HIDE DEF H, n
  <2>2. QED
    BY <1>8, <2>1 DEF Folds
<1>10. PICK c \in [0..n -> T] : IsChain(c, n, base, H) /\ iter[1..n] = c[n]
  <2> HIDE DEF H, n
  <2>1. n \in Nat
    BY <1>1
  <2>2. HasChain(iter, n, T, base, H)
    BY <2>1, <1>3, <1>9, ChainOf, Zenon
  <2>3. QED
    BY <2>2, Zenon DEF HasChain
<1>11. ASSUME NEW k \in 1..n PROVE c[k] = Kick(c[k - 1], s[k])
  <2>1. k - 1 \in 0..n
    BY <1>1
  <2>2. c[k - 1] \in T
    BY <2>1
  <2>3. QED
    BY <1>10, <2>2 DEF IsChain
<1>12. n \in 0..n /\ c[0] = base
  BY <1>1, <1>10 DEF IsChain
<1>13. n = 1 => c[n] = Kick(base, s[1])
  <2>1. n = 1 => 1 \in 1..n /\ 1 - 1 = 0
    OBVIOUS
  <2>2. QED
    BY <1>11, <1>12, <2>1
<1> HIDE DEF n
<1>14. /\ iter[1..n] \in T
       /\ (n = 1 => iter[1..n] = Kick(base, s[1]))
  BY <1>10, <1>12, <1>13
<1>15. QED
  BY <1>2, <1>14 DEF n

-----------------------------------------------------------------------------
(* SetToSeq lists a finite set.                                            *)

LEMMA SeqOfSet ==
  ASSUME NEW S, IsFiniteSet(S)
  PROVE  /\ SetToSeq(S) \in Seq(S)
         /\ \A x \in S : Contains(SetToSeq(S), x)
<1> DEFINE n == Cardinality(S)
           q == SetToSeq(S)
<1>1. n \in Nat /\ ExistsBijection(1..n, S)
  BY FS_CardinalityType
<1> HIDE DEF n
<1>2. PICK f : f \in Bijection(1..n, S)
  BY <1>1 DEF ExistsBijection
<1>3. f \in [1..n -> S] /\ IsInjective(f)
  BY <1>2 DEF Bijection, Injection, IsInjective
<1>4. q \in [1..n -> S] /\ IsInjective(q)
  <2>1. q = CHOOSE g \in [1..n -> S] : IsInjective(g)
    BY DEF SetToSeq, n
  <2> HIDE DEF q
  <2>2. QED
    BY <1>3, <2>1, Zenon
<1> HIDE DEF q
<1>5. q \in Seq(S) /\ Len(q) = n
  BY <1>1, <1>4, LengthOfSeq
<1>6. q \in Injection(1..n, S)
  BY <1>4 DEF Injection, IsInjective
<1>7. q \in Surjection(1..n, S)
  <2>1. IsFiniteSet(1..n) /\ Cardinality(1..n) = n
    <3>1. 0 <= n /\ 1 \in Int /\ n \in Int
      BY <1>1
    <3>2. IsFiniteSet(1..n) /\ Cardinality(1..n) = IF 1 > n THEN 0 ELSE n - 1 + 1
      BY <3>1, FS_Interval
    <3>3. QED
      BY <1>1, <3>2
  <2>2. QED
    BY <1>6, <2>1, FS_Injection DEF n
<1>8. ASSUME NEW x \in S PROVE Contains(q, x)
  <2>1. PICK i \in 1..n : q[i] = x
    BY <1>7 DEF Surjection
  <2>2. QED
    BY <1>5, <2>1 DEF Contains
<1>9. QED
  BY <1>5, <1>8 DEF q

LEMMA SeqOfOne ==
  ASSUME NEW x
  PROVE  Len(SetToSeq({x})) = 1 /\ SetToSeq({x})[1] = x
<1> DEFINE q == SetToSeq({x})
<1>1. IsFiniteSet({x})
  BY FS_Singleton
<1>2. q \in Seq({x}) /\ Contains(q, x)
  BY <1>1, SeqOfSet, Zenon
<1>3. Cardinality({x}) = 1
  BY FS_Singleton
<1>4. PICK f : f \in Bijection(1..1, {x})
  BY <1>1, <1>3, FS_CardinalityType DEF ExistsBijection
<1>5. f \in [1..1 -> {x}] /\ IsInjective(f)
  BY <1>4 DEF Bijection, Injection, IsInjective
<1>6. q \in [1..1 -> {x}]
  <2>1. q = CHOOSE g \in [1..1 -> {x}] : IsInjective(g)
    BY <1>3 DEF SetToSeq
  <2> HIDE DEF q
  <2>2. QED
    BY <1>5, <2>1, Zenon
<1> HIDE DEF q
<1>7. Len(q) = 1
  BY <1>6, LengthOfSeq
<1>8. q[1] = x
  BY <1>6
<1>9. QED
  BY <1>7, <1>8 DEF q

LEMMA SeqOfNone == SetToSeq({}) = <<>>
<1>1. SetToSeq({}) \in Seq({})
  BY SeqOfSet, FS_EmptySet
<1> DEFINE q == SetToSeq({})
<1> HIDE DEF q
<1>2. q \in Seq({})
  BY <1>1 DEF q
<1>3. Len(q) = 0
  <2>1. Len(q) \in Nat /\ q \in [1..Len(q) -> {}]
    BY <1>2, LenProperties
  <2>2. Len(q) # 0 => 1 \in 1..Len(q)
    BY <2>1
  <2>3. QED
    BY <2>1, <2>2
<1>4. q = <<>>
  BY <1>2, <1>3, EmptySeq
<1>5. QED
  BY <1>4 DEF q

-----------------------------------------------------------------------------
(* Lines and channels as sets, and what one line does to a channel.        *)

(* Changes and lines                                                       *)
Changing(letters, args) == [on : BOOLEAN, letter : letters, arg : args]
Settings == Changing(FlagModes \union Params, Values \union {NoValue})
BanChanges == Changing({"b"}, Masks)
StatusChanges == {ch \in Changing(Statuses, Everyone) : ch.letter = "a" => ch.on}

LineChanges ==
  {{ch} : ch \in StatusChanges \union BanChanges}
    \union {S \in SUBSET Settings : IsFiniteSet(S)}

ModeLines == {Mode(S) : S \in LineChanges}
DownLines == ModeLines \union {Kicked(m) : m \in Everyone}
UpLines ==
  ModeLines \union {Leaves(m) : m \in Everyone}
    \union {Sjoin(u, status, modes) : u \in Users, status \in SUBSET {"o"}, modes \in SUBSET FlagModes}

(* A channel: only members have a status, and an empty one has no bans.    *)
Sound ==
  {c \in Channels : /\ \A m \in Everyone : c.status[m] # {} => m \in c.on
                    /\ c.bans # {} => c.on # {}}

BotAdmin(c) == Bot \in c.on => "a" \in c.status[Bot]

LEMMA LettersApart ==
  /\ \A l \in {"a", "o", "v", "b"} : l \notin FlagModes /\ l \notin Params
  /\ \A l \in FlagModes : l \notin Params
BY ChanModesAssumption

LEMMA StatusApplied ==
  ASSUME NEW c \in Sound, NEW ch \in StatusChanges
  PROVE  /\ Applied(c, ch) \in Sound
         /\ Applied(c, ch).on = c.on /\ Applied(c, ch).bans = c.bans
         /\ BotAdmin(c) => BotAdmin(Applied(c, ch))
         /\ \A m \in Everyone : "o" \in Applied(c, ch).status[m] <=>
              IF ch.letter = "o" /\ ch.arg = m /\ m \in c.on THEN ch.on ELSE "o" \in c.status[m]
<1> DEFINE d == Applied(c, ch)
           to == AddIf(ch.on, c.status[ch.arg], ch.letter)
<1>1. ch.on \in BOOLEAN /\ ch.letter \in Statuses /\ ch.arg \in Everyone /\ (ch.letter = "a" => ch.on)
  BY DEF StatusChanges, Changing
<1>2. d = IF ch.arg \in c.on THEN [c EXCEPT !.status[ch.arg] = to] ELSE c
  BY <1>1, LettersApart DEF Applied, OnChan, Statuses
<1>3. c \in Channels /\ to \in SUBSET Statuses
  BY <1>1 DEF Sound, Channels, AddIf
<1>4. CASE ch.arg \notin c.on
  <2>1. d = c
    BY <1>2, <1>4
  <2> HIDE DEF d
  <2>2. QED
    BY <1>1, <1>4, <2>1 DEF d
<1>5. CASE ch.arg \in c.on
  <2>1. d = [c EXCEPT !.status = [c.status EXCEPT ![ch.arg] = to]]
    BY <1>2, <1>3, <1>5 DEF Channels
  <2> DEFINE st == [c.status EXCEPT ![ch.arg] = to]
  <2>2. c.status \in [Everyone -> SUBSET Statuses]
    BY <1>3 DEF Channels
  <2>3. st \in [Everyone -> SUBSET Statuses] /\ st[ch.arg] = to /\ \A m \in Everyone : m # ch.arg => st[m] = c.status[m]
    BY <1>1, <1>3, <2>2
  <2> HIDE DEF st, d, to
  <2>4. d \in Channels /\ d.on = c.on /\ d.bans = c.bans /\ d.status = st
    BY <1>3, <2>1, <2>3 DEF Channels, st
  <2>5. d \in Sound
    BY <1>5, <2>3, <2>4 DEF Sound
  <2>6. BotAdmin(c) => BotAdmin(d)
    <3>1. "a" \in c.status[ch.arg] => "a" \in to
      BY <1>1 DEF to, AddIf
    <3>2. Bot \in Everyone
      BY DEF Everyone
    <3>3. QED
      BY <2>3, <2>4, <3>1, <3>2 DEF BotAdmin
  <2>7. ASSUME NEW m \in Everyone
        PROVE  "o" \in d.status[m] <=>
              IF ch.letter = "o" /\ ch.arg = m /\ m \in c.on THEN ch.on ELSE "o" \in c.status[m]
    <3>1. CASE m # ch.arg
      BY <2>3, <2>4, <3>1
    <3>2. CASE m = ch.arg
      <4>1. "o" \in to <=> IF ch.letter = "o" THEN ch.on ELSE "o" \in c.status[ch.arg]
        BY <1>1 DEF to, AddIf, Statuses
      <4>2. QED
        BY <1>5, <2>3, <2>4, <3>2, <4>1
    <3>3. QED
      BY <3>1, <3>2
  <2>8. QED
    BY <2>4, <2>5, <2>6, <2>7 DEF d
<1>6. QED
  BY <1>4, <1>5

LEMMA BanApplied ==
  ASSUME NEW c \in Sound, NEW ch \in BanChanges, c.on # {} \/ ~ch.on
  PROVE  /\ Applied(c, ch) \in Sound
         /\ Applied(c, ch).on = c.on /\ Applied(c, ch).status = c.status
         /\ Applied(c, ch).bans = AddIf(ch.on, c.bans, ch.arg)
<1>1. ch.on \in BOOLEAN /\ ch.letter = "b" /\ ch.arg \in Masks
  BY DEF BanChanges, Changing
<1>2. Applied(c, ch) = [c EXCEPT !.bans = AddIf(ch.on, c.bans, ch.arg)]
  BY <1>1, LettersApart DEF Applied, Sound, Channels
<1>3. c \in Channels /\ AddIf(ch.on, c.bans, ch.arg) \in SUBSET Masks
  BY <1>1 DEF Sound, Channels, AddIf
<1>4. c.on = {} => AddIf(ch.on, c.bans, ch.arg) = {}
  BY DEF Sound, AddIf
<1>5. QED
  BY <1>2, <1>3, <1>4 DEF Sound, Channels

LEMMA SettingApplied ==
  ASSUME NEW c \in Sound, NEW ch \in Settings
  PROVE  /\ Applied(c, ch) \in Sound
         /\ Applied(c, ch).on = c.on /\ Applied(c, ch).status = c.status
         /\ Applied(c, ch).bans = c.bans
<1>1. ch.on \in BOOLEAN /\ ch.letter \in FlagModes \union Params /\ ch.arg \in Values \union {NoValue}
  BY DEF Settings, Changing
<1>2. c \in Channels
  BY DEF Sound
<1>3. CASE ch.letter \in FlagModes
  <2>1. Applied(c, ch) = [c EXCEPT !.modes = AddIf(ch.on, c.modes, ch.letter)]
    BY <1>2, <1>3, LettersApart DEF Applied, Channels
  <2>2. AddIf(ch.on, c.modes, ch.letter) \in SUBSET FlagModes
    BY <1>2, <1>3 DEF Channels, AddIf
  <2>3. QED
    BY <2>1, <2>2 DEF Sound, Channels
<1>4. CASE ch.letter \notin FlagModes
  <2> DEFINE v == IF ch.on THEN ch.arg ELSE NoValue
  <2>1. Applied(c, ch) = [c EXCEPT !.param = [c.param EXCEPT ![ch.letter] = v]]
    BY <1>1, <1>2, <1>4, LettersApart DEF Applied, Channels
  <2>2. [c.param EXCEPT ![ch.letter] = v] \in [Params -> Values \union {NoValue}]
    BY <1>1, <1>2 DEF Channels
  <2>3. QED
    BY <2>1, <2>2 DEF Sound, Channels
<1>5. QED
  BY <1>3, <1>4

LEMMA OneApplied ==
  ASSUME NEW c \in Sound, NEW ch,
         ch \in StatusChanges \/ (ch \in BanChanges /\ (c.on # {} \/ ~ch.on)) \/ ch \in Settings
  PROVE  AppliedAll(c, {ch}) = Applied(c, ch)
<1> DEFINE T == {d \in Sound : d.on = c.on}
           D == {ch}
           q == SetToSeq(D)
<1>1. c \in T
  OBVIOUS
<1>2. q \in Seq(D) /\ Len(q) = 1 /\ q[1] = ch
  BY SeqOfSet, SeqOfOne, FS_Singleton
<1>3. \A y \in T, x \in D : Applied(y, x) \in T
  BY StatusApplied, BanApplied, SettingApplied
<1> HIDE DEF T, D, q
<1>4. FoldLeft(Applied, c, q) = Applied(c, q[1])
  BY <1>1, <1>2, <1>3, AppliedFolded
<1>5. QED
  BY <1>2, <1>4 DEF AppliedAll, D, q

LEMMA SettingsApplied ==
  ASSUME NEW c \in Sound, NEW S \in SUBSET Settings, IsFiniteSet(S)
  PROVE  /\ AppliedAll(c, S) \in Sound
         /\ AppliedAll(c, S).on = c.on /\ AppliedAll(c, S).status = c.status
         /\ AppliedAll(c, S).bans = c.bans
<1> DEFINE T == {d \in Sound : d.on = c.on /\ d.status = c.status /\ d.bans = c.bans}
           q == SetToSeq(S)
<1>1. c \in T
  OBVIOUS
<1>2. q \in Seq(S)
  BY SeqOfSet
<1>3. \A y \in T, x \in S : Applied(y, x) \in T
  BY SettingApplied
<1> HIDE DEF T, q
<1>4. FoldLeft(Applied, c, q) \in T
  BY <1>1, <1>2, <1>3, AppliedFolded
<1>5. AppliedAll(c, S) \in T
  BY <1>4 DEF AppliedAll, q
<1>6. QED
  BY <1>5 DEF T

-----------------------------------------------------------------------------
(* The lines that services send.                                           *)

(* Lines that services send                                                *)
OpsTakenBack(s) ==
  SecureOps => \A u \in Users \ Roled : \A i \in 1..Len(s) : s[i] = Give("o", u) =>
    \E k \in i + 1..Len(s) : s[k] = Take("o", u)

Permitted(s) ==
  /\ ~Contains(s, Take("o", Bot)) /\ ~Contains(s, Kicked(Bot))
  /\ \A x \in Masks : ~Contains(s, Give("b", x))

AnswerLines == {Take("o", u) : u \in Users} \union {Give("o", Bot)}

LEMMA OneChange ==
  /\ \A x, y : Mode({x}) = Mode({y}) => x = y
  /\ \A u, m, S : Mode(S) # Kicked(m) /\ Mode(S) # Leaves(m)
  /\ \A u, m : Give("o", u) = Give("o", m) => u = m
  /\ \A u, m : Take("o", u) = Take("o", m) => u = m
  /\ \A u, m : Give("o", u) # Take("o", m)
<1>1. ASSUME NEW x, NEW y, Mode({x}) = Mode({y}) PROVE x = y
  <2>1. Mode({x}).changes = Mode({y}).changes
    BY <1>1
  <2>2. {x} = {y}
    BY <2>1 DEF Mode
  <2>3. QED
    BY <2>2
<1>2. \A u, m, S : Mode(S) # Kicked(m) /\ Mode(S) # Leaves(m)
  BY DEF Mode, Kicked, Leaves
<1>3. ASSUME NEW u, NEW m, NEW f, NEW g, Change(f, "o", u) = Change(g, "o", m) PROVE f = g /\ u = m
  <2>1. Change(f, "o", u).on = Change(g, "o", m).on /\ Change(f, "o", u).arg = Change(g, "o", m).arg
    BY <1>3
  <2>2. QED
    BY <2>1 DEF Change
<1>4. ASSUME NEW u, NEW m, Give("o", u) = Give("o", m) PROVE u = m
  BY <1>1, <1>3, <1>4, Zenon DEF Give
<1>5. ASSUME NEW u, NEW m, Take("o", u) = Take("o", m) PROVE u = m
  BY <1>1, <1>3, <1>5, Zenon DEF Take
<1>6. ASSUME NEW u, NEW m, Give("o", u) = Take("o", m) PROVE FALSE
  <2>1. TRUE = FALSE
    BY <1>1, <1>3, <1>6, Zenon DEF Give, Take
  <2>2. QED
    BY <2>1
<1>7. QED
  BY <1>1, <1>2, <1>4, <1>5, <1>6

LEMMA ContainsJoined ==
  ASSUME NEW S, NEW s \in Seq(S), NEW t \in Seq(S), NEW x
  PROVE  Contains(s \o t, x) <=> Contains(s, x) \/ Contains(t, x)
<1> DEFINE w == s \o t
<1>1. Joins(w, s, t)
  BY Joined
<1>2. Len(s) \in Nat /\ Len(t) \in Nat
  BY LenProperties
<1> HIDE DEF w
<1>3. ASSUME NEW i \in 1..Len(s), s[i] = x PROVE Contains(w, x)
  <2>1. w[i] = x /\ i \in 1..Len(w)
    BY <1>1, <1>2, <1>3 DEF Joins
  <2>2. QED
    BY <2>1 DEF Contains
<1>4. ASSUME NEW i \in 1..Len(t), t[i] = x PROVE Contains(w, x)
  <2>1. w[Len(s) + i] = x /\ Len(s) + i \in 1..Len(w)
    BY <1>1, <1>2, <1>4 DEF Joins
  <2>2. QED
    BY <2>1 DEF Contains
<1>5. ASSUME NEW i \in 1..Len(w), w[i] = x PROVE Contains(s, x) \/ Contains(t, x)
  <2>1. CASE i <= Len(s)
    <3>1. i \in 1..Len(s) /\ s[i] = x
      BY <1>1, <1>2, <1>5, <2>1 DEF Joins
    <3>2. QED
      BY <3>1 DEF Contains
  <2>2. CASE ~(i <= Len(s))
    <3>1. i - Len(s) \in 1..Len(t) /\ Len(s) + (i - Len(s)) = i
      BY <1>1, <1>2, <1>5, <2>2 DEF Joins
    <3>2. t[i - Len(s)] = x
      BY <1>1, <1>5, <3>1 DEF Joins
    <3>3. QED
      BY <3>1, <3>2 DEF Contains
  <2>3. QED
    BY <2>1, <2>2
<1>6. QED
  BY <1>3, <1>4, <1>5 DEF Contains, w

LEMMA Appended ==
  ASSUME NEW S, NEW s \in Seq(S), NEW x \in S
  PROVE  Append(s, x) = s \o <<x>> /\ <<x>> \in Seq(S) /\ Len(<<x>>) = 1 /\ <<x>>[1] = x
<1>1. <<x>> \in Seq(S) /\ Len(<<x>>) = 1 /\ <<x>>[1] = x
  OBVIOUS
<1> DEFINE a == Append(s, x)
           b == s \o <<x>>
<1>2. a \in Seq(S) /\ b \in Seq(S)
  BY <1>1, Joined, AppendProperties
<1>3. Len(a) = Len(s) + 1 /\ Len(b) = Len(s) + 1
  BY <1>1, ConcatProperties, AppendProperties
<1>4. ASSUME NEW i \in 1..Len(a) PROVE a[i] = b[i]
  <2>1. Len(s) \in Nat /\ i \in 1..Len(s) + 1
    BY <1>3, LenProperties
  <2>2. CASE i = Len(s) + 1
    <3>1. a[i] = x
      BY <2>2, AppendProperties
    <3>2. ~(i <= Len(s)) /\ i - Len(s) = 1 /\ i \in 1..Len(s) + Len(<<x>>)
      BY <1>1, <2>1, <2>2
    <3>3. b[i] = <<x>>[i - Len(s)]
      BY <1>1, <3>2, ConcatProperties
    <3>4. QED
      BY <1>1, <3>1, <3>2, <3>3
  <2>3. CASE i # Len(s) + 1
    <3>1. i <= Len(s) /\ i \in 1..Len(s) + Len(<<x>>) /\ i \in 1..Len(s)
      BY <1>1, <2>1, <2>3
    <3>2. b[i] = s[i]
      BY <1>1, <3>1, ConcatProperties
    <3>3. a[i] = s[i]
      BY <3>1, AppendProperties
    <3>4. QED
      BY <3>2, <3>3
  <2>4. QED
    BY <2>2, <2>3
<1> HIDE DEF a, b
<1>5. a = b
  BY <1>2, <1>3, <1>4, SeqEqual
<1>6. QED
  BY <1>1, <1>5 DEF a, b

LEMMA ContainsAppended ==
  ASSUME NEW S, NEW s \in Seq(S), NEW x \in S, NEW y
  PROVE  Append(s, x) \in Seq(S) /\ (Contains(Append(s, x), y) <=> Contains(s, y) \/ y = x)
<1> DEFINE t == <<x>>
<1>1. Append(s, x) = s \o t /\ t \in Seq(S) /\ Len(t) = 1 /\ t[1] = x
  BY Appended
<1> HIDE DEF t
<1>2. Contains(t, y) <=> y = x
  <2>1. 1..1 = {1}
    OBVIOUS
  <2>2. QED
    BY <1>1, <2>1 DEF Contains
<1>3. s \o t \in Seq(S)
  BY <1>1, Joined
<1>4. Contains(s \o t, y) <=> Contains(s, y) \/ Contains(t, y)
  BY <1>1, ContainsJoined
<1>5. QED
  BY <1>1, <1>2, <1>3, <1>4

LEMMA TakenBackJoined ==
  ASSUME NEW s \in Seq(DownLines), NEW t \in Seq(DownLines), OpsTakenBack(t),
         SecureOps => \A u \in Users \ Roled : \A i \in 1..Len(s) : s[i] = Give("o", u) =>
            (\E k \in i + 1..Len(s) : s[k] = Take("o", u)) \/ Contains(t, Take("o", u))
  PROVE  OpsTakenBack(s \o t)
<1> DEFINE w == s \o t
           g(u) == Give("o", u)
           h(u) == Take("o", u)
<1>1. Joins(w, s, t)
  BY Joined
<1>2. Len(s) \in Nat /\ Len(t) \in Nat /\ Len(w) = Len(s) + Len(t)
  BY <1>1, LenProperties DEF Joins
<1> HIDE DEF w
<1>3. SUFFICES ASSUME SecureOps, NEW u \in Users \ Roled, NEW i \in 1..Len(w), w[i] = g(u)
               PROVE  \E k \in i + 1..Len(w) : w[k] = h(u)
  BY DEF OpsTakenBack, w
<1> DEFINE gu == g(u)
           hu == h(u)
<1>4. CASE i <= Len(s)
  <2>1. i \in 1..Len(s) /\ s[i] = gu
    BY <1>1, <1>2, <1>3, <1>4 DEF Joins
  <2>2. (\E k \in i + 1..Len(s) : s[k] = hu) \/ (\E k \in 1..Len(t) : t[k] = hu)
    BY <1>3, <2>1 DEF Contains
  <2> HIDE DEF gu, hu
  <2>3. ASSUME NEW k \in i + 1..Len(s), s[k] = hu PROVE \E l \in i + 1..Len(w) : w[l] = hu
    <3>1. k \in 1..Len(s) /\ k \in i + 1..Len(w)
      BY <1>2, <2>1, <2>3
    <3>2. w[k] = hu
      BY <1>1, <2>3, <3>1 DEF Joins
    <3>3. QED
      BY <3>1, <3>2
  <2>4. ASSUME NEW k \in 1..Len(t), t[k] = hu PROVE \E l \in i + 1..Len(w) : w[l] = hu
    <3>1. Len(s) + k \in i + 1..Len(w)
      BY <1>2, <1>4, <2>1, <2>4
    <3>2. w[Len(s) + k] = hu
      BY <1>1, <2>4 DEF Joins
    <3>3. QED
      BY <3>1, <3>2
  <2>5. \E l \in i + 1..Len(w) : w[l] = hu
    BY <2>2, <2>3, <2>4
  <2>6. QED
    BY <2>5 DEF hu
<1>5. CASE ~(i <= Len(s))
  <2> DEFINE j == i - Len(s)
  <2>1. j \in 1..Len(t) /\ Len(s) + j = i
    BY <1>2, <1>3, <1>5
  <2>2. t[j] = gu
    BY <1>1, <1>3, <2>1 DEF Joins
  <2>3. PICK k \in j + 1..Len(t) : t[k] = hu
    BY <1>3, <2>1, <2>2 DEF OpsTakenBack
  <2> HIDE DEF gu, hu
  <2>4. k \in 1..Len(t) /\ Len(s) + k \in i + 1..Len(w)
    BY <1>2, <2>1, <2>3
  <2>5. w[Len(s) + k] = hu
    BY <1>1, <2>3, <2>4 DEF Joins
  <2>6. QED
    BY <2>4, <2>5 DEF hu
<1>6. QED
  BY <1>4, <1>5

-----------------------------------------------------------------------------
(* A side: the mirror and what was sent.  Answers and commands take services*)
(* from one side to another.                                               *)

(* Sides: what services may have become and sent.                          *)
Sides ==
  {a \in [chan : Sound, sent : Seq(DownLines)] :
     BotAdmin(a.chan) /\ OpsTakenBack(a.sent) /\ Permitted(a.sent)}

\* From `a` services got to `b` by answers.
Answers(a, b) ==
  /\ b \in Sides /\ b.chan.on = a.chan.on /\ b.chan.bans = a.chan.bans
  /\ \A x : Contains(a.sent, x) => Contains(b.sent, x)
  /\ \A m : Contains(b.sent, Kicked(m)) => Contains(a.sent, Kicked(m))

\* From `a` services got to `b` by commands.
After(a, b) ==
  /\ b \in Sides /\ b.chan.on \subseteq a.chan.on
  /\ \A x : Contains(a.sent, x) => Contains(b.sent, x)
  /\ \A m \in a.chan.on : m \in b.chan.on \/ Contains(b.sent, Kicked(m))
  /\ \A x \in a.chan.bans :
       x \in b.chan.bans \/ Contains(b.sent, Take("b", x)) \/ b.chan.on = {}

LEMMA LineTypes ==
  /\ \A S \in LineChanges : Mode(S) \in ModeLines /\ Mode(S) \in DownLines
  /\ \A ch \in StatusChanges : {ch} \in LineChanges
  /\ \A ch \in BanChanges : {ch} \in LineChanges
  /\ \A S \in SUBSET Settings : IsFiniteSet(S) => S \in LineChanges
  /\ \A u \in Everyone, l \in Statuses : Change(TRUE, l, u) \in StatusChanges
  /\ \A u \in Everyone, l \in {"o", "v"} : Change(FALSE, l, u) \in StatusChanges
  /\ \A f \in BOOLEAN, x \in Masks : Change(f, "b", x) \in BanChanges
  /\ \A f \in BOOLEAN, l \in FlagModes \union Params, v \in Values \union {NoValue} :
       Change(f, l, v) \in Settings
<1>1. \A S \in LineChanges : Mode(S) \in ModeLines /\ Mode(S) \in DownLines
  BY DEF ModeLines, DownLines
<1>2. /\ \A ch \in StatusChanges : {ch} \in LineChanges
      /\ \A ch \in BanChanges : {ch} \in LineChanges
      /\ \A S \in SUBSET Settings : IsFiniteSet(S) => S \in LineChanges
  BY DEF LineChanges
<1>3. \A u \in Everyone, l \in Statuses : Change(TRUE, l, u) \in StatusChanges
  BY DEF StatusChanges, Changing, Change
<1>4. \A u \in Everyone, l \in {"o", "v"} : Change(FALSE, l, u) \in StatusChanges
  BY DEF StatusChanges, Changing, Change, Statuses
<1>5. \A f \in BOOLEAN, x \in Masks : Change(f, "b", x) \in BanChanges
  BY DEF BanChanges, Changing, Change
<1>6. \A f \in BOOLEAN, l \in FlagModes \union Params, v \in Values \union {NoValue} :
       Change(f, l, v) \in Settings
  BY DEF Settings, Changing, Change
<1>7. QED
  BY <1>1, <1>2, <1>3, <1>4, <1>5, <1>6

LEMMA AnswersTo ==
  ASSUME NEW S \in LineChanges
  PROVE  /\ SetToSeq(Answer(S)) \in Seq(AnswerLines)
         /\ \A u \in Users \ Roled : SecureOps /\ Change(TRUE, "o", u) \in S =>
              Contains(SetToSeq(Answer(S)), Take("o", u))
         /\ Change(FALSE, "o", Bot) \in S => Contains(SetToSeq(Answer(S)), Give("o", Bot))
<1> DEFINE A == Answer(S)
<1>1. Bot \notin Users
  BY ChanModesAssumption
<1>2. \A ch \in S : ch.letter = "o" => S = {ch} /\ ch.arg \in Everyone
  BY LettersApart DEF LineChanges, Settings, BanChanges, StatusChanges, Changing, Statuses
<1>3. A \subseteq AnswerLines
  BY <1>1, <1>2 DEF Answer, AnswerLines, Deopped, Reopped, Everyone
<1>4. IsFiniteSet(A)
  <2>1. CASE \E ch \in S : ch.letter = "o"
    <3>1. PICK ch \in S : S = {ch}
      BY <1>2, <2>1
    <3>2. A \subseteq {Take("o", ch.arg), Give("o", ch.arg)}
      BY <3>1 DEF Answer
    <3>3. IsFiniteSet({Take("o", ch.arg)}) /\ {Take("o", ch.arg), Give("o", ch.arg)} = {Take("o", ch.arg)} \union {Give("o", ch.arg)}
      BY FS_Singleton
    <3>4. IsFiniteSet({Take("o", ch.arg), Give("o", ch.arg)})
      BY <3>3, FS_AddElement
    <3>5. QED
      BY <3>2, <3>4, FS_Subset
  <2>2. CASE ~\E ch \in S : ch.letter = "o"
    <3>1. A = {}
      BY <2>2 DEF Answer, Deopped, Reopped
    <3>2. QED
      BY <3>1, FS_EmptySet
  <2>3. QED
    BY <2>1, <2>2
<1>5. ASSUME NEW u \in Users \ Roled, SecureOps, Change(TRUE, "o", u) \in S PROVE Take("o", u) \in A
  <2> DEFINE ch == Change(TRUE, "o", u)
  <2>1. ch \in S /\ ch.letter = "o" /\ ch.on /\ ch.arg = u
    BY <1>5 DEF Change
  <2> HIDE DEF ch
  <2>2. Deopped(ch)
    BY <1>5, <2>1 DEF Deopped
  <2>3. QED
    BY <2>1, <2>2 DEF Answer
<1>6. ASSUME Change(FALSE, "o", Bot) \in S PROVE Give("o", Bot) \in A
  <2> DEFINE ch == Change(FALSE, "o", Bot)
  <2>1. ch \in S /\ ch.letter = "o" /\ ~ch.on /\ ch.arg = Bot
    BY <1>6 DEF Change
  <2> HIDE DEF ch
  <2>2. Reopped(ch)
    BY <1>1, <2>1 DEF Reopped
  <2>3. QED
    BY <2>1, <2>2 DEF Answer
<1> HIDE DEF A
<1>7. SetToSeq(A) \in Seq(A) /\ \A x \in A : Contains(SetToSeq(A), x)
  BY <1>4, SeqOfSet
<1>8. SetToSeq(A) \in Seq(AnswerLines)
  BY <1>3, <1>7, SeqMonotonic
<1>9. QED
  BY <1>5, <1>6, <1>7, <1>8 DEF A

LEMMA ModesSame == \A S, T : Mode(S) = Mode(T) => S = T
<1>1. ASSUME NEW S, NEW T, Mode(S) = Mode(T) PROVE S = T
  <2>1. Mode(S).changes = Mode(T).changes
    BY <1>1
  <2>2. QED
    BY <2>1 DEF Mode
<1>2. QED
  BY <1>1

LEMMA AnswerLinesOK ==
  ASSUME NEW t \in Seq(AnswerLines)
  PROVE  /\ t \in Seq(DownLines) /\ OpsTakenBack(t) /\ Permitted(t)
         /\ \A m : ~Contains(t, Kicked(m))
<1>1. AnswerLines \subseteq DownLines
  <2>1. ASSUME NEW u \in Users PROVE Take("o", u) \in DownLines
    BY LineTypes DEF Take, Everyone
  <2>2. Give("o", Bot) \in DownLines
    BY LineTypes DEF Give, Everyone, Statuses
  <2>3. QED
    BY <2>1, <2>2 DEF AnswerLines
<1>2. t \in Seq(DownLines)
  BY <1>1, SeqMonotonic
<1>3. Bot \notin Users
  BY ChanModesAssumption
<1>4. \A x \in AnswerLines : \A u \in Users : x # Give("o", u)
  BY <1>3, OneChange DEF AnswerLines
<1>5. \A x \in AnswerLines : x # Take("o", Bot) /\ \A m : x # Kicked(m)
  <2>1. \A x \in AnswerLines : x # Take("o", Bot)
    BY <1>3, OneChange DEF AnswerLines
  <2>2. \A x \in AnswerLines : \A m : x # Kicked(m)
    BY OneChange DEF AnswerLines, Give, Take
  <2>3. QED
    BY <2>1, <2>2
<1>9. \A y \in AnswerLines, x \in Masks : y # Give("b", x)
  <2>1. ASSUME NEW x, NEW f, NEW u, {Change(TRUE, "b", x)} = {Change(f, "o", u)} PROVE FALSE
    <3>1. Change(TRUE, "b", x) = Change(f, "o", u)
      BY <2>1
    <3>2. QED
      BY <3>1 DEF Change
  <2>2. \A x, u : Give("b", x) # Take("o", u) /\ Give("b", x) # Give("o", u)
    BY <2>1, ModesSame, Zenon DEF Give, Take
  <2>3. QED
    BY <2>2 DEF AnswerLines
<1>6. \A i \in 1..Len(t) : t[i] \in AnswerLines
  BY ElementOfSeq
<1>7. OpsTakenBack(t)
  BY <1>4, <1>6 DEF OpsTakenBack
<1>8. QED
  BY <1>2, <1>5, <1>6, <1>7, <1>9 DEF Permitted, Contains

LEMMA AnswersApplied ==
  ASSUME NEW c \in Sound, BotAdmin(c), NEW t \in Seq(AnswerLines)
  PROVE  LET d == FoldLeft(LAMBDA z, line : AppliedAll(z, line.changes), c, t)
         IN d \in Sound /\ BotAdmin(d) /\ d.on = c.on /\ d.bans = c.bans
<1> DEFINE T == {d \in Sound : BotAdmin(d) /\ d.on = c.on /\ d.bans = c.bans}
<1>1. c \in T
  OBVIOUS
<1>2. ASSUME NEW y \in T, NEW x \in AnswerLines PROVE AppliedAll(y, x.changes) \in T
  <2>1. PICK ch \in StatusChanges : x.changes = {ch}
    <3>1. ASSUME NEW u \in Users, x = Take("o", u) PROVE \E ch \in StatusChanges : x.changes = {ch}
      <4>1. Change(FALSE, "o", u) \in StatusChanges
        BY LineTypes DEF Everyone
      <4>2. x.changes = {Change(FALSE, "o", u)}
        BY <3>1 DEF Take, Mode
      <4>3. QED
        BY <4>1, <4>2, Zenon
    <3>2. CASE x = Give("o", Bot)
      <4>1. Change(TRUE, "o", Bot) \in StatusChanges
        BY LineTypes DEF Everyone, Statuses
      <4>2. x.changes = {Change(TRUE, "o", Bot)}
        BY <3>2 DEF Give, Mode
      <4>3. QED
        BY <4>1, <4>2, Zenon
    <3>3. QED
      BY <1>2, <3>1, <3>2 DEF AnswerLines
  <2>2. AppliedAll(y, x.changes) = Applied(y, ch)
    BY <2>1, OneApplied
  <2>3. QED
    BY <2>1, <2>2, StatusApplied
<1> HIDE DEF T
<1>3. FoldLeft(LAMBDA z, line : AppliedAll(z, line.changes), c, t) \in T
  BY <1>1, <1>2, StepFolded
<1>4. QED
  BY <1>3 DEF T

-----------------------------------------------------------------------------
(* One line sent, with the answers to it.                                  *)

BansChanged(S, from, to) ==
  /\ ~(\E ch \in BanChanges : S = {ch}) => to = from
  /\ \A ch \in BanChanges : S = {ch} => to = AddIf(ch.on, from, ch.arg)

LEMMA LineApplied ==
  ASSUME NEW c \in Sound, c.on # {}, NEW S \in LineChanges
  PROVE  LET d == AppliedAll(c, S)
         IN /\ d \in Sound /\ (BotAdmin(c) => BotAdmin(d)) /\ d.on = c.on
            /\ BansChanged(S, c.bans, d.bans)
            /\ S \subseteq Settings => d.status = c.status
<1> DEFINE d == AppliedAll(c, S)
<1>1. \A ch \in BanChanges : ch.letter = "b"
  BY DEF BanChanges, Changing
<1>2. CASE S \in SUBSET Settings /\ IsFiniteSet(S)
  <2>1. d \in Sound /\ d.on = c.on /\ d.status = c.status /\ d.bans = c.bans
    BY <1>2, SettingsApplied
  <2>2. \A ch \in BanChanges : S # {ch}
    BY <1>1, <1>2, LettersApart DEF Settings, Changing
  <2> HIDE DEF d
  <2>3. QED
    BY <2>1, <2>2 DEF BotAdmin, BansChanged, d
<1>3. ASSUME NEW ch \in BanChanges, S = {ch} PROVE
            /\ d \in Sound /\ (BotAdmin(c) => BotAdmin(d)) /\ d.on = c.on
            /\ BansChanged(S, c.bans, d.bans)
            /\ S \subseteq Settings => d.status = c.status
  <2>1. d = Applied(c, ch)
    BY <1>3, OneApplied
  <2>2. d \in Sound /\ d.on = c.on /\ d.status = c.status /\ d.bans = AddIf(ch.on, c.bans, ch.arg)
    BY <2>1, BanApplied
  <2>3. \A x \in BanChanges : S = {x} => x = ch
    BY <1>3
  <2> HIDE DEF d
  <2>4. QED
    BY <1>3, <2>2, <2>3 DEF BotAdmin, BansChanged
<1>4. ASSUME NEW ch \in StatusChanges, S = {ch} PROVE
            /\ d \in Sound /\ (BotAdmin(c) => BotAdmin(d)) /\ d.on = c.on
            /\ BansChanged(S, c.bans, d.bans)
            /\ S \subseteq Settings => d.status = c.status
  <2>1. d = Applied(c, ch)
    BY <1>4, OneApplied
  <2>2. d \in Sound /\ d.on = c.on /\ d.bans = c.bans /\ (BotAdmin(c) => BotAdmin(d))
    BY <2>1, StatusApplied
  <2>3. ch.letter \in {"a", "o", "v"}
    BY DEF StatusChanges, Changing, Statuses
  <2>4. \A x \in BanChanges : S # {x}
    BY <1>1, <1>4, <2>3
  <2>5. ~(S \subseteq Settings)
    BY <1>4, <2>3, LettersApart DEF Settings, Changing
  <2> HIDE DEF d
  <2>6. QED
    BY <2>2, <2>4, <2>5 DEF BansChanged
<1> HIDE DEF d
<1>5. /\ d \in Sound /\ (BotAdmin(c) => BotAdmin(d)) /\ d.on = c.on
      /\ BansChanged(S, c.bans, d.bans)
      /\ S \subseteq Settings => d.status = c.status
  <2>1. \/ S \in SUBSET Settings /\ IsFiniteSet(S)
        \/ \E ch \in BanChanges : S = {ch}
        \/ \E ch \in StatusChanges : S = {ch}
    BY DEF LineChanges
  <2>2. CASE S \in SUBSET Settings /\ IsFiniteSet(S)
    BY <1>2, <2>2 DEF d
  <2>3. CASE \E ch \in BanChanges : S = {ch}
    BY <1>3, <2>3
  <2>4. CASE \E ch \in StatusChanges : S = {ch}
    BY <1>4, <2>4
  <2>5. QED
    BY <2>1, <2>2, <2>3, <2>4
<1>6. QED
  BY <1>5 DEF d

LEMMA NoAnswer ==
  ASSUME NEW S \in LineChanges, ~\E ch \in S : ch.letter = "o"
  PROVE  SetToSeq(Answer(S)) = <<>>
<1>1. Answer(S) = {}
  BY DEF Answer, Deopped, Reopped
<1>2. QED
  BY <1>1, SeqOfNone

LEMMA Moded ==
  ASSUME NEW a, a.chan \in Sound, BotAdmin(a.chan), a.chan.on # {}, NEW S \in LineChanges
  PROVE  LET b == ChannelMode(a, S)
         IN /\ b = [chan |-> b.chan, sent |-> b.sent]
            /\ b.chan \in Sound /\ BotAdmin(b.chan) /\ b.chan.on = a.chan.on
            /\ BansChanged(S, a.chan.bans, b.chan.bans)
            /\ b.sent = a.sent \o SetToSeq(Answer(S))
            /\ S \subseteq Settings => b.chan.status = a.chan.status
<1> DEFINE t == SetToSeq(Answer(S))
           d == FoldLeft(LAMBDA z, line : AppliedAll(z, line.changes), a.chan, t)
           e == AppliedAll(d, S)
<1>1. ChannelMode(a, S) = [chan |-> e, sent |-> a.sent \o t]
  BY DEF ChannelMode, Side
<1>2. t \in Seq(AnswerLines)
  BY AnswersTo
<1> HIDE DEF t
<1>3. d \in Sound /\ BotAdmin(d) /\ d.on = a.chan.on /\ d.bans = a.chan.bans
  BY <1>2, AnswersApplied
<1>4. S \subseteq Settings => d = a.chan
  <2>1. SUFFICES ASSUME S \subseteq Settings PROVE d = a.chan
    OBVIOUS
  <2>2. ~\E ch \in S : ch.letter = "o"
    BY <2>1, LettersApart DEF Settings, Changing
  <2>3. t = <<>>
    BY <2>2, NoAnswer DEF t
  <2> DEFINE T == {a.chan}
             D == {}
  <2>4. t \in Seq(D) /\ Len(t) = 0 /\ a.chan \in T /\ \A y \in T, x \in D : AppliedAll(y, x.changes) \in T
    BY <2>3, EmptySeq
  <2> HIDE DEF T, D
  <2>5. d \in T
    BY <2>4, StepFolded
  <2>6. QED
    BY <2>5 DEF T
<1> HIDE DEF d
<1>5. /\ e \in Sound /\ (BotAdmin(d) => BotAdmin(e)) /\ e.on = d.on
      /\ BansChanged(S, d.bans, e.bans)
      /\ S \subseteq Settings => e.status = d.status
  BY <1>3, LineApplied
<1> HIDE DEF e
<1>6. QED
  BY <1>1, <1>3, <1>4, <1>5 DEF t

LEMMA Sending ==
  ASSUME NEW a \in Sides, a.chan.on # {}, NEW S \in LineChanges, S # {Change(FALSE, "o", Bot)},
         \A ch \in BanChanges : S = {ch} => ~ch.on
  PROVE  LET b == SendMode(a, S)
         IN /\ b \in Sides /\ b.chan.on = a.chan.on
            /\ BansChanged(S, a.chan.bans, b.chan.bans)
            /\ \A x : Contains(a.sent, x) => Contains(b.sent, x)
            /\ \A m : Contains(b.sent, Kicked(m)) => Contains(a.sent, Kicked(m))
            /\ Contains(b.sent, Mode(S))
            /\ S \subseteq Settings => b.chan.status = a.chan.status
<1> DEFINE line == Mode(S)
           s == Append(a.sent, line)
           t == SetToSeq(Answer(S))
           from == [a EXCEPT !.sent = s]
           b == SendMode(a, S)
<1>1. /\ a = [chan |-> a.chan, sent |-> a.sent] /\ a.chan \in Sound /\ a.sent \in Seq(DownLines)
      /\ BotAdmin(a.chan) /\ OpsTakenBack(a.sent) /\ Permitted(a.sent)
  BY DEF Sides
<1>2. from.chan = a.chan /\ from.sent = s
  BY <1>1
<1>3. b = ChannelMode(from, S)
  BY <1>1 DEF SendMode
<1>4. line \in DownLines
  BY LineTypes
<1>5. t \in Seq(AnswerLines)
  BY AnswersTo
<1>6. t \in Seq(DownLines) /\ OpsTakenBack(t) /\ Permitted(t) /\ \A m : ~Contains(t, Kicked(m))
  <2> HIDE DEF t
  <2>1. QED
    BY <1>5, AnswerLinesOK
<1> HIDE DEF from, b
<1>7. /\ b = [chan |-> b.chan, sent |-> b.sent]
      /\ b.chan \in Sound /\ BotAdmin(b.chan) /\ b.chan.on = a.chan.on
      /\ BansChanged(S, a.chan.bans, b.chan.bans)
      /\ b.sent = s \o t
      /\ S \subseteq Settings => b.chan.status = a.chan.status
  <2>1. from.chan \in Sound /\ BotAdmin(from.chan) /\ from.chan.on # {}
    BY <1>1, <1>2
  <2> HIDE DEF s, t, line
  <2>2. QED
    BY <1>2, <1>3, <2>1, Moded DEF t
<1> HIDE DEF line
<1>8. s \in Seq(DownLines) /\ \A x : Contains(s, x) <=> Contains(a.sent, x) \/ x = line
  BY <1>1, <1>4, ContainsAppended
<1>9. s = a.sent \o <<line>> /\ <<line>> \in Seq(DownLines) /\ Len(<<line>>) = 1 /\ <<line>>[1] = line
  BY <1>1, <1>4, Appended
<1>10. ASSUME SecureOps, NEW u \in Users \ Roled, line = Give("o", u) PROVE Contains(t, Take("o", u))
  <2>1. S = {Change(TRUE, "o", u)}
    BY <1>10 DEF line, Mode, Give
  <2>2. QED
    BY <1>10, <2>1, AnswersTo
<1> DEFINE one == <<line>>
<1> HIDE DEF s, t, one
<1>11. OpsTakenBack(s \o t)
  <2>1. Joins(s, a.sent, one)
    BY <1>1, <1>9, Joined DEF one
  <2>2. ASSUME SecureOps, NEW u \in Users \ Roled, NEW i \in 1..Len(s), s[i] = Give("o", u)
        PROVE  (\E k \in i + 1..Len(s) : s[k] = Take("o", u)) \/ Contains(t, Take("o", u))
    <3> DEFINE n == Len(a.sent)
               g == Give("o", u)
               h == Take("o", u)
    <3>1. n \in Nat /\ Len(s) = n + 1 /\ one[1] = line /\ Len(one) = 1
      BY <1>1, <1>9, <2>1, LenProperties DEF Joins, one
    <3>2. CASE i = n + 1
      <4>1. s[i] = line
        BY <2>1, <3>1, <3>2 DEF Joins
      <4>2. QED
        BY <1>10, <2>2, <4>1
    <3>3. CASE i # n + 1
      <4>1. i \in 1..n
        BY <3>1, <3>3
      <4>2. a.sent[i] = g
        BY <2>1, <2>2, <4>1 DEF Joins
      <4>3. PICK k \in i + 1..n : a.sent[k] = h
        BY <1>1, <2>2, <4>1, <4>2 DEF OpsTakenBack
      <4> HIDE DEF n, h
      <4>4. k \in 1..n /\ k \in i + 1..Len(s)
        BY <3>1, <4>1
      <4>5. s[k] = h
        BY <2>1, <4>3, <4>4 DEF Joins, n
      <4>6. QED
        BY <4>4, <4>5 DEF h
    <3>4. QED
      BY <3>2, <3>3
  <2>3. QED
    BY <1>6, <1>8, <2>2, TakenBackJoined
<1>12. s \o t \in Seq(DownLines) /\ \A x : Contains(s \o t, x) <=> Contains(s, x) \/ Contains(t, x)
  BY <1>6, <1>8, ContainsJoined, Joined
<1>13. line # Take("o", Bot) /\ (\A m : line # Kicked(m)) /\ \A x \in Masks : line # Give("b", x)
  <2>1. line # Take("o", Bot)
    BY DEF line, Take, Mode
  <2>2. ASSUME NEW x \in Masks PROVE line # Give("b", x)
    <3>1. Change(TRUE, "b", x) \in BanChanges /\ Change(TRUE, "b", x).on
      BY LineTypes DEF Change
    <3>2. S # {Change(TRUE, "b", x)}
      BY <3>1
    <3>3. QED
      BY <3>2, ModesSame, Zenon DEF line, Give
  <2>3. \A m : line # Kicked(m)
    BY OneChange DEF line
  <2>4. QED
    BY <2>1, <2>2, <2>3
<1>14. Permitted(s \o t)
  BY <1>1, <1>6, <1>8, <1>12, <1>13 DEF Permitted
<1>15. b \in Sides
  BY <1>7, <1>11, <1>12, <1>14 DEF Sides
<1>16. \A x : Contains(a.sent, x) => Contains(b.sent, x)
  BY <1>7, <1>8, <1>12
<1>17. \A m : Contains(b.sent, Kicked(m)) => Contains(a.sent, Kicked(m))
  BY <1>6, <1>7, <1>8, <1>12, <1>13
<1>18. Contains(b.sent, line)
  BY <1>7, <1>8, <1>12
<1>19. QED
  BY <1>7, <1>15, <1>16, <1>17, <1>18 DEF b, line

-----------------------------------------------------------------------------
(* The lock and the roles.                                                 *)

LEMMA AnswersTwice ==
  ASSUME NEW a, NEW b, NEW c, Answers(a, b), Answers(b, c)
  PROVE  Answers(a, c)
BY DEF Answers

LEMMA SendingAnswers ==
  ASSUME NEW a \in Sides, a.chan.on # {}, NEW S \in LineChanges, S # {Change(FALSE, "o", Bot)},
         ~\E ch \in BanChanges : S = {ch}
  PROVE  /\ Answers(a, SendMode(a, S)) /\ Contains(SendMode(a, S).sent, Mode(S))
         /\ S \subseteq Settings => SendMode(a, S).chan.status = a.chan.status
<1> DEFINE b == SendMode(a, S)
<1>1. /\ b \in Sides /\ b.chan.on = a.chan.on
      /\ BansChanged(S, a.chan.bans, b.chan.bans)
      /\ \A x : Contains(a.sent, x) => Contains(b.sent, x)
      /\ \A m : Contains(b.sent, Kicked(m)) => Contains(a.sent, Kicked(m))
      /\ Contains(b.sent, Mode(S))
      /\ S \subseteq Settings => b.chan.status = a.chan.status
  <2>1. \A ch \in BanChanges : S = {ch} => ~ch.on
    OBVIOUS
  <2>2. QED
    BY <2>1, Sending
<1> HIDE DEF b
<1>2. QED
  BY <1>1 DEF Answers, BansChanged, b

LEMMA LockTyped ==
  ASSUME NEW c \in Sound
  PROVE  LockChanges(c) \in SUBSET Settings /\ IsFiniteSet(LockChanges(c))
<1> DEFINE off == LockOff \intersect c.modes
           poff == {q \in LockOff \intersect Params : c.param[q] # NoValue}
           on == LockOn \ c.modes
           pon == {q \in LockedParams : c.param[q] # LockedValue}
           f1 == [x \in off |-> Change(FALSE, x, NoValue)]
           f2 == [x \in poff |-> Change(FALSE, x, NoValue)]
           f3 == [x \in on |-> Change(TRUE, x, NoValue)]
           f4 == [x \in pon |-> Change(TRUE, x, LockedValue)]
           A1 == {f1[x] : x \in off}
           A2 == {f2[x] : x \in poff}
           A3 == {f3[x] : x \in on}
           A4 == {f4[x] : x \in pon}
<1>1. LockChanges(c) = ((A1 \union A2) \union A3) \union A4
  BY DEF LockChanges
<1>2. off \subseteq FlagModes /\ poff \subseteq Params /\ on \subseteq FlagModes /\ pon \subseteq Params
  BY ChanModesAssumption DEF Sound, Channels, LockOn, DefaultMLock, LockedParams
<1>3. LockedValue \in Values
  BY ChanModesAssumption
<1>4. A1 \subseteq Settings /\ A2 \subseteq Settings /\ A3 \subseteq Settings /\ A4 \subseteq Settings
  BY <1>2, <1>3, LineTypes
<1>5. IsFiniteSet(off) /\ IsFiniteSet(poff) /\ IsFiniteSet(on) /\ IsFiniteSet(pon)
  <2>1. IsFiniteSet(FlagModes) /\ IsFiniteSet(Params)
    BY ChanModesAssumption
  <2> HIDE DEF off, poff, on, pon
  <2>2. QED
    BY <1>2, <2>1, FS_Subset
<1> HIDE DEF off, poff, on, pon, f1, f2, f3, f4
<1>6. IsFiniteSet(A1) /\ IsFiniteSet(A2) /\ IsFiniteSet(A3) /\ IsFiniteSet(A4)
  BY <1>5, ImageFinite
<1> HIDE DEF A1, A2, A3, A4
<1>7. IsFiniteSet(A1 \union A2)
  BY <1>6, FS_Union
<1>8. IsFiniteSet((A1 \union A2) \union A3)
  BY <1>6, <1>7, FS_Union
<1>9. IsFiniteSet(((A1 \union A2) \union A3) \union A4)
  BY <1>6, <1>8, FS_Union
<1>10. QED
  BY <1>1, <1>4, <1>9

LEMMA SettingsAreLines ==
  ASSUME NEW S \in SUBSET Settings, IsFiniteSet(S)
  PROVE  /\ S \in LineChanges /\ S # {Change(FALSE, "o", Bot)}
         /\ ~\E ch \in BanChanges : S = {ch}
<1>1. S \in LineChanges
  BY LineTypes
<1>2. \A ch \in S : ch.letter # "o" /\ ch.letter # "b"
  BY LettersApart DEF Settings, Changing
<1>3. Change(FALSE, "o", Bot).letter = "o"
  BY DEF Change
<1>4. \A ch \in BanChanges : ch.letter = "b"
  BY DEF BanChanges, Changing
<1>5. QED
  BY <1>1, <1>2, <1>3, <1>4

LEMMA Locking ==
  ASSUME NEW a \in Sides, a.chan.on # {}
  PROVE  Answers(a, LockApply(a)) /\ LockApply(a).chan.status = a.chan.status
<1> DEFINE S == LockChanges(a.chan)
<1>1. a.chan \in Sound
  BY DEF Sides
<1>2. S \in SUBSET Settings /\ IsFiniteSet(S)
  BY <1>1, LockTyped
<1> HIDE DEF S
<1>3. S \in LineChanges /\ S # {Change(FALSE, "o", Bot)} /\ ~\E ch \in BanChanges : S = {ch}
  BY <1>2, SettingsAreLines
<1>4. Answers(a, SendMode(a, S)) /\ SendMode(a, S).chan.status = a.chan.status
  BY <1>2, <1>3, SendingAnswers
<1>5. Answers(a, a)
  BY DEF Answers
<1>6. QED
  BY <1>4, <1>5 DEF LockApply, S

LEMMA Giving ==
  ASSUME NEW a \in Sides, NEW u \in Everyone, NEW l \in Statuses, a.chan.on # {}
  PROVE  Answers(a, SendMode(a, {Change(TRUE, l, u)}))
<1> DEFINE ch == Change(TRUE, l, u)
<1>1. ch \in StatusChanges /\ {ch} \in LineChanges
  BY LineTypes
<1>2. {ch} # {Change(FALSE, "o", Bot)} /\ ~\E x \in BanChanges : {ch} = {x}
  <2>1. ch.on = TRUE /\ ch.letter # "b" /\ Change(FALSE, "o", Bot).on = FALSE
    BY DEF Change, Statuses
  <2>2. \A x \in BanChanges : x.letter = "b"
    BY DEF BanChanges, Changing
  <2> HIDE DEF ch
  <2>3. QED
    BY <2>1, <2>2
<1> HIDE DEF ch
<1>3. Answers(a, SendMode(a, {ch}))
  BY <1>1, <1>2, SendingAnswers
<1>4. QED
  BY <1>3 DEF ch

LEMMA Taking ==
  ASSUME NEW a \in Sides, NEW u \in Everyone, NEW l \in {"o", "v"}, a.chan.on # {},
         l = "o" => u \in Users
  PROVE  /\ Answers(a, SendMode(a, {Change(FALSE, l, u)}))
         /\ Contains(SendMode(a, {Change(FALSE, l, u)}).sent, Take(l, u))
<1> DEFINE ch == Change(FALSE, l, u)
<1>1. ch \in StatusChanges /\ {ch} \in LineChanges
  BY LineTypes
<1>2. {ch} # {Change(FALSE, "o", Bot)} /\ ~\E x \in BanChanges : {ch} = {x}
  <2>1. /\ ch.letter = l /\ ch.arg = u /\ Change(FALSE, "o", Bot).arg = Bot
        /\ Change(FALSE, "o", Bot).letter = "o"
    BY DEF Change
  <2>2. \A x \in BanChanges : x.letter = "b"
    BY DEF BanChanges, Changing
  <2>3. Bot \notin Users
    BY ChanModesAssumption
  <2> HIDE DEF ch
  <2>4. QED
    BY <2>1, <2>2, <2>3
<1> HIDE DEF ch
<1>3. Answers(a, SendMode(a, {ch})) /\ Contains(SendMode(a, {ch}).sent, Mode({ch}))
  BY <1>1, <1>2, SendingAnswers
<1>4. QED
  BY <1>3 DEF ch, Take

LEMMA RoleJoins ==
  ASSUME NEW a \in Sides, NEW u \in Users, u \in a.chan.on
  PROVE  /\ Answers(a, RoleJoin(a, u))
         /\ u \notin Roled /\ "o" \in a.chan.status[u] => Contains(RoleJoin(a, u).sent, Take("o", u))
<1> DEFINE missing == RoleStatus(u) \ a.chan.status[u]
           q == SetToSeq(missing)
           given == GivenAll(a, q, u)
           T == {b \in Sides : Answers(a, b)}
<1>1. u \in Everyone
  BY DEF Everyone
<1>2. missing \subseteq Statuses /\ IsFiniteSet(missing)
  <2>1. RoleStatus(u) \subseteq Statuses
    BY DEF RoleStatus, Statuses
  <2>2. IsFiniteSet({"o"}) /\ {"a", "o"} = {"o"} \union {"a"} /\ Statuses = {"a", "o"} \union {"v"}
    BY FS_Singleton DEF Statuses
  <2>3. IsFiniteSet({"a", "o"})
    BY <2>2, FS_AddElement
  <2>4. IsFiniteSet(Statuses)
    BY <2>2, <2>3, FS_AddElement
  <2>5. missing \subseteq Statuses
    BY <2>1
  <2> HIDE DEF missing
  <2>6. QED
    BY <2>4, <2>5, FS_Subset
<1>3. u \notin Roled => missing = {}
  BY DEF Roled, RoleStatus
<1>4. a \in T
  BY DEF Answers
<1>5. ASSUME NEW y \in T, NEW x \in Statuses PROVE SendMode(y, {Change(TRUE, x, u)}) \in T
  <2>1. y \in Sides /\ y.chan.on # {} /\ Answers(a, y)
    BY DEF Answers
  <2>2. Answers(y, SendMode(y, {Change(TRUE, x, u)}))
    BY <1>1, <2>1, Giving
  <2>3. Answers(a, SendMode(y, {Change(TRUE, x, u)}))
    BY <2>1, <2>2, AnswersTwice
  <2>4. QED
    BY <2>3 DEF Answers
<1> HIDE DEF T, missing
<1>6. q \in Seq(Statuses) /\ (u \notin Roled => q = <<>>)
  <2>1. q \in Seq(missing)
    BY <1>2, SeqOfSet
  <2>2. u \notin Roled => q = <<>>
    BY <1>3, SeqOfNone
  <2>3. QED
    BY <1>2, <2>1, <2>2, SeqMonotonic
<1> HIDE DEF q
<1>7. given \in T /\ (u \notin Roled => given = a)
  <2> DEFINE D == Statuses
  <2>1. q \in Seq(D) /\ GivesKeep(T, D, u)
    BY <1>5, <1>6 DEF GivesKeep
  <2> HIDE DEF D
  <2>2. given \in T
    BY <1>4, <2>1, GiveOneFolded
  <2>3. q = <<>> => given = a
    <3> DEFINE one == {a}
               none == {}
    <3>1. a \in one /\ (q = <<>> => q \in Seq(none)) /\ GivesKeep(one, none, u)
      BY EmptySeq DEF GivesKeep
    <3> HIDE DEF one, none, given
    <3>2. q = <<>> => given \in one
      BY <3>1, GiveOneFolded DEF given
    <3>3. QED
      BY <3>2 DEF one
  <2>4. QED
    BY <1>6, <2>2, <2>3
<1>8. RoleJoin(a, u) = IF "o" \in given.chan.status[u] /\ "o" \notin RoleStatus(u)
                         THEN SendMode(given, {Change(FALSE, "o", u)}) ELSE given
  BY DEF RoleJoin, GivenAll, q, missing
<1> HIDE DEF given
<1>9. given \in Sides /\ Answers(a, given) /\ given.chan.on # {}
  BY <1>7 DEF T, Answers
<1>10. /\ Answers(given, SendMode(given, {Change(FALSE, "o", u)}))
       /\ Contains(SendMode(given, {Change(FALSE, "o", u)}).sent, Take("o", u))
  BY <1>1, <1>9, Taking
<1>11. Answers(a, SendMode(given, {Change(FALSE, "o", u)}))
  BY <1>9, <1>10, AnswersTwice
<1>12. u \notin Roled => "o" \notin RoleStatus(u)
  BY DEF Roled, RoleStatus
<1>13. QED
  BY <1>7, <1>8, <1>9, <1>10, <1>11, <1>12

-----------------------------------------------------------------------------
(* What services make of the lines they read.                              *)

LEMMA NothingSent ==
  /\ <<>> \in Seq(DownLines) /\ OpsTakenBack(<<>>) /\ Permitted(<<>>)
  /\ \A x : ~Contains(<<>>, x)
<1>1. <<>> \in Seq(DownLines) /\ Len(<<>>) = 0 /\ 1..0 = {}
  BY EmptySeq
<1>2. \A i \in 1..Len(<<>>) : FALSE
  BY <1>1
<1>3. \A x : ~Contains(<<>>, x)
  BY <1>2 DEF Contains
<1>4. OpsTakenBack(<<>>)
  BY <1>2, Zenon DEF OpsTakenBack
<1>5. QED
  BY <1>1, <1>3, <1>4 DEF Permitted

Entered(d, c, u, st) ==
  /\ d \in Sound /\ (BotAdmin(c) => BotAdmin(d))
  /\ d.on = c.on \union {u} /\ d.bans = c.bans /\ d.status[u] = st
  /\ \A m \in Everyone : m # u => d.status[m] = c.status[m]

LEMMA WithMember ==
  ASSUME NEW c \in Sound, NEW u \in Users, NEW st \in SUBSET {"o"}, NEW md \in SUBSET FlagModes
  PROVE  Entered(With(c, u, st, md), c, u, st)
<1> DEFINE d == With(c, u, st, md)
           f == [c.status EXCEPT ![u] = st]
<1>1. u \in Everyone /\ u # Bot
  BY ChanModesAssumption DEF Everyone
<1>2. c \in Channels /\ c.status \in [Everyone -> SUBSET Statuses] /\ st \in SUBSET Statuses
  BY DEF Sound, Channels, Statuses
<1>3. f \in [Everyone -> SUBSET Statuses] /\ f[u] = st /\ \A m \in Everyone : m # u => f[m] = c.status[m]
  BY <1>1, <1>2
<1>4. d = [c EXCEPT !.on = c.on \union {u}, !.status = f, !.modes = c.modes \union md]
  BY <1>2 DEF With, Channels
<1> HIDE DEF f, d
<1>5. d \in Channels /\ d.on = c.on \union {u} /\ d.bans = c.bans /\ d.status = f
  BY <1>1, <1>2, <1>3, <1>4 DEF Channels
<1>6. d \in Sound
  BY <1>3, <1>5 DEF Sound
<1>7. BotAdmin(c) => BotAdmin(d)
  BY <1>1, <1>3, <1>5 DEF BotAdmin, Everyone
<1>8. QED
  BY <1>3, <1>5, <1>6, <1>7 DEF f, d, Entered

LEMMA EmptyChannel == NoChan \in Sound /\ NoChan.on = {} /\ NoChan.bans = {} /\ \A m \in Everyone : NoChan.status[m] = {}
BY DEF NoChan, Sound, Channels

LEMMA WithoutMember ==
  ASSUME NEW c \in Sound, NEW u \in Everyone
  PROVE  LET d == Without(c, u)
         IN /\ d \in Sound /\ (BotAdmin(c) => BotAdmin(d))
            /\ d.on = c.on \ {u} /\ d.status[u] = {}
            /\ (d.on # {} => d.bans = c.bans) /\ d.bans \subseteq c.bans
            /\ \A m \in Everyone : d.status[m] # {} => d.status[m] = c.status[m]
            /\ \A m \in d.on : d.status[m] = c.status[m]
<1> DEFINE d == Without(c, u)
           f == [c.status EXCEPT ![u] = {}]
<1>1. c \in Channels /\ c.status \in [Everyone -> SUBSET Statuses] /\ c.on \subseteq Everyone
  BY DEF Sound, Channels
<1>2. CASE c.on \subseteq {u}
  <2>1. d = NoChan /\ c.on \ {u} = {}
    BY <1>2 DEF Without
  <2> HIDE DEF d
  <2>2. QED
    BY <2>1, EmptyChannel DEF BotAdmin, d
<1>3. CASE ~(c.on \subseteq {u})
  <2>1. f \in [Everyone -> SUBSET Statuses] /\ f[u] = {} /\ \A m \in Everyone : m # u => f[m] = c.status[m]
    BY <1>1
  <2>2. d = [c EXCEPT !.on = c.on \ {u}, !.status = f]
    BY <1>1, <1>3 DEF Without, Channels
  <2> HIDE DEF f, d
  <2>3. d \in Channels /\ d.on = c.on \ {u} /\ d.bans = c.bans /\ d.status = f
    BY <1>1, <2>1, <2>2 DEF Channels
  <2>4. d.on # {}
    BY <1>3, <2>3
  <2>5. d \in Sound
    BY <2>1, <2>3, <2>4 DEF Sound
  <2>6. BotAdmin(c) => BotAdmin(d)
    BY <2>1, <2>3 DEF BotAdmin, Everyone
  <2>7. \A m \in d.on : d.status[m] = c.status[m]
    BY <1>1, <2>1, <2>3
  <2>8. QED
    BY <2>1, <2>3, <2>5, <2>6, <2>7 DEF d
<1>4. QED
  BY <1>2, <1>3

LEMMA CsJoins ==
  ASSUME NEW a \in Sides, NEW u \in Users, u \in a.chan.on
  PROVE  /\ Answers(a, CsJoin(a, u))
         /\ u \notin Roled /\ "o" \in a.chan.status[u] => Contains(CsJoin(a, u).sent, Take("o", u))
<1> DEFINE S == {Change(TRUE, "r", NoValue)}
           marked == SendMode(a, S)
           locked == LockSet(marked)
           b == IF a.chan.on \intersect Users = {u} THEN locked ELSE a
<1>1. S \in SUBSET Settings /\ IsFiniteSet(S)
  <2>1. "r" \in FlagModes
    BY ChanModesAssumption
  <2>2. Change(TRUE, "r", NoValue) \in Settings
    BY <2>1, LineTypes
  <2>3. QED
    BY <2>2, FS_Singleton
<1>2. CsJoin(a, u) = RoleJoin(b, u)
  BY DEF CsJoin
<1> HIDE DEF S
<1>3. Answers(a, marked) /\ marked.chan.status = a.chan.status
  BY <1>1, SettingsAreLines, SendingAnswers
<1> HIDE DEF marked
<1>4. Answers(marked, locked) /\ locked.chan.status = marked.chan.status
  <2>1. marked \in Sides
    BY <1>3 DEF Answers
  <2>2. locked = [marked EXCEPT !.chan = [marked.chan EXCEPT !.locked = TRUE]]
    BY <2>1 DEF LockSet, Sides
  <2> DEFINE c == marked.chan
             d == [c EXCEPT !.locked = TRUE]
  <2>3. c \in Sound
    BY <2>1 DEF Sides
  <2>4. d \in Sound /\ d.on = c.on /\ d.status = c.status /\ d.bans = c.bans
    <3> HIDE DEF c
    <3>1. QED
      BY <2>3 DEF Sound, Channels
  <2>5. locked = [chan |-> d, sent |-> marked.sent]
    BY <2>1, <2>2 DEF Sides
  <2> HIDE DEF d
  <2>6. BotAdmin(d)
    BY <2>1, <2>4 DEF BotAdmin, Sides
  <2>7. locked \in Sides
    BY <2>1, <2>4, <2>5, <2>6 DEF Sides
  <2> HIDE DEF locked
  <2>8. locked.sent = marked.sent /\ locked.chan = d
    BY <2>5
  <2>9. QED
    BY <2>4, <2>7, <2>8 DEF Answers
<1>5. Answers(a, locked) /\ locked.chan.status = a.chan.status
  BY <1>3, <1>4, AnswersTwice
<1> HIDE DEF locked
<1>6. Answers(a, b) /\ b.chan.status = a.chan.status
  BY <1>5 DEF Answers
<1> HIDE DEF b
<1>7. b \in Sides /\ u \in b.chan.on
  BY <1>6 DEF Answers
<1>8. /\ Answers(b, RoleJoin(b, u))
      /\ u \notin Roled /\ "o" \in b.chan.status[u] => Contains(RoleJoin(b, u).sent, Take("o", u))
  BY <1>7, RoleJoins
<1>9. QED
  BY <1>2, <1>6, <1>8, AnswersTwice

LEMMA JoinHandled ==
  ASSUME mirror \in Sound, BotAdmin(mirror),
         NEW u \in Users, NEW st \in SUBSET {"o"}, NEW md \in SUBSET FlagModes
  PROVE  LET h == Handled(Sjoin(u, st, md))
         IN /\ h \in Sides /\ h.chan.on = mirror.on \union {u} /\ h.chan.bans = mirror.bans
            /\ \A m : ~Contains(h.sent, Kicked(m))
            /\ u \notin Roled /\ "o" \in st => Contains(h.sent, Take("o", u))
<1> DEFINE c == With(mirror, u, st, md)
           a == Side(c, <<>>)
           b == CsJoin(a, u)
           k == [b EXCEPT !.chan.modes = @ \union md]
           line == Sjoin(u, st, md)
           h == Handled(line)
<1>1. line.type = "sjoin" /\ line.user = u /\ line.status = st /\ line.modes = md
  BY DEF Sjoin
<1>2. h = LockApply(k)
  BY <1>1 DEF Handled, MSjoin
<1>3. /\ c \in Sound /\ BotAdmin(c) /\ c.on = mirror.on \union {u} /\ c.bans = mirror.bans
      /\ c.status[u] = st
  <2>1. Entered(c, mirror, u, st)
    BY WithMember, Zenon
  <2> HIDE DEF c
  <2>2. QED
    BY <2>1 DEF Entered
<1> HIDE DEF c
<1>4. a \in Sides /\ a.chan = c /\ a.sent = <<>>
  BY <1>3, NothingSent DEF Side, Sides
<1> HIDE DEF a, line
<1>5. /\ Answers(a, b)
      /\ u \notin Roled /\ "o" \in a.chan.status[u] => Contains(b.sent, Take("o", u))
  BY <1>3, <1>4, CsJoins
<1> HIDE DEF b
<1>6. Answers(b, k)
  <2>1. b \in Sides
    BY <1>5 DEF Answers
  <2> DEFINE e == b.chan
             d == [e EXCEPT !.modes = e.modes \union md]
  <2>2. e \in Sound
    BY <2>1 DEF Sides
  <2>3. d \in Sound /\ d.on = e.on /\ d.status = e.status /\ d.bans = e.bans
    <3> HIDE DEF e
    <3>1. QED
      BY <2>2 DEF Sound, Channels
  <2>4. k = [chan |-> d, sent |-> b.sent]
    <3>1. b = [chan |-> e, sent |-> b.sent]
      BY <2>1 DEF Sides
    <3>2. e = [on |-> e.on, status |-> e.status, modes |-> e.modes, param |-> e.param,
               bans |-> e.bans, locked |-> e.locked]
      BY <2>2 DEF Sound, Channels
    <3>3. k = [b EXCEPT !.chan = d]
      BY <3>1, <3>2
    <3> HIDE DEF d, k, e
    <3>4. QED
      BY <3>1, <3>3
  <2> HIDE DEF d, k
  <2>5. BotAdmin(d)
    BY <2>1, <2>3 DEF BotAdmin, Sides
  <2>6. k \in Sides
    BY <2>1, <2>3, <2>4, <2>5 DEF Sides
  <2>7. k.sent = b.sent /\ k.chan = d
    BY <2>4
  <2>8. QED
    BY <2>3, <2>6, <2>7 DEF Answers
<1> HIDE DEF k
<1>7. k \in Sides /\ k.chan.on # {}
  BY <1>3, <1>4, <1>5, <1>6 DEF Answers
<1>8. Answers(k, h)
  BY <1>2, <1>7, Locking
<1> HIDE DEF h
<1>9. h \in Sides /\ h.chan.on = c.on /\ h.chan.bans = c.bans
  BY <1>4, <1>5, <1>6, <1>8 DEF Answers
<1>10. \A m : ~Contains(h.sent, Kicked(m))
  BY <1>4, <1>5, <1>6, <1>8, NothingSent DEF Answers
<1>11. u \notin Roled /\ "o" \in st => Contains(h.sent, Take("o", u))
  BY <1>3, <1>4, <1>5, <1>6, <1>8 DEF Answers
<1>12. QED
  BY <1>3, <1>9, <1>10, <1>11 DEF h, line

LEMMA ModeHandled ==
  ASSUME mirror \in Sound, BotAdmin(mirror), NEW S \in LineChanges
  PROVE  LET h == Handled(Mode(S))
         IN /\ h \in Sides /\ h.chan.on = mirror.on
            /\ mirror.on # {} => BansChanged(S, mirror.bans, h.chan.bans)
            /\ mirror.on = {} => h.chan.bans = mirror.bans
            /\ \A m : ~Contains(h.sent, Kicked(m))
            /\ \A u \in Users \ Roled : SecureOps /\ mirror.on # {} /\ Mode(S) = Give("o", u) =>
                 Contains(h.sent, Take("o", u))
            /\ mirror.on # {} /\ Mode(S) = Take("o", Bot) => Contains(h.sent, Give("o", Bot))
<1> DEFINE a == Side(mirror, <<>>)
           t == SetToSeq(Answer(S))
           b == ChannelMode(a, S)
           line == Mode(S)
           h == Handled(line)
<1>1. line.type = "mode" /\ line.changes = S
  BY DEF Mode
<1>2. h = IF mirror.on = {} THEN a ELSE LockApply(b)
  BY <1>1 DEF Handled
<1>3. a \in Sides /\ a.chan = mirror /\ a.sent = <<>>
  BY NothingSent DEF Side, Sides
<1> HIDE DEF a
<1>4. CASE mirror.on = {}
  <2>1. h = a
    BY <1>2, <1>4
  <2> HIDE DEF h, line
  <2>2. QED
    BY <1>3, <1>4, <2>1, NothingSent DEF h, line
<1>5. CASE mirror.on # {}
  <2>1. /\ b = [chan |-> b.chan, sent |-> b.sent]
        /\ b.chan \in Sound /\ BotAdmin(b.chan) /\ b.chan.on = mirror.on
        /\ BansChanged(S, mirror.bans, b.chan.bans)
        /\ b.sent = <<>> \o t
    BY <1>3, <1>5, Moded
  <2>2. t \in Seq(AnswerLines)
    BY AnswersTo
  <2>3. /\ t \in Seq(DownLines) /\ OpsTakenBack(t) /\ Permitted(t)
        /\ \A m : ~Contains(t, Kicked(m))
    <3> HIDE DEF t
    <3>1. QED
      BY <2>2, AnswerLinesOK
  <2>4. /\ \A u \in Users \ Roled : SecureOps /\ line = Give("o", u) => Contains(t, Take("o", u))
        /\ line = Take("o", Bot) => Contains(t, Give("o", Bot))
    <3>1. ASSUME NEW u, line = Give("o", u) PROVE Change(TRUE, "o", u) \in S
      BY <3>1 DEF Mode, Give
    <3>2. ASSUME line = Take("o", Bot) PROVE Change(FALSE, "o", Bot) \in S
      BY <3>2 DEF Mode, Take
    <3> HIDE DEF line, t
    <3>3. QED
      BY <3>1, <3>2, AnswersTo DEF t
  <2> HIDE DEF t, b
  <2>5. b.sent = t
    BY <2>1, <2>3, ConcatEmptySeq
  <2>6. b \in Sides
    BY <2>1, <2>3, <2>5 DEF Sides
  <2>7. h = LockApply(b)
    BY <1>2, <1>5 DEF b
  <2>8. Answers(b, h)
    BY <1>5, <2>1, <2>6, <2>7, Locking
  <2> HIDE DEF h, line
  <2>9. h \in Sides /\ h.chan.on = mirror.on /\ BansChanged(S, mirror.bans, h.chan.bans)
    BY <2>1, <2>8 DEF Answers
  <2>10. \A m : ~Contains(h.sent, Kicked(m))
    BY <2>3, <2>5, <2>8 DEF Answers
  <2>11. \A u \in Users \ Roled : SecureOps /\ line = Give("o", u) => Contains(h.sent, Take("o", u))
    BY <2>4, <2>5, <2>8 DEF Answers
  <2>12. line = Take("o", Bot) => Contains(h.sent, Give("o", Bot))
    BY <2>4, <2>5, <2>8 DEF Answers
  <2>13. QED
    BY <1>5, <2>9, <2>10, <2>11, <2>12 DEF h, line
<1>6. QED
  BY <1>4, <1>5

LEMMA LeaveHandled ==
  ASSUME mirror \in Sound, BotAdmin(mirror), NEW u \in Everyone
  PROVE  LET h == Handled(Leaves(u))
         IN /\ h \in Sides /\ h.chan.on = mirror.on \ {u}
            /\ h.chan.bans \subseteq mirror.bans /\ (h.chan.on # {} => h.chan.bans = mirror.bans)
            /\ h.sent = <<>>
<1> DEFINE c == Without(mirror, u)
           line == Leaves(u)
           h == Handled(line)
<1>1. line.type = "leaves" /\ line.user = u
  BY DEF Leaves
<1>2. h = Side(c, <<>>)
  BY <1>1 DEF Handled
<1>3. /\ c \in Sound /\ BotAdmin(c) /\ c.on = mirror.on \ {u}
      /\ c.bans \subseteq mirror.bans /\ (c.on # {} => c.bans = mirror.bans)
  BY WithoutMember
<1> HIDE DEF c, line, h
<1>4. h.chan = c /\ h.sent = <<>> /\ h \in Sides
  BY <1>2, <1>3, NothingSent DEF Side, Sides
<1>5. QED
  BY <1>3, <1>4 DEF h, line

-----------------------------------------------------------------------------
(* The pieces of commands.                                                 *)

LEMMA AfterTwice ==
  ASSUME NEW a, NEW b, NEW c, After(a, b), After(b, c)
  PROVE  After(a, c)
BY DEF After

LEMMA AnswersAreAfter ==
  ASSUME NEW a, NEW b, Answers(a, b)
  PROVE  After(a, b)
BY DEF Answers, After

LEMMA Kicking ==
  ASSUME NEW a \in Sides, NEW u \in Users
  PROVE  After(a, Kick(a, u))
<1> DEFINE c == Without(a.chan, u)
           x == Kicked(u)
           s == Append(a.sent, x)
           b == Kick(a, u)
           t == <<x>>
<1>1. u \in Everyone /\ u # Bot
  BY ChanModesAssumption DEF Everyone
<1>2. /\ a.chan \in Sound /\ a.sent \in Seq(DownLines)
      /\ BotAdmin(a.chan) /\ OpsTakenBack(a.sent) /\ Permitted(a.sent)
  BY DEF Sides
<1>3. x \in DownLines /\ (\A m : x # Give("o", m) /\ x # Take("o", m)) /\ \A y : x # Give("b", y)
  <2>1. x \in DownLines
    BY <1>1 DEF DownLines
  <2>2. QED
    BY <2>1, OneChange DEF Give, Take
<1>4. /\ c \in Sound /\ (BotAdmin(a.chan) => BotAdmin(c))
      /\ c.on = a.chan.on \ {u}
      /\ (c.on # {} => c.bans = a.chan.bans) /\ c.bans \subseteq a.chan.bans
  BY <1>1, <1>2, WithoutMember
<1>5. b.chan = c /\ b.sent = s /\ b = [chan |-> c, sent |-> s]
  BY DEF Kick, Side
<1>6. Kicked(Bot) # x
  BY <1>1 DEF Kicked
<1> HIDE DEF x, c
<1>7. s \in Seq(DownLines) /\ \A y : Contains(s, y) <=> Contains(a.sent, y) \/ y = x
  BY <1>2, <1>3, ContainsAppended
<1>8. s = a.sent \o t /\ t \in Seq(DownLines) /\ Len(t) = 1 /\ t[1] = x
  BY <1>2, <1>3, Appended
<1> HIDE DEF s, t, b
<1>9. OpsTakenBack(t)
  <2>1. \A i \in 1..Len(t) : t[i] = x
    BY <1>8
  <2>2. QED
    BY <1>3, <2>1, Zenon DEF OpsTakenBack
<1>10. OpsTakenBack(s)
  <2>1. SecureOps => \A m \in Users \ Roled : \A i \in 1..Len(a.sent) : a.sent[i] = Give("o", m) =>
            (\E k \in i + 1..Len(a.sent) : a.sent[k] = Take("o", m)) \/ Contains(t, Take("o", m))
    BY <1>2, Zenon DEF OpsTakenBack
  <2>2. QED
    BY <1>2, <1>8, <1>9, <2>1, TakenBackJoined
<1>11. Permitted(s)
  BY <1>2, <1>3, <1>6, <1>7 DEF Permitted
<1>12. b \in Sides
  BY <1>2, <1>4, <1>5, <1>7, <1>10, <1>11 DEF Sides
<1>13. Contains(s, Kicked(u)) /\ \A y : Contains(a.sent, y) => Contains(s, y)
  BY <1>7 DEF x
<1>14. \A m \in a.chan.on : m \in c.on \/ Contains(s, Kicked(m))
  BY <1>4, <1>13
<1>15. c.on \subseteq a.chan.on /\ \A y \in a.chan.bans : y \in c.bans \/ c.on = {}
  BY <1>4
<1>16. After(a, b)
  BY <1>5, <1>12, <1>13, <1>14, <1>15 DEF After
<1>17. QED
  BY <1>16 DEF b

LEMMA Unbanning ==
  ASSUME NEW a \in Sides, a.chan.on # {}, NEW x \in Masks
  PROVE  After(a, SendMode(a, {Change(FALSE, "b", x)})) /\ SendMode(a, {Change(FALSE, "b", x)}).chan.on = a.chan.on
<1> DEFINE ch == Change(FALSE, "b", x)
           S == {ch}
           b == SendMode(a, S)
<1>1. ch \in BanChanges /\ S \in LineChanges
  BY LineTypes
<1>2. ch.letter = "b" /\ ch.on = FALSE /\ ch.arg = x /\ Change(FALSE, "o", Bot).letter = "o"
  BY DEF Change
<1>3. Mode(S) = Take("b", x)
  BY DEF Take
<1> HIDE DEF ch
<1>4. S # {Change(FALSE, "o", Bot)} /\ \A y \in BanChanges : S = {y} => ~y.on
  BY <1>2
<1> HIDE DEF S
<1>5. /\ b \in Sides /\ b.chan.on = a.chan.on
      /\ BansChanged(S, a.chan.bans, b.chan.bans)
      /\ \A y : Contains(a.sent, y) => Contains(b.sent, y)
      /\ Contains(b.sent, Mode(S))
  BY <1>1, <1>4, Sending
<1> HIDE DEF b
<1>6. b.chan.bans = a.chan.bans \ {x}
  BY <1>1, <1>2, <1>5 DEF BansChanged, AddIf, S
<1>7. After(a, b)
  BY <1>3, <1>5, <1>6 DEF After
<1>8. QED
  BY <1>5, <1>7 DEF b, S, ch

LEMMA ManyTaken ==
  ASSUME NEW a \in Sides, NEW l \in {"o", "v"}, NEW S \in SUBSET Users, a.chan.on # {}
  PROVE  After(a, TakenAll(a, SetToSeq(S), l))
<1> DEFINE T == {b \in Sides : Answers(a, b)}
           D == Users
           q == SetToSeq(S)
<1>1. a \in T
  BY DEF Answers
<1>2. TakesKeep(T, D, l)
  <2>1. SUFFICES ASSUME NEW y \in T, NEW x \in D PROVE SendMode(y, {Change(FALSE, l, x)}) \in T
    BY DEF TakesKeep
  <2>2. y \in Sides /\ y.chan.on # {} /\ Answers(a, y) /\ x \in Everyone /\ x \in Users
    BY DEF Answers, Everyone
  <2>3. Answers(y, SendMode(y, {Change(FALSE, l, x)}))
    BY <2>2, Taking
  <2>4. Answers(a, SendMode(y, {Change(FALSE, l, x)}))
    BY <2>2, <2>3, AnswersTwice
  <2>5. QED
    BY <2>4 DEF Answers
<1>3. q \in Seq(D)
  <2>1. IsFiniteSet(S)
    BY ChanModesAssumption, FS_Subset
  <2>2. q \in Seq(S)
    BY <2>1, SeqOfSet
  <2>3. QED
    BY <2>2, SeqMonotonic
<1> HIDE DEF T, D, q
<1>4. TakenAll(a, q, l) \in T
  BY <1>1, <1>2, <1>3, TakeOneFolded
<1>5. Answers(a, TakenAll(a, q, l))
  BY <1>4 DEF T
<1>6. QED
  BY <1>5, AnswersAreAfter DEF q

LEMMA ManyUnbanned ==
  ASSUME NEW a \in Sides, NEW S \in SUBSET Masks, a.chan.on # {}
  PROVE  After(a, TakenAll(a, SetToSeq(S), "b"))
<1> DEFINE T == {b \in Sides : After(a, b) /\ b.chan.on = a.chan.on}
           D == Masks
           q == SetToSeq(S)
           l == "b"
<1>1. a \in T
  BY DEF After
<1>2. TakesKeep(T, D, l)
  <2>1. SUFFICES ASSUME NEW y \in T, NEW x \in D PROVE SendMode(y, {Change(FALSE, l, x)}) \in T
    BY DEF TakesKeep
  <2>2. y \in Sides /\ y.chan.on # {} /\ After(a, y) /\ y.chan.on = a.chan.on
    BY DEF After
  <2>3. After(y, SendMode(y, {Change(FALSE, l, x)})) /\ SendMode(y, {Change(FALSE, l, x)}).chan.on = a.chan.on
    BY <2>2, Unbanning
  <2>4. After(a, SendMode(y, {Change(FALSE, l, x)}))
    BY <2>2, <2>3, AfterTwice
  <2>5. QED
    BY <2>3, <2>4 DEF After
<1>3. q \in Seq(D)
  <2>1. IsFiniteSet(SUBSET Users)
    BY ChanModesAssumption, FS_SUBSET
  <2>2. S \in SUBSET (SUBSET Users)
    BY ChanModesAssumption
  <2>3. IsFiniteSet(S)
    BY <2>1, <2>2, FS_Subset
  <2>4. q \in Seq(S)
    BY <2>3, SeqOfSet
  <2>5. QED
    BY <2>4, SeqMonotonic
<1> HIDE DEF T, D, q, l
<1>4. TakenAll(a, q, l) \in T
  BY <1>1, <1>2, <1>3, TakeOneFolded
<1>5. After(a, TakenAll(a, q, l))
  BY <1>4 DEF T
<1>6. QED
  BY <1>5 DEF q, l

LEMMA ManyKicked ==
  ASSUME NEW a \in Sides, NEW S \in SUBSET Users
  PROVE  After(a, FoldLeft(Kick, a, SetToSeq(S)))
<1> DEFINE T == {b \in Sides : After(a, b)}
           D == Users
           q == SetToSeq(S)
<1>1. a \in T
  BY DEF After
<1>2. \A y \in T, x \in D : Kick(y, x) \in T
  <2>1. SUFFICES ASSUME NEW y \in T, NEW x \in D PROVE Kick(y, x) \in T
    OBVIOUS
  <2>2. y \in Sides /\ After(a, y)
    OBVIOUS
  <2>3. After(y, Kick(y, x))
    BY <2>2, Kicking
  <2>4. After(a, Kick(y, x))
    BY <2>2, <2>3, AfterTwice
  <2>5. QED
    BY <2>4 DEF After
<1>3. q \in Seq(D)
  <2>1. IsFiniteSet(S)
    BY ChanModesAssumption, FS_Subset
  <2>2. q \in Seq(S)
    BY <2>1, SeqOfSet
  <2>3. QED
    BY <2>2, SeqMonotonic
<1> HIDE DEF T, D, q
<1>4. FoldLeft(Kick, a, q) \in T
  BY <1>1, <1>2, <1>3, KickFolded
<1>5. QED
  BY <1>4 DEF T, q

-----------------------------------------------------------------------------
(* Every command is answered, kicks nobody in silence and forgets no ban   *)
(* without a line.                                                         *)

Commands ==
  \E s \in Users :
    \/ ClearOps(s) \/ ClearVoices(s) \/ ClearUsers(s) \/ ClearBans(s) \/ ClearModes(s)
    \/ Unban(s)
    \/ \E t \in Everyone :
         \/ Op(s, t) \/ DeopCommand(s, t) \/ VoiceCommand(s, t) \/ KickCommand(s, t)
         \/ OpTrigger(s, t) \/ VoiceTrigger(s, t) \/ KickTrigger(s, t)

CommandDone == \E side : Command(side) /\ After(Here, side)

LEMMA HereIsSide ==
  ASSUME mirror \in Sound, BotAdmin(mirror)
  PROVE  Here \in Sides /\ Here.chan = mirror /\ Here.sent = <<>>
BY NothingSent DEF Here, Side, Sides

LEMMA NotBot ==
  ASSUME mirror \in Sound, BotAdmin(mirror), NEW t \in Everyone, OnChan(mirror, t), "a" \notin mirror.status[t]
  PROVE  t \in Users
BY DEF BotAdmin, OnChan, Everyone

LEMMA Occupants ==
  ASSUME NEW t, OnChan(mirror, t)
  PROVE  mirror.on # {}
BY DEF OnChan

LEMMA AnsweredCommand ==
  ASSUME NEW side, Command(side), Answers(Here, side)
  PROVE  CommandDone
BY AnswersAreAfter, Zenon DEF CommandDone

LEMMA OpDone ==
  ASSUME mirror \in Sound, BotAdmin(mirror), NEW s \in Users, NEW t \in Everyone, Op(s, t)
  PROVE  CommandDone
<1> DEFINE side == SendMode(Here, {Change(TRUE, "o", t)})
<1>1. Command(side) /\ OnChan(mirror, t)
  BY DEF Op
<1>2. "o" \in Statuses
  BY DEF Statuses
<1>3. Answers(Here, side)
  BY <1>1, <1>2, HereIsSide, Occupants, Giving
<1> HIDE DEF side
<1>4. QED
  BY <1>1, <1>3, AnsweredCommand, Zenon

LEMMA DeopDone ==
  ASSUME mirror \in Sound, BotAdmin(mirror), NEW s \in Users, NEW t \in Everyone, DeopCommand(s, t)
  PROVE  CommandDone
<1> DEFINE side == SendMode(Here, {Change(FALSE, "o", t)})
<1>1. Command(side) /\ OnChan(mirror, t) /\ "a" \notin mirror.status[t]
  BY DEF DeopCommand, Deop
<1>2. t \in Users
  BY <1>1, NotBot
<1>3. Answers(Here, side)
  BY <1>1, <1>2, HereIsSide, Occupants, Taking
<1> HIDE DEF side
<1>4. QED
  BY <1>1, <1>3, AnsweredCommand, Zenon

LEMMA VoiceDone ==
  ASSUME mirror \in Sound, BotAdmin(mirror), NEW s \in Users, NEW t \in Everyone, VoiceCommand(s, t)
  PROVE  CommandDone
<1> DEFINE give == SendMode(Here, {Change(TRUE, "v", t)})
           take == SendMode(Here, {Change(FALSE, "v", t)})
<1>1. (Command(give) \/ Command(take)) /\ OnChan(mirror, t)
  BY DEF VoiceCommand
<1>2. "v" \in Statuses
  BY DEF Statuses
<1>3. Answers(Here, give)
  BY <1>1, <1>2, HereIsSide, Occupants, Giving
<1>4. Answers(Here, take)
  BY <1>1, HereIsSide, Occupants, Taking
<1> HIDE DEF give, take
<1>5. CASE Command(give)
  BY <1>3, <1>5, AnsweredCommand, Zenon
<1>6. CASE Command(take)
  BY <1>4, <1>6, AnsweredCommand, Zenon
<1>7. QED
  BY <1>1, <1>5, <1>6

LEMMA KickDone ==
  ASSUME mirror \in Sound, BotAdmin(mirror), NEW s \in Users, NEW t \in Everyone, KickCommand(s, t)
  PROVE  CommandDone
<1> DEFINE side == Kick(Here, t)
<1>1. Command(side) /\ OnChan(mirror, t) /\ "a" \notin mirror.status[t]
  BY DEF KickCommand
<1>2. t \in Users
  BY <1>1, NotBot
<1>3. After(Here, side)
  BY <1>2, HereIsSide, Kicking
<1> HIDE DEF side
<1>4. QED
  BY <1>1, <1>3, Zenon DEF CommandDone

LEMMA ClearModesDone ==
  ASSUME mirror \in Sound, BotAdmin(mirror), NEW s \in Users, ClearModes(s)
  PROVE  CommandDone
<1> DEFINE L == (FlagModes \ {"r"}) \union Params
           f == [x \in L |-> Change(FALSE, x, NoValue)]
           S == {f[x] : x \in L}
           one == SendMode(Here, S)
           side == LockApply(one)
<1>1. mirror.on # {} /\ Command(side)
  <2>1. S = {Change(FALSE, l, NoValue) : l \in (FlagModes \ {"r"}) \union Params}
    OBVIOUS
  <2> HIDE DEF S
  <2>2. QED
    BY <2>1 DEF ClearModes
<1>2. S \in SUBSET Settings
  BY LineTypes
<1>3. IsFiniteSet(L)
  <2>1. IsFiniteSet(FlagModes) /\ IsFiniteSet(Params)
    BY ChanModesAssumption
  <2>2. IsFiniteSet(FlagModes \union Params) /\ L \in SUBSET (FlagModes \union Params)
    BY <2>1, FS_Union
  <2> HIDE DEF L
  <2>3. QED
    BY <2>2, FS_Subset
<1> HIDE DEF L, f
<1>4. IsFiniteSet(S)
  BY <1>3, ImageFinite
<1> HIDE DEF S
<1>5. Answers(Here, one)
  BY <1>1, <1>2, <1>4, HereIsSide, SettingsAreLines, SendingAnswers
<1> HIDE DEF one
<1>6. one \in Sides /\ one.chan.on # {}
  BY <1>1, <1>5, HereIsSide DEF Answers
<1>7. Answers(one, side)
  BY <1>6, Locking
<1> HIDE DEF side
<1>8. Answers(Here, side)
  BY <1>5, <1>7, AnswersTwice
<1>9. QED
  BY <1>1, <1>8, AnsweredCommand, Zenon

LEMMA ClearOpsDone ==
  ASSUME mirror \in Sound, BotAdmin(mirror), NEW s \in Users, ClearOps(s)
  PROVE  CommandDone
<1> DEFINE S == {u \in (mirror.on \intersect Users) \ {s} : "o" \in mirror.status[u]}
           side == TakenAll(Here, SetToSeq(S), "o")
<1>1. mirror.on # {} /\ Command(side)
  BY DEF ClearOps, Deop, TakenAll
<1>2. S \in SUBSET Users
  OBVIOUS
<1> HIDE DEF S
<1>3. After(Here, side)
  BY <1>1, <1>2, HereIsSide, ManyTaken
<1> HIDE DEF side
<1>4. QED
  BY <1>1, <1>3, Zenon DEF CommandDone

LEMMA ClearVoicesDone ==
  ASSUME mirror \in Sound, BotAdmin(mirror), NEW s \in Users, ClearVoices(s)
  PROVE  CommandDone
<1> DEFINE S == {u \in (mirror.on \intersect Users) \ {s} : "v" \in mirror.status[u]}
           side == TakenAll(Here, SetToSeq(S), "v")
<1>1. mirror.on # {} /\ Command(side)
  BY DEF ClearVoices, TakenAll
<1>2. S \in SUBSET Users
  OBVIOUS
<1> HIDE DEF S
<1>3. After(Here, side)
  BY <1>1, <1>2, HereIsSide, ManyTaken
<1> HIDE DEF side
<1>4. QED
  BY <1>1, <1>3, Zenon DEF CommandDone

LEMMA ClearUsersDone ==
  ASSUME mirror \in Sound, BotAdmin(mirror), NEW s \in Users, ClearUsers(s)
  PROVE  CommandDone
<1> DEFINE S == (mirror.on \intersect Users) \ {s}
           side == FoldLeft(Kick, Here, SetToSeq(S))
<1>1. Command(side)
  BY DEF ClearUsers
<1>2. S \in SUBSET Users
  OBVIOUS
<1> HIDE DEF S
<1>3. After(Here, side)
  BY <1>2, HereIsSide, ManyKicked
<1> HIDE DEF side
<1>4. QED
  BY <1>1, <1>3, Zenon DEF CommandDone

LEMMA UnbansDone ==
  ASSUME mirror \in Sound, BotAdmin(mirror), NEW s \in Users, Unban(s) \/ ClearBans(s)
  PROVE  CommandDone
<1> DEFINE some == {m \in mirror.bans : s \in m}
           side(S) == TakenAll(Here, SetToSeq(S), "b")
<1>1. mirror.on # {} /\ (Command(side(some)) \/ Command(side(mirror.bans)))
  BY DEF Unban, ClearBans, Unbanned, TakenAll
<1>2. some \in SUBSET Masks /\ mirror.bans \in SUBSET Masks
  BY DEF Sound, Channels
<1>3. ASSUME NEW S \in SUBSET Masks, Command(side(S)) PROVE CommandDone
  <2>1. After(Here, side(S))
    BY <1>1, HereIsSide, ManyUnbanned
  <2> DEFINE b == side(S)
  <2>2. Command(b) /\ After(Here, b)
    BY <1>3, <2>1
  <2> HIDE DEF b
  <2>3. QED
    BY <2>2, Zenon DEF CommandDone
<1> HIDE DEF some, side
<1>4. QED
  BY <1>1, <1>2, <1>3

LEMMA CommandsDone ==
  ASSUME mirror \in Sound, BotAdmin(mirror), Commands
  PROVE  CommandDone
<1>1. PICK s \in Users :
        \/ ClearOps(s) \/ ClearVoices(s) \/ ClearUsers(s) \/ ClearBans(s) \/ ClearModes(s)
        \/ Unban(s)
        \/ \E t \in Everyone :
             \/ Op(s, t) \/ DeopCommand(s, t) \/ VoiceCommand(s, t) \/ KickCommand(s, t)
             \/ OpTrigger(s, t) \/ VoiceTrigger(s, t) \/ KickTrigger(s, t)
  BY DEF Commands
<1>2. CASE \E t \in Everyone :
             \/ Op(s, t) \/ DeopCommand(s, t) \/ VoiceCommand(s, t) \/ KickCommand(s, t)
             \/ OpTrigger(s, t) \/ VoiceTrigger(s, t) \/ KickTrigger(s, t)
  <2>1. PICK t \in Everyone :
          Op(s, t) \/ DeopCommand(s, t) \/ VoiceCommand(s, t) \/ KickCommand(s, t)
    BY <1>2 DEF OpTrigger, VoiceTrigger, KickTrigger
  <2>2. QED
    BY <2>1, OpDone, DeopDone, VoiceDone, KickDone
<1>3. QED
  BY <1>1, <1>2, ClearOpsDone, ClearVoicesDone, ClearUsersDone, UnbansDone, ClearModesDone

-----------------------------------------------------------------------------
(* Where the queue of the daemon leads: whom services hold for a member when*)
(* they come to a line.                                                    *)

IsJoin(line, m) == line.type = "sjoin" /\ line.user = m

\* Services will hold m for a member when they come to line j of s.
Reaches(on, s, j, m) ==
  \/ m \in on /\ \A k \in 1..j - 1 : s[k] # Leaves(m)
  \/ \E i \in 1..j - 1 : IsJoin(s[i], m) /\ \A k \in i + 1..j - 1 : s[k] # Leaves(m)

LEMMA AppendedParts ==
  ASSUME NEW S, NEW s \in Seq(S), NEW x \in S
  PROVE  /\ Append(s, x) \in Seq(S) /\ Len(s) \in Nat /\ Len(Append(s, x)) = Len(s) + 1
         /\ \A k \in 1..Len(s) : Append(s, x)[k] = s[k]
         /\ Append(s, x)[Len(s) + 1] = x
BY AppendProperties, LenProperties

LEMMA TailParts ==
  ASSUME NEW S, NEW s \in Seq(S), s # <<>>
  PROVE  /\ Tail(s) \in Seq(S) /\ Len(s) \in Nat /\ Len(s) >= 1 /\ Len(Tail(s)) = Len(s) - 1
         /\ Head(s) = s[1] /\ Head(s) \in S
         /\ \A k \in 1..Len(Tail(s)) : Tail(s)[k] = s[k + 1]
<1>1. /\ Tail(s) \in Seq(S) /\ Len(Tail(s)) = Len(s) - 1 /\ Head(s) \in S
      /\ \A k \in 1..Len(Tail(s)) : Tail(s)[k] = s[k + 1]
  BY HeadTailProperties
<1>2. Len(s) \in Nat /\ Len(s) >= 1
  BY EmptySeq
<1>3. Head(s) = s[1]
  BY DEF Head
<1>4. QED
  BY <1>1, <1>2, <1>3

LEMMA ReachesLater ==
  ASSUME NEW n \in Nat, NEW s, NEW w, \A k \in 1..n : w[k] = s[k],
         NEW on, NEW m, NEW j \in 1..n + 1, Reaches(on, s, j, m)
  PROVE  Reaches(on, w, j, m)
<1>1. \A k \in 1..j - 1 : w[k] = s[k]
  OBVIOUS
<1> DEFINE lm == Leaves(m)
<1>2. CASE m \in on /\ \A k \in 1..j - 1 : s[k] # lm
  BY <1>1, <1>2 DEF Reaches
<1>3. ASSUME NEW i \in 1..j - 1, IsJoin(s[i], m), \A k \in i + 1..j - 1 : s[k] # lm
      PROVE  Reaches(on, w, j, m)
  <2>1. IsJoin(w[i], m)
    BY <1>1, <1>3
  <2>2. \A k \in i + 1..j - 1 : k \in 1..j - 1
    OBVIOUS
  <2>3. \A k \in i + 1..j - 1 : w[k] # lm
    BY <1>1, <1>3, <2>2
  <2>4. QED
    BY <2>1, <2>3 DEF Reaches
<1>4. QED
  BY <1>2, <1>3 DEF Reaches

LEMMA ReachesOn ==
  ASSUME NEW s, NEW on, NEW now, NEW m, NEW j, Reaches(on, s, j, m), m \in on => m \in now
  PROVE  Reaches(now, s, j, m)
BY DEF Reaches

LEMMA ReachesEnd ==
  ASSUME NEW n \in Nat, NEW s, NEW x, s[n + 1] = x, NEW on, NEW m, Reaches(on, s, n + 1, m), x # Leaves(m)
  PROVE  Reaches(on, s, n + 2, m)
<1> DEFINE lm == Leaves(m)
           a == n + 1
           b == n + 2
<1>1. a - 1 = n /\ b - 1 = n + 1
  OBVIOUS
<1>2. CASE m \in on /\ \A k \in 1..a - 1 : s[k] # lm
  <2>1. \A k \in 1..b - 1 : s[k] # lm
    <3>1. \A k \in 1..b - 1 : k \in 1..a - 1 \/ k = n + 1
      BY <1>1
    <3>2. QED
      BY <1>2, <3>1
  <2>2. QED
    BY <1>2, <2>1 DEF Reaches
<1>3. ASSUME NEW i \in 1..a - 1, IsJoin(s[i], m), \A k \in i + 1..a - 1 : s[k] # lm
      PROVE  Reaches(on, s, b, m)
  <2>1. \A k \in i + 1..b - 1 : k \in i + 1..a - 1 \/ k = n + 1
    BY <1>1
  <2>2. \A k \in i + 1..b - 1 : s[k] # lm
    BY <1>3, <2>1
  <2>3. i \in 1..b - 1
    BY <1>1
  <2>4. QED
    BY <1>3, <2>2, <2>3 DEF Reaches
<1>4. QED
  BY <1>2, <1>3 DEF Reaches

LEMMA ReachesJoined ==
  ASSUME NEW n \in Nat, NEW s, NEW on, NEW m, IsJoin(s[n + 1], m)
  PROVE  Reaches(on, s, n + 2, m)
<1> DEFINE i == n + 1
           b == n + 2
<1>1. i \in 1..b - 1 /\ i + 1..b - 1 = {}
  OBVIOUS
<1> HIDE DEF b
<1>2. IsJoin(s[i], m) /\ \A k \in i + 1..b - 1 : s[k] # Leaves(m)
  BY <1>1
<1> HIDE DEF i
<1>3. Reaches(on, s, b, m)
  BY <1>1, <1>2 DEF Reaches
<1>4. QED
  BY <1>3 DEF b

LEMMA ReachesRead ==
  ASSUME NEW n \in Nat, NEW s, NEW w, \A k \in 1..n : w[k] = s[k + 1],
         NEW on, NEW now, NEW m, m \in on /\ s[1] # Leaves(m) => m \in now, IsJoin(s[1], m) => m \in now,
         NEW j \in 1..n + 1, Reaches(on, s, j + 1, m)
  PROVE  Reaches(now, w, j, m)
<1> DEFINE lm == Leaves(m)
           b == j + 1
<1>1. b - 1 = j
  OBVIOUS
<1>2. \A k \in 1..j - 1 : w[k] = s[k + 1] /\ k + 1 \in 1..j
  OBVIOUS
<1> HIDE DEF lm
<1>3. CASE m \in on /\ \A k \in 1..j : s[k] # lm
  <2>1. 1 \in 1..j
    OBVIOUS
  <2>2. m \in now
    BY <1>3, <2>1 DEF lm
  <2>3. \A k \in 1..j - 1 : w[k] # lm
    BY <1>2, <1>3
  <2>4. QED
    BY <2>2, <2>3 DEF Reaches, lm
<1>4. ASSUME NEW i \in 1..j, IsJoin(s[i], m), \A k \in i + 1..j : s[k] # lm
      PROVE  Reaches(now, w, j, m)
  <2>1. CASE i = 1
    <3>1. m \in now
      BY <1>4, <2>1
    <3>2. \A k \in 1..j - 1 : k + 1 \in i + 1..j
      BY <2>1
    <3>3. \A k \in 1..j - 1 : w[k] # lm
      BY <1>2, <1>4, <3>2
    <3>4. QED
      BY <3>1, <3>3 DEF Reaches, lm
  <2>2. CASE i # 1
    <3> DEFINE h == i - 1
    <3>1. h \in 1..j - 1 /\ h + 1 = i
      BY <2>2
    <3>2. w[h] = s[i]
      BY <1>2, <3>1
    <3>3. \A k \in h + 1..j - 1 : k \in 1..j - 1 /\ k + 1 \in i + 1..j
      BY <3>1
    <3> HIDE DEF h
    <3>4. \A k \in h + 1..j - 1 : w[k] # lm
      BY <1>2, <1>4, <3>3
    <3>5. IsJoin(w[h], m)
      BY <1>4, <3>2
    <3>6. QED
      BY <3>1, <3>4, <3>5 DEF Reaches, lm
  <2>3. QED
    BY <2>1, <2>2
<1>5. Reaches(on, s, b, m)
  OBVIOUS
<1> HIDE DEF b
<1>6. (m \in on /\ \A k \in 1..j : s[k] # lm) \/ (\E i \in 1..j : IsJoin(s[i], m) /\ \A k \in i + 1..j : s[k] # lm)
  BY <1>1, <1>5 DEF Reaches, lm
<1>7. QED
  BY <1>3, <1>4, <1>6

-----------------------------------------------------------------------------
(* The invariant of the ops, and the commands.                             *)

(* The two sides and the lines between them.                               *)
SidesOK ==
  /\ real \in Sound /\ mirror \in Sound /\ BotAdmin(mirror)
  /\ up \in Seq(UpLines) /\ down \in Seq(DownLines)
  /\ OpsTakenBack(down) /\ Permitted(down)

MemberKnown(m) == Contains(down, Kicked(m)) \/ Reaches(mirror.on, up, Len(up) + 1, m)

OpAnswer(j, u) ==
  \/ IsJoin(up[j], u) /\ "o" \in up[j].status
  \/ up[j] = Give("o", u) /\ Reaches(mirror.on, up, j, u)

OpGoes(u) ==
  \/ Contains(down, Take("o", u)) \/ Contains(down, Kicked(u))
  \/ \E j \in 1..Len(up) : OpAnswer(j, u)

BotOp ==
  Bot \in real.on =>
    "o" \in real.status[Bot] \/ Contains(up, Take("o", Bot)) \/ Contains(down, Give("o", Bot))

OpsInv ==
  /\ SidesOK
  /\ \A m \in real.on : MemberKnown(m)
  /\ SecureOps => \A u \in Users \ Roled : "o" \in real.status[u] => OpGoes(u)
  /\ BotOp

LEMMA SoundParts ==
  ASSUME NEW c \in Sound
  PROVE  /\ c.on \subseteq Everyone /\ \A m \in Everyone : c.status[m] # {} => m \in c.on
         /\ c.bans \subseteq Masks /\ (c.bans # {} => c.on # {})
BY DEF Sound, Channels

LEMMA UpLineKinds ==
  ASSUME NEW x \in UpLines
  PROVE  \/ \E S \in LineChanges : x = Mode(S)
         \/ \E m \in Everyone : x = Leaves(m)
         \/ \E u \in Users, st \in SUBSET {"o"}, md \in SUBSET FlagModes : x = Sjoin(u, st, md)
BY DEF UpLines, ModeLines

LEMMA Joiners ==
  /\ \A S, m : ~IsJoin(Mode(S), m)
  /\ \A v, m : ~IsJoin(Leaves(v), m)
  /\ \A u, st, md, m : IsJoin(Sjoin(u, st, md), m) <=> m = u
  /\ \A u, st, md, m : Sjoin(u, st, md) # Leaves(m)
  /\ \A m, v : Leaves(m) = Leaves(v) => m = v
<1>1. \A m, v : Leaves(m) = Leaves(v) => m = v
  <2>1. SUFFICES ASSUME NEW m, NEW v, Leaves(m) = Leaves(v) PROVE m = v
    OBVIOUS
  <2>2. Leaves(m).user = Leaves(v).user
    BY <2>1
  <2>3. QED
    BY <2>2 DEF Leaves
<1>2. QED
  BY <1>1 DEF IsJoin, Mode, Leaves, Sjoin

LEMMA BotNeverJoins ==
  ASSUME NEW s \in Seq(UpLines), NEW on, Reaches(on, s, Len(s) + 1, Bot)
  PROVE  Bot \in on
<1>1. ASSUME NEW i \in 1..Len(s) PROVE ~IsJoin(s[i], Bot)
  <2>1. s[i] \in UpLines
    BY ElementOfSeq
  <2>2. Bot \notin Users
    BY ChanModesAssumption
  <2>3. QED
    BY <2>1, <2>2, UpLineKinds, Joiners
<1> DEFINE n == Len(s) + 1
<1>2. n - 1 = Len(s)
  BY LenProperties
<1> HIDE DEF n
<1>3. Reaches(on, s, n, Bot)
  BY DEF n
<1>4. QED
  BY <1>1, <1>2, <1>3 DEF Reaches

(* A command.                                                              *)
LEMMA CommandKeepsOps ==
  ASSUME OpsInv, NEW side, Command(side), After(Here, side)
  PROVE  OpsInv'
<1>1. SidesOK /\ real' = real /\ up' = up /\ mirror' = side.chan /\ down' = down \o side.sent
  BY DEF OpsInv, Command, Services
<1>2. /\ side \in Sides /\ side.chan \in Sound /\ BotAdmin(side.chan)
      /\ side.sent \in Seq(DownLines) /\ OpsTakenBack(side.sent) /\ Permitted(side.sent)
  BY DEF After, Sides
<1>3. \A m \in mirror.on : m \in side.chan.on \/ Contains(side.sent, Kicked(m))
  <2>1. Here.chan = mirror
    BY DEF Here, Side
  <2>2. QED
    BY <2>1 DEF After
<1>4. /\ down' \in Seq(DownLines)
      /\ \A x : Contains(down', x) <=> Contains(down, x) \/ Contains(side.sent, x)
  BY <1>1, <1>2, ContainsJoined, Joined DEF SidesOK
<1>5. OpsTakenBack(down')
  <2>1. SecureOps => \A u \in Users \ Roled : \A i \in 1..Len(down) : down[i] = Give("o", u) =>
            (\E k \in i + 1..Len(down) : down[k] = Take("o", u)) \/ Contains(side.sent, Take("o", u))
    BY <1>1, Zenon DEF OpsTakenBack, SidesOK
  <2>2. OpsTakenBack(down \o side.sent)
    BY <1>1, <1>2, <2>1, TakenBackJoined DEF SidesOK
  <2>3. QED
    BY <1>1, <2>2
<1>6. Permitted(down')
  BY <1>1, <1>2, <1>4 DEF Permitted, SidesOK
<1>7. SidesOK'
  BY <1>1, <1>2, <1>4, <1>5, <1>6 DEF SidesOK
<1>8. ASSUME NEW j, NEW m, Reaches(mirror.on, up, j, m)
      PROVE  Reaches(mirror'.on, up', j, m) \/ Contains(down', Kicked(m))
  <2>1. CASE m \in mirror.on => m \in mirror'.on
    BY <1>1, <1>8, <2>1, ReachesOn
  <2>2. CASE m \in mirror.on /\ m \notin mirror'.on
    BY <1>1, <1>3, <1>4, <2>2
  <2>3. QED
    BY <2>1, <2>2
<1>9. \A m \in real'.on : MemberKnown(m)'
  BY <1>1, <1>4, <1>8 DEF OpsInv, MemberKnown
<1>10. ASSUME SecureOps, NEW u \in Users \ Roled, "o" \in real'.status[u] PROVE OpGoes(u)'
  <2>1. OpGoes(u)
    BY <1>1, <1>10 DEF OpsInv
  <2>2. ASSUME NEW j \in 1..Len(up), OpAnswer(j, u) PROVE OpAnswer(j, u)' \/ Contains(down', Kicked(u))
    BY <1>1, <1>8, <2>2 DEF OpAnswer
  <2>3. QED
    BY <1>1, <1>4, <2>1, <2>2 DEF OpGoes
<1>11. BotOp'
  BY <1>1, <1>4 DEF OpsInv, BotOp
<1>12. QED
  BY <1>7, <1>9, <1>10, <1>11 DEF OpsInv

-----------------------------------------------------------------------------
(* Services read a line.                                                   *)

\* What services make of a line they read.
Reads(line, h) ==
  /\ h \in Sides
  /\ \A m : m \in mirror.on /\ line # Leaves(m) => m \in h.chan.on
  /\ \A m : IsJoin(line, m) => m \in h.chan.on
  /\ \A u \in Users \ Roled : IsJoin(line, u) /\ "o" \in line.status => Contains(h.sent, Take("o", u))
  /\ \A u \in Users \ Roled : SecureOps /\ mirror.on # {} /\ line = Give("o", u) => Contains(h.sent, Take("o", u))
  /\ mirror.on # {} /\ line = Take("o", Bot) => Contains(h.sent, Give("o", Bot))
  /\ \A m : ~Contains(h.sent, Kicked(m))
  /\ \A S \in LineChanges : line = Mode(S) /\ mirror.on # {} => BansChanged(S, mirror.bans, h.chan.bans)
  /\ (\A S \in LineChanges : line # Mode(S)) /\ h.chan.on # {} => h.chan.bans = mirror.bans

LEMMA ReadsLine ==
  ASSUME mirror \in Sound, BotAdmin(mirror), NEW line \in UpLines
  PROVE  Reads(line, Handled(line))
<1> DEFINE h == Handled(line)
<1>1. ASSUME NEW S \in LineChanges, line = Mode(S) PROVE Reads(line, h)
  <2>1. /\ h \in Sides /\ h.chan.on = mirror.on
        /\ mirror.on # {} => BansChanged(S, mirror.bans, h.chan.bans)
        /\ \A m : ~Contains(h.sent, Kicked(m))
        /\ \A u \in Users \ Roled : SecureOps /\ mirror.on # {} /\ line = Give("o", u) =>
             Contains(h.sent, Take("o", u))
        /\ mirror.on # {} /\ line = Take("o", Bot) => Contains(h.sent, Give("o", Bot))
    BY <1>1, ModeHandled
  <2> HIDE DEF h
  <2>2. \A m : ~IsJoin(line, m)
    BY <1>1, Joiners
  <2>3. \A T \in LineChanges : line = Mode(T) => T = S
    BY <1>1, ModesSame
  <2>4. QED
    BY <1>1, <2>1, <2>2, <2>3 DEF Reads
<1>2. ASSUME NEW m \in Everyone, line = Leaves(m) PROVE Reads(line, h)
  <2>1. /\ h \in Sides /\ h.chan.on = mirror.on \ {m}
        /\ (h.chan.on # {} => h.chan.bans = mirror.bans) /\ h.sent = <<>>
    BY <1>2, LeaveHandled
  <2> HIDE DEF h
  <2>2. \A v : ~IsJoin(line, v)
    BY <1>2, Joiners
  <2>3. \A S : line # Mode(S)
    BY <1>2, OneChange
  <2>4. \A u : line # Give("o", u) /\ line # Take("o", u)
    BY <2>3 DEF Give, Take
  <2>5. \A v : ~Contains(h.sent, Kicked(v))
    BY <2>1, NothingSent
  <2>6. QED
    BY <1>2, <2>1, <2>2, <2>3, <2>4, <2>5 DEF Reads
<1>3. ASSUME NEW u \in Users, NEW st \in SUBSET {"o"}, NEW md \in SUBSET FlagModes, line = Sjoin(u, st, md)
      PROVE  Reads(line, h)
  <2>1. /\ h \in Sides /\ h.chan.on = mirror.on \union {u} /\ h.chan.bans = mirror.bans
        /\ \A m : ~Contains(h.sent, Kicked(m))
        /\ u \notin Roled /\ "o" \in st => Contains(h.sent, Take("o", u))
    BY <1>3, JoinHandled
  <2> HIDE DEF h
  <2>2. \A v : IsJoin(line, v) <=> v = u
    BY <1>3, Joiners
  <2>3. line.status = st /\ \A S : line # Mode(S)
    BY <1>3 DEF Sjoin, Mode
  <2>4. \A v : line # Give("o", v) /\ line # Take("o", v)
    BY <2>3 DEF Give, Take
  <2>5. QED
    BY <2>1, <2>2, <2>3, <2>4 DEF Reads
<1> HIDE DEF h
<1>4. Reads(line, h)
  BY <1>1, <1>2, <1>3, UpLineKinds
<1>5. QED
  BY <1>4 DEF h

LEMMA ReceiveKeepsOps ==
  ASSUME OpsInv, Receive
  PROVE  OpsInv'
<1> DEFINE line == Head(up)
           h == Handled(line)
           n == Len(up')
<1>1. /\ SidesOK /\ up # <<>> /\ up' = Tail(up) /\ real' = real
      /\ mirror' = h.chan /\ down' = down \o h.sent
  BY DEF OpsInv, Receive, Services
<1>2. /\ up' \in Seq(UpLines) /\ n \in Nat /\ Len(up) = n + 1 /\ line = up[1] /\ line \in UpLines
      /\ \A k \in 1..n : up'[k] = up[k + 1]
  <2>1. up \in Seq(UpLines)
    BY <1>1 DEF SidesOK
  <2>2. /\ Tail(up) \in Seq(UpLines) /\ Len(up) \in Nat /\ Len(up) >= 1 /\ Len(Tail(up)) = Len(up) - 1
        /\ Head(up) = up[1] /\ Head(up) \in UpLines
        /\ \A k \in 1..Len(Tail(up)) : Tail(up)[k] = up[k + 1]
    BY <1>1, <2>1, TailParts
  <2>3. Len(Tail(up)) = n
    BY <1>1
  <2> HIDE DEF n
  <2>4. QED
    BY <1>1, <2>2, <2>3
<1>3. Reads(line, h)
  BY <1>1, <1>2, ReadsLine DEF SidesOK
<1> HIDE DEF line, h, n
<1>4. /\ h \in Sides /\ h.chan \in Sound /\ BotAdmin(h.chan)
      /\ h.sent \in Seq(DownLines) /\ OpsTakenBack(h.sent) /\ Permitted(h.sent)
  BY <1>3 DEF Reads, Sides
<1>5. /\ down' \in Seq(DownLines)
      /\ \A x : Contains(down', x) <=> Contains(down, x) \/ Contains(h.sent, x)
  BY <1>1, <1>4, ContainsJoined, Joined DEF SidesOK
<1>6. OpsTakenBack(down')
  <2>1. SecureOps => \A u \in Users \ Roled : \A i \in 1..Len(down) : down[i] = Give("o", u) =>
            (\E k \in i + 1..Len(down) : down[k] = Take("o", u)) \/ Contains(h.sent, Take("o", u))
    BY <1>1, Zenon DEF OpsTakenBack, SidesOK
  <2>2. OpsTakenBack(down \o h.sent)
    BY <1>1, <1>4, <2>1, TakenBackJoined DEF SidesOK
  <2>3. QED
    BY <1>1, <2>2
<1>7. Permitted(down')
  BY <1>1, <1>4, <1>5 DEF Permitted, SidesOK
<1>8. SidesOK'
  BY <1>1, <1>2, <1>4, <1>5, <1>6, <1>7 DEF SidesOK
<1>9. ASSUME NEW j \in 1..n + 1, NEW m, Reaches(mirror.on, up, j + 1, m)
      PROVE  Reaches(mirror'.on, up', j, m)
  <2>1. m \in mirror.on /\ up[1] # Leaves(m) => m \in mirror'.on
    BY <1>1, <1>2, <1>3 DEF Reads
  <2>2. IsJoin(up[1], m) => m \in mirror'.on
    BY <1>1, <1>2, <1>3 DEF Reads
  <2>3. QED
    BY <1>2, <1>9, <2>1, <2>2, ReachesRead
<1>10. \A m \in real'.on : MemberKnown(m)'
  <2>1. n + 1 \in 1..n + 1
    BY <1>2
  <2>2. SUFFICES ASSUME NEW m \in real.on PROVE MemberKnown(m)'
    BY <1>1
  <2>3. Contains(down, Kicked(m)) \/ Reaches(mirror.on, up, (n + 1) + 1, m)
    BY <1>2, <2>2 DEF OpsInv, MemberKnown
  <2>4. Contains(down', Kicked(m)) \/ Reaches(mirror'.on, up', n + 1, m)
    BY <1>5, <1>9, <2>1, <2>3
  <2>5. QED
    BY <2>4 DEF MemberKnown, n
<1>11. ASSUME SecureOps, NEW u \in Users \ Roled, "o" \in real'.status[u] PROVE OpGoes(u)'
  <2>1. OpGoes(u)
    BY <1>1, <1>11 DEF OpsInv
  <2>2. ASSUME OpAnswer(1, u) PROVE Contains(h.sent, Take("o", u))
    <3>1. CASE IsJoin(line, u) /\ "o" \in line.status
      BY <1>3, <3>1 DEF Reads
    <3>2. CASE line = Give("o", u) /\ Reaches(mirror.on, up, 1, u)
      <4>1. 1..1 - 1 = {}
        OBVIOUS
      <4>2. u \in mirror.on
        BY <3>2, <4>1 DEF Reaches
      <4>3. QED
        BY <1>3, <1>11, <3>2, <4>2 DEF Reads
    <3>3. QED
      BY <1>2, <2>2, <3>1, <3>2 DEF OpAnswer
  <2>3. ASSUME NEW j \in 1..n, OpAnswer(j + 1, u) PROVE OpAnswer(j, u)'
    <3>1. up'[j] = up[j + 1] /\ j \in 1..n + 1
      BY <1>2
    <3>2. QED
      BY <1>9, <2>3, <3>1 DEF OpAnswer
  <2>4. ASSUME NEW i \in 1..Len(up), OpAnswer(i, u) PROVE OpAnswer(1, u) \/ \E j \in 1..n : OpAnswer(j + 1, u)
    <3>1. i = 1 \/ (i - 1 \in 1..n /\ (i - 1) + 1 = i)
      BY <1>2
    <3>2. QED
      BY <2>4, <3>1
  <2>5. Contains(down', Take("o", u)) \/ Contains(down', Kicked(u)) \/ \E j \in 1..n : OpAnswer(j, u)'
    BY <1>5, <2>1, <2>2, <2>3, <2>4 DEF OpGoes
  <2>6. QED
    BY <2>5 DEF OpGoes, n
<1>12. BotOp'
  <2>1. SUFFICES ASSUME Bot \in real.on
                 PROVE "o" \in real.status[Bot] \/ Contains(up', Take("o", Bot)) \/ Contains(down', Give("o", Bot))
    BY <1>1 DEF BotOp
  <2>2. Bot \in mirror.on
    <3>1. ~Contains(down, Kicked(Bot))
      BY <1>1 DEF SidesOK, Permitted
    <3>2. Reaches(mirror.on, up, Len(up) + 1, Bot)
      BY <2>1, <3>1 DEF OpsInv, MemberKnown
    <3>3. up \in Seq(UpLines)
      BY <1>1 DEF SidesOK
    <3>4. QED
      BY <3>2, <3>3, BotNeverJoins
  <2>3. ASSUME NEW i \in 1..Len(up), up[i] = Take("o", Bot)
        PROVE  Contains(up', Take("o", Bot)) \/ Contains(h.sent, Give("o", Bot))
    <3>1. CASE i = 1
      BY <1>2, <1>3, <2>2, <2>3, <3>1 DEF Reads
    <3>2. CASE i # 1
      <4>1. i - 1 \in 1..n /\ (i - 1) + 1 = i
        BY <1>2, <3>2
      <4>2. up'[i - 1] = Take("o", Bot)
        BY <1>2, <2>3, <4>1
      <4>3. QED
        BY <4>1, <4>2 DEF Contains, n
    <3>3. QED
      BY <3>1, <3>2
  <2>4. Contains(up, Take("o", Bot)) => Contains(up', Take("o", Bot)) \/ Contains(h.sent, Give("o", Bot))
    BY <2>3 DEF Contains
  <2>5. QED
    BY <1>5, <2>1, <2>4 DEF OpsInv, BotOp
<1>13. QED
  BY <1>8, <1>10, <1>11, <1>12 DEF OpsInv

-----------------------------------------------------------------------------
(* The daemon carries out a line.                                          *)

LEMMA OpApplied ==
  ASSUME NEW c \in Sound, c.on # {}, NEW S \in LineChanges, NEW m \in Everyone
  PROVE  LET d == AppliedAll(c, S)
         IN /\ "o" \in d.status[m] => "o" \in c.status[m] \/ Mode(S) = Give("o", m)
            /\ Mode(S) = Give("o", m) /\ m \in c.on => "o" \in d.status[m]
            /\ Mode(S) = Take("o", m) => "o" \notin d.status[m]
            /\ "o" \in c.status[m] /\ Mode(S) # Take("o", m) => "o" \in d.status[m]
<1> DEFINE d == AppliedAll(c, S)
           Goal == /\ "o" \in d.status[m] => "o" \in c.status[m] \/ Mode(S) = Give("o", m)
                   /\ Mode(S) = Give("o", m) /\ m \in c.on => "o" \in d.status[m]
                   /\ Mode(S) = Take("o", m) => "o" \notin d.status[m]
                   /\ "o" \in c.status[m] /\ Mode(S) # Take("o", m) => "o" \in d.status[m]
<1>1. ASSUME NEW ch \in StatusChanges, S = {ch} PROVE Goal
  <2>1. d = Applied(c, ch)
    BY <1>1, OneApplied
  <2>2. "o" \in d.status[m] <=>
          IF ch.letter = "o" /\ ch.arg = m /\ m \in c.on THEN ch.on ELSE "o" \in c.status[m]
    BY <2>1, StatusApplied
  <2>3. /\ ch = Change(ch.on, ch.letter, ch.arg) /\ ch.on \in BOOLEAN
    BY DEF StatusChanges, Changing, Change
  <2>4. Mode(S) = Give("o", m) <=> ch.on /\ ch.letter = "o" /\ ch.arg = m
    <3>1. Mode(S) = Give("o", m) <=> ch = Change(TRUE, "o", m)
      BY <1>1, OneChange DEF Give
    <3>2. ch = Change(TRUE, "o", m) <=> ch.on /\ ch.letter = "o" /\ ch.arg = m
      BY <2>3 DEF Change
    <3>3. QED
      BY <3>1, <3>2
  <2>5. Mode(S) = Take("o", m) <=> ~ch.on /\ ch.letter = "o" /\ ch.arg = m
    <3>1. Mode(S) = Take("o", m) <=> ch = Change(FALSE, "o", m)
      BY <1>1, OneChange DEF Take
    <3>2. ch = Change(FALSE, "o", m) <=> ~ch.on /\ ch.letter = "o" /\ ch.arg = m
      BY <2>3 DEF Change
    <3>3. QED
      BY <3>1, <3>2
  <2>6. "o" \in c.status[m] => m \in c.on
    BY SoundParts
  <2> HIDE DEF d
  <2>7. QED
    BY <2>2, <2>4, <2>5, <2>6
<1>2. ASSUME d.status = c.status, ~(\E ch \in StatusChanges : S = {ch}) PROVE Goal
  <2>1. Mode(S) # Give("o", m) /\ Mode(S) # Take("o", m)
    <3>1. Change(TRUE, "o", m) \in StatusChanges /\ Change(FALSE, "o", m) \in StatusChanges
      BY LineTypes DEF Statuses
    <3>2. S # {Change(TRUE, "o", m)} /\ S # {Change(FALSE, "o", m)}
      BY <1>2, <3>1
    <3>3. QED
      BY <3>2, ModesSame, Zenon DEF Give, Take
  <2> HIDE DEF d
  <2>2. QED
    BY <1>2, <2>1
<1>3. CASE S \in SUBSET Settings /\ IsFiniteSet(S)
  <2>1. d.status = c.status
    BY <1>3, SettingsApplied
  <2>2. ~\E ch \in StatusChanges : S = {ch}
    BY <1>3, LettersApart DEF Settings, StatusChanges, Changing, Statuses
  <2> HIDE DEF d, Goal
  <2>3. Goal
    BY <1>2, <2>1, <2>2
  <2>4. QED
    BY <2>3 DEF Goal, d
<1>4. ASSUME NEW ch \in BanChanges, S = {ch} PROVE Goal
  <2>1. d.status = c.status
    BY <1>4, OneApplied, BanApplied
  <2>2. ~\E x \in StatusChanges : S = {x}
    BY <1>4 DEF BanChanges, StatusChanges, Changing, Statuses
  <2> HIDE DEF d, Goal
  <2>3. QED
    BY <1>2, <2>1, <2>2
<1> HIDE DEF Goal
<1>5. Goal
  <2>1. \/ S \in SUBSET Settings /\ IsFiniteSet(S)
        \/ \E ch \in BanChanges : S = {ch}
        \/ \E ch \in StatusChanges : S = {ch}
    BY DEF LineChanges
  <2>2. (S \in SUBSET Settings /\ IsFiniteSet(S)) => Goal
    BY <1>3 DEF Goal
  <2>3. QED
    BY <1>1, <1>4, <2>1, <2>2
<1>6. QED
  BY <1>5 DEF Goal

\* What the daemon makes of a line of services.
Carries(line, r) ==
  /\ r \in Sound /\ r.on \subseteq real.on
  /\ \A m \in Everyone : line = Kicked(m) => m \notin r.on
  /\ \A m \in Everyone : "o" \in r.status[m] => "o" \in real.status[m] \/ line = Give("o", m)
  /\ \A m \in Everyone : line = Take("o", m) => "o" \notin r.status[m]
  /\ \A m \in r.on : "o" \in real.status[m] /\ line # Take("o", m) => "o" \in r.status[m]
  /\ \A m \in r.on : line = Give("o", m) => "o" \in r.status[m]
  /\ \A S \in LineChanges : line = Mode(S) /\ real.on # {} => BansChanged(S, real.bans, r.bans)
  /\ (real.on = {} \/ \A S \in LineChanges : line # Mode(S)) => r.bans \subseteq real.bans

LEMMA DownLineKinds ==
  ASSUME NEW x \in DownLines
  PROVE  \/ \E S \in LineChanges : x = Mode(S)
         \/ \E m \in Everyone : x = Kicked(m)
BY DEF DownLines, ModeLines

LEMMA CarriesLine ==
  ASSUME real \in Sound, NEW line \in DownLines
  PROVE  Carries(line, IF real.on = {} THEN real
                       ELSE IF line.type = "kick" THEN Without(real, line.user)
                       ELSE AppliedAll(real, line.changes))
<1> DEFINE r == IF real.on = {} THEN real
                ELSE IF line.type = "kick" THEN Without(real, line.user)
                ELSE AppliedAll(real, line.changes)
<1>1. CASE real.on = {}
  <2>1. r = real
    BY <1>1
  <2>2. \A m \in Everyone : real.status[m] = {}
    BY <1>1, SoundParts
  <2> HIDE DEF r
  <2>3. Carries(line, r)
    BY <1>1, <2>1, <2>2 DEF Carries
  <2>4. QED
    BY <2>3 DEF r
<1>2. ASSUME real.on # {}, NEW S \in LineChanges, line = Mode(S) PROVE Carries(line, r)
  <2> DEFINE d == AppliedAll(real, S)
  <2>1. r = d
    BY <1>2 DEF Mode
  <2>2. d \in Sound /\ d.on = real.on /\ BansChanged(S, real.bans, d.bans)
    BY <1>2, LineApplied
  <2>3. ASSUME NEW m \in Everyone
        PROVE  /\ "o" \in d.status[m] => "o" \in real.status[m] \/ Mode(S) = Give("o", m)
               /\ Mode(S) = Give("o", m) /\ m \in real.on => "o" \in d.status[m]
               /\ Mode(S) = Take("o", m) => "o" \notin d.status[m]
               /\ "o" \in real.status[m] /\ Mode(S) # Take("o", m) => "o" \in d.status[m]
    BY <1>2, OpApplied
  <2>4. \A m : line # Kicked(m)
    BY <1>2, OneChange
  <2>5. \A T \in LineChanges : line = Mode(T) => T = S
    BY <1>2, ModesSame
  <2>6. d.on \subseteq Everyone
    BY <2>2, SoundParts
  <2> HIDE DEF d, r
  <2>7. QED
    BY <1>2, <2>1, <2>2, <2>3, <2>4, <2>5, <2>6 DEF Carries
<1>3. ASSUME real.on # {}, NEW m \in Everyone, line = Kicked(m) PROVE Carries(line, r)
  <2> DEFINE d == Without(real, m)
  <2>1. r = d
    BY <1>3 DEF Kicked
  <2>2. /\ d \in Sound /\ d.on = real.on \ {m} /\ d.status[m] = {}
        /\ (d.on # {} => d.bans = real.bans) /\ d.bans \subseteq real.bans
        /\ \A v \in Everyone : d.status[v] # {} => d.status[v] = real.status[v]
        /\ \A v \in d.on : d.status[v] = real.status[v]
    BY WithoutMember
  <2>3. \A S : line # Mode(S)
    BY <1>3, OneChange
  <2>4. \A v : line # Give("o", v) /\ line # Take("o", v)
    BY <2>3 DEF Give, Take
  <2>5. \A v : line = Kicked(v) => v = m
    <3>1. SUFFICES ASSUME NEW v, line = Kicked(v) PROVE v = m
      OBVIOUS
    <3>2. line.user = v /\ line.user = m
      BY <1>3, <3>1 DEF Kicked
    <3>3. QED
      BY <3>2
  <2> HIDE DEF d, r
  <2>6. QED
    BY <2>1, <2>2, <2>3, <2>4, <2>5 DEF Carries
<1> HIDE DEF r
<1>4. Carries(line, r)
  <2>1. CASE real.on = {}
    BY <1>1, <2>1 DEF r
  <2>2. CASE real.on # {}
    BY <1>2, <1>3, <2>2, DownLineKinds
  <2>3. QED
    BY <2>1, <2>2
<1>5. QED
  BY <1>4 DEF r

LEMMA ContainsRead ==
  ASSUME NEW S, NEW s \in Seq(S), s # <<>>, NEW x
  PROVE  Contains(s, x) <=> x = Head(s) \/ Contains(Tail(s), x)
<1> DEFINE t == Tail(s)
           n == Len(t)
<1>1. /\ n \in Nat /\ Len(s) = n + 1 /\ Head(s) = s[1] /\ \A k \in 1..n : t[k] = s[k + 1]
  BY TailParts
<1> HIDE DEF t
<1>2. ASSUME NEW i \in 1..Len(s), s[i] = x, i # 1 PROVE Contains(t, x)
  <2>1. i - 1 \in 1..n /\ (i - 1) + 1 = i
    BY <1>1, <1>2
  <2>2. t[i - 1] = x
    BY <1>1, <1>2, <2>1
  <2>3. QED
    BY <2>1, <2>2 DEF Contains
<1>3. ASSUME NEW k \in 1..n, t[k] = x PROVE Contains(s, x)
  <2>1. k + 1 \in 1..Len(s) /\ s[k + 1] = x
    BY <1>1, <1>3
  <2>2. QED
    BY <2>1 DEF Contains
<1>4. 1 \in 1..Len(s)
  BY <1>1
<1>5. Contains(s, x) => x = s[1] \/ Contains(t, x)
  BY <1>2 DEF Contains
<1>6. Contains(t, x) => Contains(s, x)
  BY <1>3 DEF Contains
<1>7. x = s[1] => Contains(s, x)
  BY <1>4 DEF Contains
<1>8. QED
  BY <1>1, <1>5, <1>6, <1>7 DEF t

LEMMA TakenBackRead ==
  ASSUME NEW s \in Seq(DownLines), s # <<>>, OpsTakenBack(s)
  PROVE  /\ OpsTakenBack(Tail(s))
         /\ SecureOps => \A u \in Users \ Roled : Head(s) = Give("o", u) => Contains(Tail(s), Take("o", u))
<1> DEFINE t == Tail(s)
           n == Len(t)
           g(u) == Give("o", u)
           h(u) == Take("o", u)
<1>1. /\ n \in Nat /\ Len(s) = n + 1 /\ Head(s) = s[1] /\ \A k \in 1..n : t[k] = s[k + 1]
  BY TailParts
<1> HIDE DEF t
<1>2. ASSUME SecureOps, NEW u \in Users \ Roled, NEW i \in 1..Len(s), s[i] = g(u)
      PROVE  \E k \in i..n : t[k] = h(u)
  <2>1. PICK k \in i + 1..Len(s) : s[k] = h(u)
    BY <1>2 DEF OpsTakenBack
  <2>2. k - 1 \in i..n /\ k - 1 \in 1..n /\ (k - 1) + 1 = k
    BY <1>1
  <2>3. t[k - 1] = s[k]
    BY <1>1, <2>2
  <2>4. QED
    BY <2>1, <2>2, <2>3
<1>3. OpsTakenBack(t)
  <2>1. SUFFICES ASSUME SecureOps, NEW u \in Users \ Roled, NEW i \in 1..n, t[i] = g(u)
                 PROVE  \E k \in i + 1..n : t[k] = h(u)
    BY DEF OpsTakenBack
  <2>2. i + 1 \in 1..Len(s) /\ s[i + 1] = g(u)
    BY <1>1, <2>1
  <2>3. QED
    BY <1>2, <2>1, <2>2
<1>4. ASSUME SecureOps, NEW u \in Users \ Roled, Head(s) = g(u) PROVE Contains(t, h(u))
  <2>1. 1 \in 1..Len(s) /\ s[1] = g(u)
    BY <1>1, <1>4
  <2>2. QED
    BY <1>2, <1>4, <2>1 DEF Contains
<1>5. QED
  BY <1>3, <1>4 DEF t

LEMMA DeliverKeepsOps ==
  ASSUME OpsInv, Deliver
  PROVE  OpsInv'
<1> DEFINE line == Head(down)
<1>1. SidesOK /\ down # <<>> /\ down' = Tail(down) /\ mirror' = mirror /\ up' = up
  BY DEF OpsInv, Deliver
<1>2. /\ down' \in Seq(DownLines) /\ line \in DownLines
      /\ \A x : Contains(down, x) <=> x = line \/ Contains(down', x)
  BY <1>1, HeadTailProperties, ContainsRead DEF SidesOK
<1>3. Carries(line, real')
  BY <1>1, <1>2, CarriesLine DEF Deliver, SidesOK
<1> HIDE DEF line
<1>4. /\ OpsTakenBack(down')
      /\ SecureOps => \A u \in Users \ Roled : line = Give("o", u) => Contains(down', Take("o", u))
  BY <1>1, TakenBackRead DEF SidesOK, line
<1>5. Permitted(down') /\ line # Take("o", Bot)
  BY <1>1, <1>2 DEF SidesOK, Permitted
<1>6. SidesOK'
  BY <1>1, <1>2, <1>3, <1>4, <1>5 DEF SidesOK, Carries
<1>7. real'.on \subseteq real.on /\ real'.on \subseteq Everyone /\ real' \in Sound
  BY <1>3, SoundParts DEF Carries
<1>8. \A m \in real'.on : MemberKnown(m)'
  <2>1. SUFFICES ASSUME NEW m \in real'.on PROVE MemberKnown(m)'
    OBVIOUS
  <2>2. MemberKnown(m) /\ line # Kicked(m)
    BY <1>3, <1>7, <2>1 DEF OpsInv, Carries
  <2>3. Contains(down', Kicked(m)) \/ Reaches(mirror.on, up, Len(up) + 1, m)
    BY <1>2, <2>2 DEF MemberKnown
  <2>4. QED
    BY <1>1, <2>3 DEF MemberKnown
<1>9. ASSUME SecureOps, NEW u \in Users \ Roled, "o" \in real'.status[u] PROVE OpGoes(u)'
  <2>1. u \in Everyone /\ u \in real'.on
    BY <1>7, <1>9, SoundParts DEF Everyone
  <2>2. line # Take("o", u) /\ line # Kicked(u)
    BY <1>3, <1>9, <2>1 DEF Carries
  <2>3. CASE line = Give("o", u)
    BY <1>4, <1>9, <2>3 DEF OpGoes
  <2>4. CASE line # Give("o", u)
    <3>1. OpGoes(u)
      BY <1>3, <1>9, <2>1, <2>4 DEF OpsInv, Carries
    <3>2. \A j : OpAnswer(j, u)' <=> OpAnswer(j, u)
      BY <1>1 DEF OpAnswer
    <3>3. QED
      BY <1>1, <1>2, <2>2, <3>1, <3>2 DEF OpGoes
  <2>5. QED
    BY <2>3, <2>4
<1>10. BotOp'
  <2>1. SUFFICES ASSUME Bot \in real'.on
                 PROVE "o" \in real'.status[Bot] \/ Contains(up', Take("o", Bot)) \/ Contains(down', Give("o", Bot))
    BY DEF BotOp
  <2>2. "o" \in real.status[Bot] \/ Contains(up, Take("o", Bot)) \/ Contains(down, Give("o", Bot))
    BY <1>7, <2>1 DEF OpsInv, BotOp
  <2>3. QED
    BY <1>1, <1>2, <1>3, <1>5, <2>1, <2>2 DEF Carries
<1>11. QED
  BY <1>6, <1>8, <1>9, <1>10 DEF OpsInv

-----------------------------------------------------------------------------
(* The daemon and its users send a line.                                   *)

LEMMA Reported ==
  ASSUME SidesOK, NEW line \in UpLines, NEW told, Report(line, told)
  PROVE  /\ real' \in Sound => SidesOK'
         /\ \A m : MemberKnown(m) /\ line # Leaves(m) => MemberKnown(m)'
         /\ \A m : IsJoin(line, m) => MemberKnown(m)'
         /\ \A u : OpGoes(u) => OpGoes(u)'
         /\ \A u : IsJoin(line, u) /\ "o" \in line.status => OpGoes(u)'
         /\ \A u : line = Give("o", u) /\ MemberKnown(u) => OpGoes(u)'
         /\ \A x : Contains(up', x) <=> Contains(up, x) \/ x = line
<1> DEFINE n == Len(up)
<1>1. mirror' = mirror /\ down' = down /\ up' = Append(up, line) /\ up \in Seq(UpLines)
  BY DEF Report, SidesOK
<1>2. /\ up' \in Seq(UpLines) /\ n \in Nat /\ Len(up') = n + 1
      /\ \A k \in 1..n : up'[k] = up[k]
      /\ up'[n + 1] = line
  BY <1>1, AppendedParts
<1>3. \A x : Contains(up', x) <=> Contains(up, x) \/ x = line
  BY <1>1, ContainsAppended
<1> HIDE DEF n
<1>4. real' \in Sound => SidesOK'
  BY <1>1, <1>2 DEF SidesOK
<1>5. ASSUME NEW j \in 1..n + 1, NEW m, Reaches(mirror.on, up, j, m) PROVE Reaches(mirror.on, up', j, m)
  BY <1>2, <1>5, ReachesLater
<1>6. ASSUME NEW m, MemberKnown(m), line # Leaves(m) PROVE MemberKnown(m)'
  <2>1. Contains(down, Kicked(m)) \/ Reaches(mirror.on, up, n + 1, m)
    BY <1>6 DEF MemberKnown, n
  <2>2. n + 1 \in 1..n + 1 /\ (n + 1) + 1 = n + 2
    BY <1>2
  <2>3. Reaches(mirror.on, up, n + 1, m) => Reaches(mirror.on, up', n + 2, m)
    BY <1>2, <1>5, <1>6, <2>2, ReachesEnd
  <2>4. QED
    BY <1>1, <1>2, <2>1, <2>2, <2>3 DEF MemberKnown
<1>7. ASSUME NEW m, IsJoin(line, m) PROVE MemberKnown(m)'
  <2>1. Reaches(mirror.on, up', n + 2, m) /\ (n + 1) + 1 = n + 2
    BY <1>2, <1>7, ReachesJoined
  <2>2. QED
    BY <1>1, <1>2, <2>1 DEF MemberKnown
<1>8. ASSUME NEW u, OpGoes(u) PROVE OpGoes(u)'
  <2>1. ASSUME NEW j \in 1..n, OpAnswer(j, u) PROVE OpAnswer(j, u)' /\ j \in 1..Len(up')
    <3>1. j \in 1..n + 1 /\ up'[j] = up[j] /\ j \in 1..Len(up')
      BY <1>2
    <3>2. Reaches(mirror.on, up, j, u) => Reaches(mirror.on, up', j, u)
      BY <1>5, <3>1
    <3>3. QED
      BY <1>1, <2>1, <3>1, <3>2 DEF OpAnswer
  <2>2. QED
    BY <1>1, <1>8, <2>1 DEF OpGoes, n
<1>9. n + 1 \in 1..Len(up') /\ n + 1 \in 1..n + 1
  BY <1>2
<1>10. ASSUME NEW u, IsJoin(line, u), "o" \in line.status PROVE OpGoes(u)'
  <2>1. ASSUME NEW j, j = n + 1 PROVE OpAnswer(j, u)'
    BY <1>2, <1>10, <2>1 DEF OpAnswer
  <2>2. QED
    BY <1>9, <2>1 DEF OpGoes
<1>11. ASSUME NEW u, line = Give("o", u), MemberKnown(u) PROVE OpGoes(u)'
  <2>1. Contains(down, Kicked(u)) \/ Reaches(mirror.on, up, n + 1, u)
    BY <1>11 DEF MemberKnown, n
  <2>2. CASE Contains(down, Kicked(u))
    BY <1>1, <2>2 DEF OpGoes
  <2>3. CASE Reaches(mirror.on, up, n + 1, u)
    <3>1. Reaches(mirror.on, up', n + 1, u)
      BY <1>5, <1>9, <2>3
    <3>2. ASSUME NEW j, j = n + 1 PROVE OpAnswer(j, u)'
      BY <1>1, <1>2, <1>11, <3>1, <3>2 DEF OpAnswer
    <3>3. QED
      BY <1>9, <3>2 DEF OpGoes
  <2>4. QED
    BY <2>1, <2>2, <2>3
<1>12. QED
  BY <1>3, <1>4, <1>6, <1>7, <1>8, <1>10, <1>11

LEMMA JoinKeepsOps ==
  ASSUME OpsInv, NEW u \in Users, Join(u)
  PROVE  OpsInv'
<1>1. PICK st \in SUBSET {"o"}, md \in SUBSET FlagModes :
        real' = With(real, u, st, md) /\ Report(Sjoin(u, st, md), {})
  <2>1. {} \in SUBSET FlagModes /\ Creation \in SUBSET FlagModes
    BY DEF Creation
  <2>2. QED
    BY <2>1 DEF Join
<1> DEFINE line == Sjoin(u, st, md)
<1>2. line \in UpLines
  BY DEF UpLines
<1>3. (\A m : IsJoin(line, m) <=> m = u) /\ (\A m : line # Leaves(m)) /\ line.status = st
  BY Joiners DEF Sjoin
<1>4. SidesOK
  BY DEF OpsInv
<1>5. Entered(real', real, u, st)
  <2>1. Entered(With(real, u, st, md), real, u, st)
    BY <1>4, WithMember, Zenon DEF SidesOK
  <2>2. QED
    BY <1>1, <2>1
<1> HIDE DEF line
<1>6. /\ real' \in Sound => SidesOK'
      /\ \A m : MemberKnown(m) /\ line # Leaves(m) => MemberKnown(m)'
      /\ \A m : IsJoin(line, m) => MemberKnown(m)'
      /\ \A m : OpGoes(m) => OpGoes(m)'
      /\ \A m : IsJoin(line, m) /\ "o" \in line.status => OpGoes(m)'
      /\ \A x : Contains(up', x) <=> Contains(up, x) \/ x = line
  BY <1>1, <1>2, <1>4, Reported DEF line
<1>7. SidesOK'
  BY <1>5, <1>6 DEF Entered
<1>8. \A m \in real'.on : MemberKnown(m)'
  BY <1>3, <1>5, <1>6 DEF OpsInv, Entered
<1>9. ASSUME SecureOps, NEW v \in Users \ Roled, "o" \in real'.status[v] PROVE OpGoes(v)'
  <2>1. CASE v = u
    BY <1>3, <1>5, <1>6, <1>9, <2>1 DEF Entered
  <2>2. CASE v # u
    BY <1>5, <1>6, <1>9, <2>2 DEF Entered, OpsInv, Everyone
  <2>3. QED
    BY <2>1, <2>2
<1>10. BotOp'
  <2>1. Bot # u /\ Bot \in Everyone
    BY ChanModesAssumption DEF Everyone
  <2>2. down' = down
    BY <1>1 DEF Report
  <2>3. QED
    BY <1>5, <1>6, <2>1, <2>2 DEF OpsInv, BotOp, Entered
<1>11. QED
  BY <1>7, <1>8, <1>9, <1>10 DEF OpsInv

LEMMA LeaveKeepsOps ==
  ASSUME OpsInv, NEW u \in Everyone, Leave(u)
  PROVE  OpsInv'
<1> DEFINE line == Leaves(u)
<1>1. line \in UpLines
  BY DEF UpLines
<1>2. \A m : line = Leaves(m) => m = u
  BY Joiners
<1>3. SidesOK
  BY DEF OpsInv
<1>4. /\ real' \in Sound /\ real'.on = real.on \ {u}
      /\ \A m \in Everyone : real'.status[m] # {} => real'.status[m] = real.status[m]
      /\ \A m \in real'.on : real'.status[m] = real.status[m]
  BY <1>3, WithoutMember DEF SidesOK, Leave
<1> HIDE DEF line
<1>5. /\ real' \in Sound => SidesOK'
      /\ \A m : MemberKnown(m) /\ line # Leaves(m) => MemberKnown(m)'
      /\ \A m : OpGoes(m) => OpGoes(m)'
      /\ \A x : Contains(up', x) <=> Contains(up, x) \/ x = line
  BY <1>1, <1>3, Reported DEF line, Leave
<1>6. SidesOK'
  BY <1>4, <1>5
<1>7. \A m \in real'.on : MemberKnown(m)'
  BY <1>2, <1>4, <1>5 DEF OpsInv
<1>8. ASSUME SecureOps, NEW v \in Users \ Roled, "o" \in real'.status[v] PROVE OpGoes(v)'
  BY <1>4, <1>5, <1>8 DEF OpsInv, Everyone
<1>9. BotOp'
  <2>1. down' = down
    BY DEF Leave, Report
  <2>2. QED
    BY <1>4, <1>5, <2>1 DEF OpsInv, BotOp
<1>10. QED
  BY <1>6, <1>7, <1>8, <1>9 DEF OpsInv

LEMMA ChangesTyped ==
  ASSUME real \in Sound, NEW ch \in Changes
  PROVE  {ch} \in LineChanges /\ (ch \in StatusChanges \/ ch \in BanChanges \/ ch \in Settings)
<1>1. real.on \subseteq Everyone
  BY SoundParts
<1>2. \/ \E on \in BOOLEAN, m \in real.on : ch = Change(on, "o", m)
      \/ \E on \in BOOLEAN, m \in real.on : ch = Change(on, "v", m)
      \/ \E on \in BOOLEAN, f \in FlagModes \ {"r"} : ch = Change(on, f, NoValue)
      \/ \E p \in Params, v \in Values : ch = Change(TRUE, p, v)
      \/ \E p \in Params : ch = Change(FALSE, p, NoValue)
      \/ \E on \in BOOLEAN, m \in Masks : ch = Change(on, "b", m)
  <2>1. \/ ch \in MemberChanges("o") \/ ch \in MemberChanges("v") \/ ch \in FlagChanges
        \/ (\E p \in Params : ch \in ParamChanges(p)) \/ ch \in MaskChanges
    BY DEF Changes, Featured
  <2>2. ASSUME ch \in MemberChanges("o")
        PROVE  \E on \in BOOLEAN, m \in real.on : ch = Change(on, "o", m)
    BY <2>2 DEF MemberChanges
  <2>3. ASSUME ch \in MemberChanges("v")
        PROVE  \E on \in BOOLEAN, m \in real.on : ch = Change(on, "v", m)
    BY <2>3 DEF MemberChanges
  <2>4. ASSUME ch \in FlagChanges
        PROVE  \E on \in BOOLEAN, f \in FlagModes \ {"r"} : ch = Change(on, f, NoValue)
    BY <2>4 DEF FlagChanges
  <2>5. ASSUME NEW p \in Params, ch \in ParamChanges(p)
        PROVE  (\E v \in Values : ch = Change(TRUE, p, v)) \/ ch = Change(FALSE, p, NoValue)
    BY <2>5 DEF ParamChanges
  <2>6. ASSUME ch \in MaskChanges
        PROVE  \E on \in BOOLEAN, m \in Masks : ch = Change(on, "b", m)
    BY <2>6 DEF MaskChanges
  <2>7. QED
    BY <2>1, <2>2, <2>3, <2>4, <2>5, <2>6, Zenon
<1>3. \A on \in BOOLEAN, m \in real.on : Change(on, "o", m) \in StatusChanges
  BY <1>1, LineTypes DEF Statuses
<1>4. \A on \in BOOLEAN, m \in real.on : Change(on, "v", m) \in StatusChanges
  BY <1>1, LineTypes DEF Statuses
<1>5. \A on \in BOOLEAN, f \in FlagModes \ {"r"} : Change(on, f, NoValue) \in Settings
  BY LineTypes
<1>6. \A p \in Params, v \in Values : Change(TRUE, p, v) \in Settings
  BY LineTypes
<1>7. \A p \in Params : Change(FALSE, p, NoValue) \in Settings
  BY LineTypes
<1>8. \A on \in BOOLEAN, m \in Masks : Change(on, "b", m) \in BanChanges
  BY LineTypes
<1>9. ch \in StatusChanges \/ ch \in BanChanges \/ ch \in Settings
  BY <1>2, <1>3, <1>4, <1>5, <1>6, <1>7, <1>8
<1>10. ch \in Settings => {ch} \in LineChanges
  BY LineTypes, FS_Singleton
<1>11. QED
  BY <1>9, <1>10, LineTypes

LEMMA OpChangesKeepOps ==
  ASSUME OpsInv, NEW u \in Users, OpChanges(u)
  PROVE  OpsInv'
<1>1. PICK ch \in Changes : real' = Applied(real, ch) /\ Report(Mode({ch}), {ch.letter})
  BY DEF OpChanges
<1> DEFINE S == {ch}
           line == Mode(S)
<1>2. SidesOK /\ real \in Sound /\ real.on # {}
  BY DEF OpsInv, OpChanges, SidesOK
<1>3. S \in LineChanges /\ (ch \in StatusChanges \/ ch \in BanChanges \/ ch \in Settings)
  BY <1>2, ChangesTyped
<1>4. real' = AppliedAll(real, S)
  BY <1>1, <1>2, <1>3, OneApplied
<1>5. line \in UpLines
  BY <1>3 DEF UpLines, ModeLines
<1>6. (\A m : line # Leaves(m))
  BY OneChange
<1>7. /\ real' \in Sound => SidesOK'
      /\ \A m : MemberKnown(m) /\ line # Leaves(m) => MemberKnown(m)'
      /\ \A m : OpGoes(m) => OpGoes(m)'
      /\ \A m : line = Give("o", m) /\ MemberKnown(m) => OpGoes(m)'
      /\ \A x : Contains(up', x) <=> Contains(up, x) \/ x = line
  BY <1>1, <1>2, <1>5, Reported
<1> HIDE DEF S
<1>8. real' \in Sound /\ real'.on = real.on
  BY <1>2, <1>3, <1>4, LineApplied
<1>9. \A m \in Everyone :
        /\ "o" \in real'.status[m] => "o" \in real.status[m] \/ line = Give("o", m)
        /\ "o" \in real.status[m] /\ line # Take("o", m) => "o" \in real'.status[m]
        /\ line = Give("o", m) /\ m \in real.on => "o" \in real'.status[m]
  BY <1>2, <1>3, <1>4, OpApplied
<1> HIDE DEF line
<1>10. SidesOK'
  BY <1>7, <1>8
<1>11. \A m \in real'.on : MemberKnown(m)'
  BY <1>6, <1>7, <1>8 DEF OpsInv
<1>12. ASSUME SecureOps, NEW v \in Users \ Roled, "o" \in real'.status[v] PROVE OpGoes(v)'
  <2>1. v \in Everyone
    BY DEF Everyone
  <2>2. v \in real'.on
    BY <1>8, <1>12, <2>1, SoundParts
  <2>3. MemberKnown(v)
    BY <1>8, <2>2 DEF OpsInv
  <2>4. "o" \in real.status[v] \/ line = Give("o", v)
    BY <1>9, <1>12, <2>1
  <2>5. QED
    BY <1>7, <1>12, <2>3, <2>4 DEF OpsInv
<1>13. BotOp'
  <2>1. down' = down
    BY <1>1 DEF Report
  <2>2. Bot \in Everyone
    BY DEF Everyone
  <2>3. QED
    BY <1>7, <1>8, <1>9, <2>1, <2>2 DEF OpsInv, BotOp
<1>14. QED
  BY <1>10, <1>11, <1>12, <1>13 DEF OpsInv

LEMMA FirstChannels ==
  ASSUME ModesInit
  PROVE  /\ real \in Sound /\ mirror \in Sound /\ BotAdmin(mirror) /\ real.on \subseteq mirror.on
         /\ real.bans = {} /\ mirror.bans = {}
         /\ \A m \in Everyone : "o" \in real.status[m] <=> m = Bot /\ Bot \in real.on
<1> DEFINE f == [NoChan.status EXCEPT ![Bot] = {"a", "o"}]
           bot == With(NoChan, Bot, {"a", "o"}, {})
           made == [bot EXCEPT !.modes = Creation]
<1>1. Bot \in Everyone
  BY DEF Everyone
<1>2. NoChan.status \in [Everyone -> SUBSET Statuses] /\ {"a", "o"} \in SUBSET Statuses
  BY DEF NoChan, Statuses
<1>3. /\ f \in [Everyone -> SUBSET Statuses] /\ f[Bot] = {"a", "o"}
      /\ \A m \in Everyone : m # Bot => f[m] = {}
  <2>1. \A m \in Everyone : NoChan.status[m] = {}
    BY DEF NoChan
  <2> DEFINE g == NoChan.status
  <2> HIDE DEF g
  <2>2. g \in [Everyone -> SUBSET Statuses] /\ \A m \in Everyone : g[m] = {}
    BY <1>2, <2>1 DEF g
  <2>3. f = [g EXCEPT ![Bot] = {"a", "o"}]
    BY DEF g
  <2> HIDE DEF f
  <2>4. QED
    BY <1>1, <1>2, <2>2, <2>3
<1>4. /\ bot.on = {Bot} /\ bot.status = f /\ bot.bans = {}
      /\ bot \in Channels
  <2> DEFINE q == NoChan.param
             g == NoChan.status
  <2>1. NoChan = [on |-> {}, status |-> g, modes |-> {}, param |-> q, bans |-> {}, locked |-> FALSE]
    BY DEF NoChan
  <2>2. /\ g \in [Everyone -> SUBSET Statuses] /\ q \in [Params -> Values \union {NoValue}]
        /\ f = [g EXCEPT ![Bot] = {"a", "o"}]
    BY DEF NoChan
  <2> HIDE DEF f, g, q
  <2>3. bot = [NoChan EXCEPT !.on = NoChan.on \union {Bot}, !.status[Bot] = {"a", "o"}, !.modes = NoChan.modes \union {}]
    BY DEF With
  <2> HIDE DEF bot
  <2>4. bot.on = {} \union {Bot}
    BY <2>1, <2>3
  <2>5. bot.status = f
    BY <2>1, <2>2, <2>3
  <2>6. bot.bans = {}
    BY <2>1, <2>3
  <2>7. bot \in Channels
    BY <1>1, <1>3, <2>1, <2>2, <2>3, <2>4, <2>5 DEF Channels
  <2>8. QED
    BY <2>4, <2>5, <2>6, <2>7
<1> HIDE DEF f, bot
<1>5. /\ made.on = bot.on /\ made.status = bot.status /\ made.bans = bot.bans
      /\ Creation \subseteq FlagModes => made \in Channels
  BY <1>4 DEF Channels
<1>6. NoChan.param \in [Params -> Values \union {NoValue}]
  BY DEF NoChan
<1>7. Creation \subseteq FlagModes
  BY DEF Creation
<1> HIDE DEF made
<1>8. bot \in Sound /\ bot.on = {Bot} /\ bot.status = f /\ bot.bans = {}
  BY <1>1, <1>3, <1>4 DEF Sound
<1>9. made \in Sound /\ made.on = {Bot} /\ made.status = f /\ made.bans = {}
  BY <1>1, <1>3, <1>4, <1>5, <1>7 DEF Sound
<1>10. (real = made /\ mirror = bot) \/ (real = NoChan /\ mirror = NoChan)
  BY DEF ModesInit, bot, made
<1>11. CASE real = made /\ mirror = bot
  BY <1>1, <1>3, <1>8, <1>9, <1>11 DEF BotAdmin
<1>12. CASE real = NoChan /\ mirror = NoChan
  BY <1>12, EmptyChannel DEF BotAdmin
<1>13. QED
  BY <1>10, <1>11, <1>12

LEMMA InitOps ==
  ASSUME ModesInit
  PROVE  OpsInv
<1>1. up = <<>> /\ down = <<>> /\ Len(up) = 0
  BY EmptySeq DEF ModesInit
<1>2. SidesOK
  BY <1>1, FirstChannels, NothingSent, EmptySeq DEF SidesOK
<1>3. \A m \in real.on : MemberKnown(m)
  <2>1. 1..(Len(up) + 1) - 1 = {}
    BY <1>1
  <2>2. \A m \in mirror.on : Reaches(mirror.on, up, Len(up) + 1, m)
    BY <2>1 DEF Reaches
  <2>3. QED
    BY <2>2, FirstChannels DEF MemberKnown
<1>4. \A u \in Users : "o" \notin real.status[u]
  BY ChanModesAssumption, FirstChannels DEF Everyone
<1>5. BotOp
  BY FirstChannels DEF BotOp, Everyone
<1>6. QED
  BY <1>2, <1>3, <1>4, <1>5 DEF OpsInv

LEMMA StepsKeepOps == OpsInv /\ [ModesNext]_modesvars => OpsInv'
<1> SUFFICES ASSUME OpsInv, [ModesNext]_modesvars PROVE OpsInv'
  OBVIOUS
<1>1. CASE UNCHANGED modesvars
  BY <1>1 DEF modesvars, OpsInv, SidesOK, MemberKnown, OpGoes, OpAnswer, BotOp
<1>2. CASE Receive
  BY <1>2, ReceiveKeepsOps
<1>3. CASE Deliver
  BY <1>3, DeliverKeepsOps
<1>4. ASSUME NEW u \in Users, Join(u) \/ OpChanges(u) PROVE OpsInv'
  BY <1>4, JoinKeepsOps, OpChangesKeepOps
<1>5. ASSUME NEW u \in Everyone, Leave(u) PROVE OpsInv'
  BY <1>5, LeaveKeepsOps
<1>6. CASE Commands
  <2>1. mirror \in Sound /\ BotAdmin(mirror)
    BY DEF OpsInv, SidesOK
  <2>2. PICK side : Command(side) /\ After(Here, side)
    BY <1>6, <2>1, CommandsDone, Zenon DEF CommandDone
  <2>3. QED
    BY <2>2, CommandKeepsOps
<1>7. ModesNext =>
        \/ Receive \/ Deliver \/ Commands
        \/ \E u \in Users : Join(u) \/ OpChanges(u)
        \/ \E u \in Everyone : Leave(u)
  BY DEF ModesNext, Commands
<1>8. QED
  BY <1>1, <1>2, <1>3, <1>4, <1>5, <1>6, <1>7

(* The channel, the mirror and the lines between them keep the invariant:  *)
(* services know or will know every member, every op that SECUREOPS forbids *)
(* has its answer on the way, and so has a bot that lost its op.           *)
THEOREM ModesInvariant == ModesSpec => []OpsInv
<1>1. ModesInit => OpsInv
  BY InitOps
<1>2. QED
  BY <1>1, StepsKeepOps, PTL DEF ModesSpec

(* When every line has been read, SECUREOPS holds and the bot is op: no     *)
(* order of creation, splits, ops, commands, KICKs and answers leaves an op *)
(* without an answer (m_sjoin, ev_cs_role_op, ev_cs_deop).                 *)
THEOREM OpsAlwaysConverge == ModesSpec => []OpsConverge
<1>1. OpsInv => OpsConverge
  <2>1. SUFFICES ASSUME OpsInv, up = <<>>, down = <<>>
                 PROVE  /\ SecureOps => \A u \in Users \ Roled : "o" \notin real.status[u]
                        /\ Bot \in real.on => "o" \in real.status[Bot]
    BY DEF OpsConverge, Quiet
  <2>2. \A x : ~Contains(up, x) /\ ~Contains(down, x)
    BY <2>1, NothingSent
  <2>3. 1..Len(up) = {}
    BY <2>1, EmptySeq
  <2>4. QED
    BY <2>1, <2>2, <2>3 DEF OpsInv, OpGoes, BotOp
<1>2. QED
  BY <1>1, ModesInvariant, PTL

-----------------------------------------------------------------------------
(* The invariant of the bans, the commands and the lines of services.      *)

\* Somebody whom services hold for a member is there when they come to line j.
Occupied(j) == \E w \in Everyone : Reaches(mirror.on, up, j, w)

\* Services have kicked, or will be seen to kick, whoever is on the channel.
Doomed == \A w \in real.on : Contains(down, Kicked(w))

\* After line j no line that services have still to read takes the ban b from
\* them, neither as "-b" nor with the last member.
Stays(j, b) == \A k \in j + 1..Len(up) : up[k] # Take("b", b) /\ Occupied(k + 1)

BanOrder(j, b) == up[j] = Give("b", b) /\ Occupied(j) /\ Stays(j, b)

BanGoes(b) ==
  \/ Contains(down, Take("b", b)) \/ Doomed
  \/ b \in mirror.bans /\ Stays(0, b)
  \/ \E j \in 1..Len(up) : BanOrder(j, b)

BansInv == ~crossed => ~Crossing(up, down) /\ \A b \in real.bans : BanGoes(b)

LEMMA KicksSent ==
  ASSUME NEW d \in Seq(DownLines), NEW m, Contains(d, Kicked(m))
  PROVE  \E i \in DOMAIN d : d[i].type = "kick"
<1>1. PICK i \in 1..Len(d) : d[i] = Kicked(m)
  BY DEF Contains
<1>2. DOMAIN d = 1..Len(d) /\ d[i].type = "kick"
  BY <1>1, LenProperties DEF Kicked
<1>3. QED
  BY <1>2

LEMMA NoJoins ==
  ASSUME SidesOK, ~Crossing(up, down), NEW m, Contains(down, Kicked(m))
  PROVE  \A i \in 1..Len(up) : \A w : ~IsJoin(up[i], w)
<1>1. down \in Seq(DownLines) /\ up \in Seq(UpLines)
  BY DEF SidesOK
<1>2. \A i \in DOMAIN up : up[i].type # "sjoin"
  BY <1>1, KicksSent DEF Crossing
<1>3. DOMAIN up = 1..Len(up)
  BY <1>1, LenProperties
<1>4. QED
  BY <1>2, <1>3 DEF IsJoin

\* Where services find no member any more, their own KICKs have emptied the
\* channel, provided no join comes after them.
KicksEmpty ==
  SidesOK /\ (\A w \in real.on : MemberKnown(w)) /\ ~Crossing(up, down) =>
    \A m : Contains(down, Kicked(m)) => \A j \in 1..Len(up) + 1 : Doomed \/ Occupied(j)

LEMMA OccupiedOrDoomed == KicksEmpty
<1> SUFFICES ASSUME SidesOK, \A w \in real.on : MemberKnown(w), ~Crossing(up, down),
                    NEW m, Contains(down, Kicked(m)), NEW j \in 1..Len(up) + 1
             PROVE  Doomed \/ Occupied(j)
  BY DEF KicksEmpty
<1> DEFINE n == Len(up)
           b == n + 1
<1>1. n \in Nat /\ b - 1 = n
  BY LenProperties DEF SidesOK
<1>2. \A i \in 1..n : \A w : ~IsJoin(up[i], w)
  BY NoJoins
<1>3. SUFFICES ASSUME NEW w \in real.on, ~Contains(down, Kicked(w)) PROVE Occupied(j)
  BY DEF Doomed
<1>4. w \in Everyone /\ Reaches(mirror.on, up, b, w)
  BY <1>3, SoundParts DEF MemberKnown, SidesOK
<1>5. \A k \in 1..j - 1 : k \in 1..n
  BY <1>1
<1> HIDE DEF n, b
<1>6. w \in mirror.on /\ \A k \in 1..n : up[k] # Leaves(w)
  BY <1>1, <1>2, <1>4 DEF Reaches
<1>7. Reaches(mirror.on, up, j, w)
  BY <1>5, <1>6 DEF Reaches
<1>8. QED
  BY <1>4, <1>7 DEF Occupied

LEMMA FirstReached == \A on, s, m : Reaches(on, s, 1, m) <=> m \in on
<1>1. 1..1 - 1 = {}
  OBVIOUS
<1>2. QED
  BY <1>1 DEF Reaches

LEMMA CommandKeepsBans ==
  ASSUME OpsInv, BansInv, NEW side, Command(side), After(Here, side), OpsInv'
  PROVE  BansInv'
<1>1. /\ SidesOK /\ real' = real /\ up' = up /\ mirror' = side.chan /\ down' = down \o side.sent
      /\ crossed' = (crossed \/ Crossing(up, down'))
  BY DEF OpsInv, Command, Services
<1>2. SUFFICES ASSUME ~crossed, ~Crossing(up, down'), NEW b \in real.bans PROVE BanGoes(b)'
  BY <1>1 DEF BansInv
<1>3. BanGoes(b)
  BY <1>2 DEF BansInv
<1>4. side.sent \in Seq(DownLines)
  BY DEF After, Sides
<1>5. \A x : Contains(down', x) <=> Contains(down, x) \/ Contains(side.sent, x)
  BY <1>1, <1>4, ContainsJoined, Joined DEF SidesOK
<1>6. Here.chan = mirror
  BY DEF Here, Side
<1>7. Doomed' \/ \A j \in 1..Len(up) + 1 : Occupied(j) => Occupied(j)'
  <2>1. CASE mirror.on \subseteq mirror'.on
    BY <1>1, <2>1, ReachesOn DEF Occupied
  <2>2. CASE ~(mirror.on \subseteq mirror'.on)
    <3>1. PICK m \in mirror.on : Contains(down', Kicked(m))
      BY <1>1, <1>5, <1>6, <2>2 DEF After
    <3>2. SidesOK' /\ (\A w \in real'.on : MemberKnown(w)') /\ ~Crossing(up', down') /\ Contains(down', Kicked(m))
      BY <1>1, <1>2, <3>1 DEF OpsInv
    <3>3. \A j \in 1..Len(up') + 1 : Doomed' \/ Occupied(j)'
      <4>1. KicksEmpty'
        BY OccupiedOrDoomed, PTL
      <4>2. QED
        BY <3>2, <4>1 DEF KicksEmpty
    <3>4. QED
      BY <1>1, <3>3
  <2>3. QED
    BY <2>1, <2>2
<1>8. CASE Contains(down, Take("b", b)) \/ Doomed
  BY <1>1, <1>5, <1>8 DEF BanGoes, Doomed
<1>9. CASE Doomed'
  BY <1>9 DEF BanGoes
<1>10. ASSUME \A j \in 1..Len(up) + 1 : Occupied(j) => Occupied(j)'
       PROVE  /\ \A j \in Nat : Stays(j, b) => Stays(j, b)'
              /\ \A j \in 1..Len(up) : BanOrder(j, b) => BanOrder(j, b)'
  <2>1. Len(up) \in Nat
    BY <1>1, LenProperties DEF SidesOK
  <2>2. ASSUME NEW j \in Nat, Stays(j, b) PROVE Stays(j, b)'
    <3>1. \A k \in j + 1..Len(up) : k + 1 \in 1..Len(up) + 1
      BY <2>1
    <3>2. QED
      BY <1>1, <1>10, <2>2, <3>1 DEF Stays
  <2>3. ASSUME NEW j \in 1..Len(up), BanOrder(j, b) PROVE BanOrder(j, b)'
    <3>1. j \in Nat /\ j \in 1..Len(up) + 1
      BY <2>1
    <3>2. QED
      BY <1>1, <1>10, <2>2, <2>3, <3>1 DEF BanOrder
  <2>4. QED
    BY <2>2, <2>3
<1>11. ASSUME \A j \in 1..Len(up) + 1 : Occupied(j) => Occupied(j)', b \in mirror.bans, Stays(0, b)
       PROVE  BanGoes(b)'
  <2>1. mirror.on # {}
    BY <1>1, <1>11, SoundParts DEF SidesOK
  <2>2. Occupied(1)'
    <3>1. Occupied(1)
      BY <1>1, <2>1, FirstReached, SoundParts DEF SidesOK, Occupied
    <3>2. 1 \in 1..Len(up) + 1
      BY <1>1, LenProperties DEF SidesOK
    <3>3. QED
      BY <1>11, <3>1, <3>2
  <2>3. mirror'.on # {}
    BY <2>2, FirstReached DEF Occupied
  <2>4. b \in mirror'.bans \/ Contains(down', Take("b", b))
    BY <1>1, <1>5, <1>6, <1>11, <2>3 DEF After
  <2>5. Stays(0, b)'
    BY <1>10, <1>11
  <2>6. QED
    BY <2>4, <2>5 DEF BanGoes
<1>12. ASSUME \A j \in 1..Len(up) + 1 : Occupied(j) => Occupied(j)', NEW i \in 1..Len(up), BanOrder(i, b)
       PROVE  BanGoes(b)'
  BY <1>1, <1>10, <1>12 DEF BanGoes
<1>13. QED
  BY <1>3, <1>7, <1>8, <1>9, <1>11, <1>12 DEF BanGoes

LEMMA DeliverKeepsBans ==
  ASSUME OpsInv, BansInv, Deliver
  PROVE  BansInv'
<1> DEFINE line == Head(down)
<1>1. /\ SidesOK /\ down # <<>> /\ down' = Tail(down) /\ mirror' = mirror /\ up' = up
      /\ crossed' = crossed
  BY DEF OpsInv, Deliver
<1>2. /\ down' \in Seq(DownLines) /\ line \in DownLines
      /\ \A x : Contains(down, x) <=> x = line \/ Contains(down', x)
  BY <1>1, HeadTailProperties, ContainsRead DEF SidesOK
<1>3. Carries(line, real')
  BY <1>1, <1>2, CarriesLine DEF Deliver, SidesOK
<1> HIDE DEF line
<1>4. SUFFICES ASSUME ~crossed PROVE ~Crossing(up, down') /\ \A b \in real'.bans : BanGoes(b)'
  BY <1>1 DEF BansInv
<1>5. ~Crossing(up, down')
  <2> DEFINE n == Len(down')
  <2>1. n \in Nat /\ Len(down) = n + 1 /\ \A k \in 1..n : down'[k] = down[k + 1]
    <3>1. down \in Seq(DownLines)
      BY <1>1 DEF SidesOK
    <3>2. Len(Tail(down)) \in Nat /\ Len(down) = Len(Tail(down)) + 1 /\ \A k \in 1..Len(Tail(down)) : Tail(down)[k] = down[k + 1]
      BY <1>1, <3>1, TailParts
    <3>3. QED
      BY <1>1, <3>2
  <2>2. DOMAIN down = 1..Len(down) /\ DOMAIN down' = 1..n
    BY <1>1, <1>2, LenProperties DEF SidesOK
  <2> HIDE DEF n
  <2>3. \A i \in 1..n : i + 1 \in DOMAIN down /\ down[i + 1] = down'[i]
    BY <2>1, <2>2
  <2>4. (\E i \in DOMAIN down' : down'[i].type = "kick") => \E i \in DOMAIN down : down[i].type = "kick"
    BY <2>2, <2>3
  <2>5. QED
    BY <1>4, <2>4 DEF BansInv, Crossing
<1>6. ASSUME NEW b \in real'.bans PROVE BanGoes(b)'
  <2>1. real' \in Sound /\ real \in Sound /\ b \in Masks /\ real'.on # {} /\ real.on # {}
    BY <1>1, <1>3, <1>6, SoundParts DEF Carries, SidesOK
  <2>2. line # Give("b", b)
    BY <1>1, <1>2, <2>1 DEF SidesOK, Permitted
  <2>3. b \in real.bans /\ line # Take("b", b)
    <3>1. CASE \A S \in LineChanges : line # Mode(S)
      <4>1. {Change(FALSE, "b", b)} \in LineChanges
        BY <2>1, LineTypes
      <4>2. line # Take("b", b)
        BY <3>1, <4>1 DEF Take
      <4>3. QED
        BY <1>3, <1>6, <3>1, <4>2 DEF Carries
    <3>2. ASSUME NEW S \in LineChanges, line = Mode(S) PROVE b \in real.bans /\ line # Take("b", b)
      <4>1. BansChanged(S, real.bans, real'.bans)
        BY <1>3, <2>1, <3>2 DEF Carries
      <4>2. CASE ~\E ch \in BanChanges : S = {ch}
        <5>1. Change(FALSE, "b", b) \in BanChanges
          BY <2>1, LineTypes
        <5>2. S # {Change(FALSE, "b", b)}
          BY <4>2, <5>1
        <5>3. line # Take("b", b)
          BY <3>2, <5>2, ModesSame, Zenon DEF Take
        <5>4. QED
          BY <1>6, <4>1, <4>2, <5>3 DEF BansChanged
      <4>3. ASSUME NEW ch \in BanChanges, S = {ch} PROVE b \in real.bans /\ line # Take("b", b)
        <5>1. real'.bans = AddIf(ch.on, real.bans, ch.arg)
          BY <4>1, <4>3 DEF BansChanged
        <5>2. ch = Change(ch.on, "b", ch.arg) /\ ch.on \in BOOLEAN
          BY DEF BanChanges, Changing, Change
        <5>3. line = IF ch.on THEN Give("b", ch.arg) ELSE Take("b", ch.arg)
          BY <3>2, <4>3, <5>2 DEF Give, Take
        <5>4. CASE ch.on
          <6>1. ch.arg # b /\ line = Give("b", ch.arg)
            BY <2>2, <5>3, <5>4
          <6>2. line # Take("b", b)
            <7>1. ch # Change(FALSE, "b", b)
              BY <5>4 DEF Change
            <7>2. S # {Change(FALSE, "b", b)}
              BY <4>3, <7>1
            <7>3. QED
              BY <3>2, <7>2, ModesSame, Zenon DEF Take
          <6>3. QED
            BY <1>6, <5>1, <5>4, <6>1, <6>2 DEF AddIf
        <5>5. CASE ~ch.on
          <6>1. b \in real.bans /\ b # ch.arg
            BY <1>6, <5>1, <5>5 DEF AddIf
          <6>2. ch # Change(FALSE, "b", b)
            BY <6>1 DEF Change
          <6>3. S # {Change(FALSE, "b", b)}
            BY <4>3, <6>2
          <6>4. line # Take("b", b)
            BY <3>2, <6>3, ModesSame, Zenon DEF Take
          <6>5. QED
            BY <6>1, <6>4
        <5>6. QED
          BY <5>4, <5>5
      <4>4. QED
        BY <4>2, <4>3
    <3>3. QED
      BY <3>1, <3>2
  <2>4. BanGoes(b)
    BY <1>4, <2>3 DEF BansInv
  <2>5. Doomed => Doomed'
    <3>1. ASSUME Doomed, NEW w \in real'.on PROVE Contains(down', Kicked(w))
      <4>1. w \in Everyone /\ w \in real.on
        BY <1>3, <2>1, <3>1, SoundParts DEF Carries
      <4>2. line # Kicked(w)
        BY <1>3, <3>1, <4>1 DEF Carries
      <4>3. QED
        BY <1>2, <3>1, <4>1, <4>2 DEF Doomed
    <3>2. QED
      BY <3>1 DEF Doomed
  <2>6. /\ \A j : Stays(j, b)' <=> Stays(j, b)
        /\ \A j : BanOrder(j, b)' <=> BanOrder(j, b)
    BY <1>1 DEF Stays, BanOrder, Occupied
  <2>7. QED
    BY <1>1, <1>2, <2>3, <2>4, <2>5, <2>6 DEF BanGoes
<1>7. QED
  BY <1>5, <1>6

-----------------------------------------------------------------------------
(* Services read, and the daemon and its users send.                       *)

LEMMA ReceiveKeepsBans ==
  ASSUME OpsInv, BansInv, Receive
  PROVE  BansInv'
<1> DEFINE line == Head(up)
           h == Handled(line)
           n == Len(up')
<1>1. /\ SidesOK /\ up # <<>> /\ up' = Tail(up) /\ real' = real
      /\ mirror' = h.chan /\ down' = down \o h.sent /\ crossed' = crossed
  BY DEF OpsInv, Receive, Services
<1>2. /\ up' \in Seq(UpLines) /\ n \in Nat /\ Len(up) = n + 1 /\ line = up[1] /\ line \in UpLines
      /\ \A k \in 1..n : up'[k] = up[k + 1]
  <2>1. up \in Seq(UpLines)
    BY <1>1 DEF SidesOK
  <2>2. /\ Tail(up) \in Seq(UpLines) /\ Len(up) \in Nat /\ Len(up) >= 1 /\ Len(Tail(up)) = Len(up) - 1
        /\ Head(up) = up[1] /\ Head(up) \in UpLines
        /\ \A k \in 1..Len(Tail(up)) : Tail(up)[k] = up[k + 1]
    BY <1>1, <2>1, TailParts
  <2>3. Len(Tail(up)) = n
    BY <1>1
  <2> HIDE DEF n
  <2>4. QED
    BY <1>1, <2>2, <2>3
<1>3. Reads(line, h)
  BY <1>1, <1>2, ReadsLine DEF SidesOK
<1>4. DOMAIN up = 1..n + 1 /\ DOMAIN up' = 1..n
  BY <1>1, <1>2, LenProperties DEF SidesOK
<1> HIDE DEF line, h, n
<1>5. /\ h.sent \in Seq(DownLines) /\ \A m : ~Contains(h.sent, Kicked(m))
      /\ down' \in Seq(DownLines)
      /\ \A x : Contains(down', x) <=> Contains(down, x) \/ Contains(h.sent, x)
  <2>1. h.sent \in Seq(DownLines) /\ \A m : ~Contains(h.sent, Kicked(m))
    BY <1>3 DEF Reads, Sides
  <2>2. QED
    BY <1>1, <2>1, ContainsJoined, Joined DEF SidesOK
<1>6. SUFFICES ASSUME ~crossed PROVE ~Crossing(up', down') /\ \A b \in real.bans : BanGoes(b)'
  BY <1>1 DEF BansInv
<1>7. ~Crossing(up', down')
  <2>1. SUFFICES ASSUME NEW i \in DOMAIN up', up'[i].type = "sjoin",
                        NEW k \in DOMAIN down', down'[k].type = "kick"
                 PROVE  Crossing(up, down)
    BY <1>6 DEF BansInv, Crossing
  <2>2. i + 1 \in DOMAIN up /\ up[i + 1].type = "sjoin"
    BY <1>2, <1>4, <2>1
  <2>3. DOMAIN down' = 1..Len(down') /\ down'[k] \in DownLines
    BY <1>5, <2>1, LenProperties, ElementOfSeq
  <2>4. PICK m \in Everyone : down'[k] = Kicked(m)
    <3>1. \A S : Mode(S).type # "kick"
      BY DEF Mode
    <3>2. QED
      BY <2>1, <2>3, <3>1, DownLineKinds
  <2>5. Contains(down', Kicked(m))
    BY <2>1, <2>3, <2>4 DEF Contains
  <2>6. Contains(down, Kicked(m))
    BY <1>5, <2>5
  <2>7. QED
    BY <1>1, <2>2, <2>6, KicksSent DEF Crossing, SidesOK
<1>8. ASSUME NEW j \in 1..n + 1, Occupied(j + 1)
      PROVE  Occupied(j)'
  <2>1. PICK m \in Everyone : Reaches(mirror.on, up, j + 1, m)
    BY <1>8 DEF Occupied
  <2>2. m \in mirror.on /\ up[1] # Leaves(m) => m \in mirror'.on
    BY <1>1, <1>2, <1>3 DEF Reads
  <2>3. IsJoin(up[1], m) => m \in mirror'.on
    BY <1>1, <1>2, <1>3 DEF Reads
  <2>4. Reaches(mirror'.on, up', j, m)
    BY <1>2, <1>8, <2>1, <2>2, <2>3, ReachesRead
  <2>5. QED
    BY <2>1, <2>4 DEF Occupied
<1>9. ASSUME NEW j \in Nat, NEW b, Stays(j + 1, b) PROVE Stays(j, b)'
  <2>1. SUFFICES ASSUME NEW k \in j + 1..n PROVE up'[k] # Take("b", b) /\ Occupied(k + 1)'
    BY DEF Stays, n
  <2> DEFINE i == k + 1
  <2>2. /\ i \in (j + 1) + 1..Len(up) /\ k \in 1..n /\ up'[k] = up[i] /\ i \in 1..n + 1
    BY <1>2
  <2>3. up[i] # Take("b", b) /\ Occupied(i + 1)
    BY <1>9, <2>2 DEF Stays
  <2>4. Occupied(i)'
    <3>1. ASSUME NEW l, l = i PROVE Occupied(l)'
      BY <1>8, <2>2, <2>3, <3>1
    <3>2. QED
      BY <3>1, <2>2
  <2>5. QED
    BY <2>2, <2>3, <2>4
<1>10. ASSUME NEW b \in real.bans PROVE BanGoes(b)'
  <2>1. BanGoes(b) /\ b \in Masks
    BY <1>1, <1>6, <1>10, SoundParts DEF BansInv, SidesOK
  <2>2. CASE Contains(down, Take("b", b)) \/ Doomed
    BY <1>1, <1>5, <2>2 DEF BanGoes, Doomed
  <2>3. ASSUME Stays(1, b), Occupied(2), mirror'.on # {} => b \in mirror'.bans PROVE BanGoes(b)'
    <3>1. Stays(0, b)'
      <4>1. Stays(1, b)
        BY <2>3
      <4>2. QED
        BY <1>9, <4>1
    <3>2. Occupied(1)'
      BY <1>2, <1>8, <2>3
    <3>3. mirror'.on # {}
      BY <3>2, FirstReached DEF Occupied
    <3>4. QED
      BY <2>3, <3>1, <3>3 DEF BanGoes
  <2>4. CASE b \in mirror.bans /\ Stays(0, b)
    <3>1. up[1] # Take("b", b) /\ Occupied(2) /\ Stays(1, b)
      BY <1>2, <2>4 DEF Stays
    <3>2. mirror.on # {}
      BY <1>1, <2>4, SoundParts DEF SidesOK
    <3>3. mirror'.on # {} => b \in mirror'.bans
      <4>1. ASSUME NEW S \in LineChanges, line = Mode(S) PROVE b \in mirror'.bans
        <5>1. BansChanged(S, mirror.bans, mirror'.bans)
          BY <1>1, <1>3, <3>2, <4>1 DEF Reads
        <5>2. S # {Change(FALSE, "b", b)}
          BY <1>2, <3>1, <4>1 DEF Take
        <5>3. ASSUME NEW ch \in BanChanges, S = {ch} PROVE ch.on \/ ch.arg # b
          <6>1. ch = Change(ch.on, "b", ch.arg) /\ ch.on \in BOOLEAN
            BY DEF BanChanges, Changing, Change
          <6>2. QED
            BY <5>2, <5>3, <6>1
        <5>4. QED
          BY <2>4, <5>1, <5>3 DEF BansChanged, AddIf
      <4>2. CASE \A S \in LineChanges : line # Mode(S)
        BY <1>1, <1>3, <2>4, <4>2 DEF Reads
      <4>3. QED
        BY <4>1, <4>2
    <3>4. QED
      BY <2>3, <3>1, <3>3
  <2>5. ASSUME NEW j \in 1..n + 1, BanOrder(j, b) PROVE BanGoes(b)'
    <3>1. up[j] = Give("b", b) /\ Occupied(j) /\ Stays(j, b)
      BY <2>5 DEF BanOrder
    <3>2. CASE j = 1
      <4>1. mirror.on # {}
        BY <3>1, <3>2, FirstReached DEF Occupied
      <4> DEFINE ch == Change(TRUE, "b", b)
                 S == {ch}
      <4>2. ch \in BanChanges /\ S \in LineChanges /\ line = Mode(S) /\ ch.on = TRUE /\ ch.arg = b
        <5>1. line = Mode(S)
          BY <1>2, <3>1, <3>2 DEF Give
        <5>2. ch \in BanChanges /\ S \in LineChanges
          BY <2>1, LineTypes
        <5>3. QED
          BY <5>1, <5>2 DEF Change
      <4> HIDE DEF ch
      <4>3. BansChanged(S, mirror.bans, mirror'.bans)
        BY <1>1, <1>3, <4>1, <4>2 DEF Reads
      <4>4. b \in mirror'.bans
        BY <4>2, <4>3 DEF BansChanged, AddIf
      <4>5. Stays(0, b)'
        <5>1. Stays(1, b)
          BY <3>1, <3>2
        <5>2. QED
          BY <1>9, <5>1
      <4>6. QED
        BY <4>4, <4>5 DEF BanGoes
    <3>3. CASE j # 1
      <4> DEFINE i == j - 1
      <4>1. i \in 1..n /\ i \in 1..n + 1 /\ i \in Nat /\ i + 1 = j
        BY <1>2, <3>3
      <4> HIDE DEF i
      <4>2. up'[i] = Give("b", b)
        BY <1>2, <3>1, <4>1
      <4>3. Occupied(i)'
        <5>1. Occupied(i + 1)
          BY <3>1, <4>1
        <5>2. ASSUME NEW l, l = i PROVE Occupied(l)'
          BY <1>8, <4>1, <5>1, <5>2
        <5>3. QED
          BY <5>2
      <4>4. Stays(i, b)'
        <5>1. Stays(i + 1, b)
          BY <3>1, <4>1
        <5>2. ASSUME NEW l, l = i PROVE Stays(l, b)'
          BY <1>9, <4>1, <5>1, <5>2
        <5>3. QED
          BY <5>2
      <4>5. ASSUME NEW l, l = i PROVE BanOrder(l, b)'
        BY <4>2, <4>3, <4>4, <4>5 DEF BanOrder
      <4>6. QED
        BY <4>1, <4>5 DEF BanGoes, n
    <3>4. QED
      BY <3>2, <3>3
  <2>6. QED
    BY <1>2, <2>1, <2>2, <2>4, <2>5 DEF BanGoes
<1>11. QED
  BY <1>7, <1>10

\* Lines that the daemon or its users send.
LEMMA ReportKeepsBan ==
  ASSUME OpsInv, OpsInv', NEW line \in UpLines, NEW told, Report(line, told), NEW b, real'.on # {},
         line # Take("b", b), Doomed => Doomed', BanGoes(b) \/ line = Give("b", b),
         line = Give("b", b) => Doomed' \/ \E m \in Everyone : Reaches(mirror.on, up, Len(up) + 1, m)
  PROVE  BanGoes(b)'
<1>1. mirror' = mirror /\ down' = down /\ up' = Append(up, line) /\ up \in Seq(UpLines)
  BY DEF Report, OpsInv, SidesOK
<1>2. PICK n \in Nat : n = Len(up)
  BY <1>1, LenProperties
<1>3. /\ up' \in Seq(UpLines) /\ Len(up') = n + 1
      /\ \A k \in 1..n : up'[k] = up[k]
      /\ up'[n + 1] = line
  BY <1>1, <1>2, AppendedParts
<1>4. ASSUME NEW j \in 1..n + 1, Occupied(j) PROVE Occupied(j)'
  <2>1. PICK m \in Everyone : Reaches(mirror.on, up, j, m)
    BY <1>4 DEF Occupied
  <2>2. Reaches(mirror'.on, up', j, m)
    BY <1>1, <1>3, <2>1, ReachesLater
  <2>3. QED
    BY <2>2 DEF Occupied
<1>5. Doomed' \/ Occupied(n + 2)'
  <2>1. SUFFICES ASSUME NEW m \in real'.on, ~Contains(down', Kicked(m)) PROVE Occupied(n + 2)'
    BY DEF Doomed
  <2>2. m \in Everyone
    BY SoundParts DEF OpsInv, SidesOK
  <2>3. Reaches(mirror'.on, up', Len(up') + 1, m)
    BY <2>1 DEF OpsInv, MemberKnown
  <2>4. Len(up') + 1 = n + 2
    BY <1>3
  <2>5. Reaches(mirror'.on, up', n + 2, m)
    BY <2>3, <2>4
  <2>6. QED
    BY <2>2, <2>5 DEF Occupied
<1>6. CASE Doomed'
  BY <1>6 DEF BanGoes
<1>7. ASSUME Occupied(n + 2)', NEW j \in Nat, Stays(j, b) PROVE Stays(j, b)'
  <2>1. SUFFICES ASSUME NEW k \in j + 1..n + 1 PROVE up'[k] # Take("b", b) /\ Occupied(k + 1)'
    BY <1>3 DEF Stays
  <2>2. CASE k = n + 1
    <3>1. k + 1 = n + 2
      BY <2>2
    <3>2. QED
      BY <1>3, <1>7, <2>2, <3>1
  <2>3. CASE k # n + 1
    <3>1. k \in 1..n /\ k \in j + 1..n /\ k + 1 \in 1..n + 1
      BY <2>3
    <3>2. up[k] # Take("b", b) /\ Occupied(k + 1)
      BY <1>2, <1>7, <3>1 DEF Stays
    <3>3. Occupied(k + 1)'
      BY <1>4, <3>1, <3>2
    <3>4. QED
      BY <1>3, <3>1, <3>2, <3>3
  <2>4. QED
    BY <2>2, <2>3
<1>8. ASSUME Occupied(n + 2)', NEW j \in 1..n, BanOrder(j, b) PROVE BanOrder(j, b)'
  <2>1. j \in Nat /\ j \in 1..n + 1
    OBVIOUS
  <2>2. QED
    BY <1>3, <1>4, <1>7, <1>8, <2>1 DEF BanOrder
<1>9. ASSUME Occupied(n + 2)', BanGoes(b) PROVE BanGoes(b)'
  <2>1. CASE Contains(down, Take("b", b)) \/ Doomed
    BY <1>1, <2>1 DEF BanGoes
  <2>2. CASE b \in mirror.bans /\ Stays(0, b)
    BY <1>1, <1>7, <1>9, <2>2 DEF BanGoes
  <2>3. ASSUME NEW j \in 1..n, BanOrder(j, b) PROVE BanGoes(b)'
    <3>1. j \in 1..Len(up')
      BY <1>3
    <3>2. QED
      BY <1>8, <1>9, <2>3, <3>1 DEF BanGoes
  <2>4. QED
    BY <1>2, <1>9, <2>1, <2>2, <2>3 DEF BanGoes
<1>10. ASSUME line = Give("b", b), NEW m \in Everyone, Reaches(mirror.on, up, n + 1, m) PROVE BanGoes(b)'
  <2>1. n + 1 \in 1..Len(up') /\ n + 1 \in 1..n + 1 /\ (n + 1) + 1..n + 1 = {}
    BY <1>3
  <2>2. Occupied(n + 1)'
    BY <1>4, <1>10, <2>1 DEF Occupied
  <2>3. Stays(n + 1, b)'
    BY <1>3, <2>1 DEF Stays
  <2>4. BanOrder(n + 1, b)'
    BY <1>3, <1>10, <2>2, <2>3 DEF BanOrder
  <2>5. QED
    BY <2>1, <2>4 DEF BanGoes
<1>11. QED
  BY <1>2, <1>5, <1>6, <1>9, <1>10

LEMMA JoinKeepsBans ==
  ASSUME OpsInv, BansInv, OpsInv', NEW u \in Users, Join(u)
  PROVE  BansInv'
<1>1. PICK st \in SUBSET {"o"}, md \in SUBSET FlagModes :
        real' = With(real, u, st, md) /\ Report(Sjoin(u, st, md), {})
  <2>1. {} \in SUBSET FlagModes /\ Creation \in SUBSET FlagModes
    BY DEF Creation
  <2>2. QED
    BY <2>1 DEF Join
<1> DEFINE line == Sjoin(u, st, md)
<1>2. line \in UpLines /\ \A S : line # Mode(S)
  BY DEF UpLines, Sjoin, Mode
<1>3. SidesOK /\ mirror' = mirror /\ down' = down /\ up' = Append(up, line) /\ crossed' = (crossed \/ Crossing(up', down))
  BY <1>1 DEF OpsInv, Report
<1>4. Entered(real', real, u, st)
  <2>1. Entered(With(real, u, st, md), real, u, st)
    BY <1>3, WithMember, Zenon DEF SidesOK
  <2>2. QED
    BY <1>1, <2>1
<1>5. SUFFICES ASSUME ~crossed, ~Crossing(up', down), NEW b \in real'.bans PROVE BanGoes(b)'
  BY <1>3 DEF BansInv
<1>6. real' \in Sound /\ real'.on = real.on \union {u} /\ b \in real.bans /\ real.on # {}
  BY <1>3, <1>4, <1>5, SoundParts DEF Entered, SidesOK
<1>7. BanGoes(b)
  BY <1>5, <1>6 DEF BansInv
<1>8. ~Doomed
  <2>1. Len(up) + 1 \in DOMAIN up' /\ up'[Len(up) + 1] = line
    <3>1. Append(up, line) \in Seq(UpLines) /\ Len(up) \in Nat /\ Len(Append(up, line)) = Len(up) + 1 /\ Append(up, line)[Len(up) + 1] = line
      BY <1>2, <1>3, AppendedParts DEF SidesOK
    <3>2. DOMAIN up' = 1..Len(up')
      BY <1>3, <3>1, LenProperties
    <3>3. QED
      BY <1>3, <3>1, <3>2
  <2>2. line.type = "sjoin"
    BY DEF Sjoin
  <2>3. ASSUME NEW m, Contains(down, Kicked(m)) PROVE FALSE
    BY <1>3, <1>5, <2>1, <2>2, <2>3, KicksSent DEF Crossing, SidesOK
  <2>4. QED
    BY <1>6, <2>3 DEF Doomed
<1> HIDE DEF line
<1>9. line # Take("b", b) /\ line # Give("b", b)
  BY <1>2 DEF Take, Give
<1>10. Report(line, {})
  BY <1>1 DEF line
<1>11. QED
  BY <1>2, <1>6, <1>7, <1>8, <1>9, <1>10, ReportKeepsBan

LEMMA LeaveKeepsBans ==
  ASSUME OpsInv, BansInv, OpsInv', NEW u \in Everyone, Leave(u)
  PROVE  BansInv'
<1> DEFINE line == Leaves(u)
<1>1. line \in UpLines /\ \A S : line # Mode(S)
  BY OneChange DEF UpLines
<1>2. SidesOK /\ mirror' = mirror /\ down' = down /\ crossed' = (crossed \/ Crossing(up', down)) /\ Report(line, {})
  BY DEF OpsInv, Report, Leave
<1> HIDE DEF line
<1>3. SUFFICES ASSUME ~crossed, NEW b \in real'.bans PROVE BanGoes(b)'
  BY <1>2 DEF BansInv
<1>4. /\ real' \in Sound /\ real'.on = real.on \ {u} /\ real'.bans \subseteq real.bans
  BY <1>2, WithoutMember DEF SidesOK, Leave
<1>5. real'.on # {} /\ BanGoes(b)
  BY <1>3, <1>4, SoundParts DEF BansInv
<1>6. Doomed => Doomed'
  BY <1>2, <1>4 DEF Doomed
<1>7. line # Take("b", b) /\ line # Give("b", b)
  BY <1>1 DEF Take, Give
<1>8. QED
  BY <1>1, <1>2, <1>5, <1>6, <1>7, ReportKeepsBan

LEMMA OpChangesKeepBans ==
  ASSUME OpsInv, BansInv, OpsInv', NEW u \in Users, OpChanges(u)
  PROVE  BansInv'
<1>1. PICK ch \in Changes : real' = Applied(real, ch) /\ Report(Mode({ch}), {ch.letter})
  BY DEF OpChanges
<1> DEFINE S == {ch}
           line == Mode(S)
<1>2. SidesOK /\ real \in Sound /\ real.on # {}
  BY DEF OpsInv, OpChanges, SidesOK
<1>3. S \in LineChanges /\ (ch \in StatusChanges \/ ch \in BanChanges \/ ch \in Settings)
  BY <1>2, ChangesTyped
<1>4. real' = AppliedAll(real, S)
  BY <1>1, <1>2, <1>3, OneApplied
<1>5. line \in UpLines
  BY <1>3 DEF UpLines, ModeLines
<1>6. Report(line, {ch.letter}) /\ mirror' = mirror /\ down' = down /\ crossed' = (crossed \/ Crossing(up', down))
  BY <1>1 DEF Report
<1>7. real' \in Sound /\ real'.on = real.on /\ BansChanged(S, real.bans, real'.bans)
  BY <1>2, <1>3, <1>4, LineApplied
<1>8. SUFFICES ASSUME ~crossed, NEW b \in real'.bans PROVE BanGoes(b)'
  BY <1>6 DEF BansInv
<1>9. (b \in real.bans \/ line = Give("b", b)) /\ line # Take("b", b)
  <2>1. Change(FALSE, "b", b) \in BanChanges /\ Change(FALSE, "b", b).on = FALSE /\ Change(FALSE, "b", b).arg = b
    <3>1. b \in Masks
      BY <1>7, <1>8, SoundParts
    <3>2. QED
      BY <3>1, LineTypes DEF Change
  <2>2. S # {Change(FALSE, "b", b)}
    BY <1>7, <1>8, <2>1 DEF BansChanged, AddIf
  <2>3. line # Take("b", b)
    BY <2>2, ModesSame, Zenon DEF Take
  <2>4. CASE ~\E x \in BanChanges : S = {x}
    BY <1>7, <1>8, <2>3, <2>4 DEF BansChanged
  <2>5. CASE ch \in BanChanges
    <3>1. real'.bans = AddIf(ch.on, real.bans, ch.arg)
      BY <1>7, <2>5 DEF BansChanged
    <3>2. ch = Change(ch.on, "b", ch.arg) /\ ch.on \in BOOLEAN
      BY <2>5 DEF BanChanges, Changing, Change
    <3>3. b \in real.bans \/ (ch.on /\ ch.arg = b)
      BY <1>8, <3>1 DEF AddIf
    <3>4. ch.on /\ ch.arg = b => ch = Change(TRUE, "b", b)
      BY <3>2
    <3>5. ch = Change(TRUE, "b", b) => line = Give("b", b)
      BY DEF Give
    <3>6. QED
      BY <2>3, <3>3, <3>4, <3>5
  <2>6. QED
    BY <2>4, <2>5
<1> HIDE DEF line
<1>10. BanGoes(b) \/ line = Give("b", b)
  BY <1>8, <1>9 DEF BansInv
<1>11. Doomed <=> Doomed'
  BY <1>6, <1>7 DEF Doomed
<1>12. Doomed \/ \E m \in Everyone : Reaches(mirror.on, up, Len(up) + 1, m)
  <2>1. SUFFICES ASSUME NEW m \in real.on, ~Contains(down, Kicked(m))
                 PROVE  \E w \in Everyone : Reaches(mirror.on, up, Len(up) + 1, w)
    BY DEF Doomed
  <2>2. m \in Everyone /\ Reaches(mirror.on, up, Len(up) + 1, m)
    BY <1>2, <2>1, SoundParts DEF OpsInv, MemberKnown
  <2>3. QED
    BY <2>2
<1>13. QED
  BY <1>2, <1>5, <1>6, <1>7, <1>9, <1>10, <1>11, <1>12, ReportKeepsBan

LEMMA StepsKeepBans == OpsInv /\ BansInv /\ [ModesNext]_modesvars => BansInv'
<1> SUFFICES ASSUME OpsInv, BansInv, [ModesNext]_modesvars PROVE BansInv'
  OBVIOUS
<1>1. OpsInv'
  BY StepsKeepOps
<1>2. CASE UNCHANGED modesvars
  BY <1>2 DEF modesvars, BansInv, BanGoes, BanOrder, Doomed, Stays, Occupied
<1>3. CASE Receive
  BY <1>3, ReceiveKeepsBans
<1>4. CASE Deliver
  BY <1>4, DeliverKeepsBans
<1>5. ASSUME NEW u \in Users, Join(u) \/ OpChanges(u) PROVE BansInv'
  BY <1>1, <1>5, JoinKeepsBans, OpChangesKeepBans
<1>6. ASSUME NEW u \in Everyone, Leave(u) PROVE BansInv'
  BY <1>1, <1>6, LeaveKeepsBans
<1>7. CASE Commands
  <2>1. mirror \in Sound /\ BotAdmin(mirror)
    BY DEF OpsInv, SidesOK
  <2>2. PICK side : Command(side) /\ After(Here, side)
    BY <1>7, <2>1, CommandsDone, Zenon DEF CommandDone
  <2>3. QED
    BY <1>1, <2>2, CommandKeepsBans
<1>8. ModesNext =>
        \/ Receive \/ Deliver \/ Commands
        \/ \E u \in Users : Join(u) \/ OpChanges(u)
        \/ \E u \in Everyone : Leave(u)
  BY DEF ModesNext, Commands
<1>9. QED
  BY <1>2, <1>3, <1>4, <1>5, <1>6, <1>7, <1>8

(* Until a KICK of services crosses a join, every ban of the channel is     *)
(* known to services, about to be told to them, or taken off by a line on  *)
(* its way.                                                                *)
THEOREM BansInvariant == ModesSpec => [](OpsInv /\ BansInv)
<1>1. ModesInit => OpsInv /\ BansInv
  <2>1. SUFFICES ASSUME ModesInit PROVE BansInv
    BY InitOps
  <2>2. DOMAIN up = {} /\ real.bans = {}
    <3>1. up = <<>> /\ up \in Seq(UpLines) /\ Len(up) = 0
      BY <2>1, EmptySeq DEF ModesInit
    <3>2. DOMAIN up = 1..Len(up)
      BY <3>1, LenProperties
    <3>3. QED
      BY <2>1, <3>1, <3>2, FirstChannels
  <2>3. QED
    BY <2>2 DEF BansInv, Crossing
<1>2. QED
  BY <1>1, StepsKeepOps, StepsKeepBans, PTL DEF ModesSpec

(* When every line has been read, services know every ban of the channel,   *)
(* unless a KICK of theirs has crossed a join: UNBAN and CLEAR BANS miss   *)
(* none.                                                                   *)
THEOREM BansAlwaysKnown == ModesSpec => []BansKnown
<1>1. OpsInv /\ BansInv => BansKnown
  <2>1. SUFFICES ASSUME OpsInv, BansInv, up = <<>>, down = <<>>, ~crossed, NEW b \in real.bans
                 PROVE  b \in mirror.bans
    BY DEF BansKnown, Quiet
  <2>2. \A x : ~Contains(down, x)
    BY <2>1, NothingSent
  <2>3. 1..Len(up) = {}
    BY <2>1, EmptySeq
  <2>4. ~Doomed
    BY <2>1, <2>2, SoundParts DEF Doomed, OpsInv, SidesOK
  <2>5. QED
    BY <2>1, <2>2, <2>3, <2>4 DEF BansInv, BanGoes
<1>2. QED
  BY <1>1, BansInvariant, PTL

=============================================================================
