--------------------------- MODULE ChanServ_proofs ---------------------------
(***************************************************************************)
(* Registered channels, for any channels, nicks, users, bots and masks:    *)
(* the record in memory is that of the row, suspensions and bans are in    *)
(* force, and successors inherit.                                          *)
(***************************************************************************)
EXTENDS ChanServ, TLAPS

Row == [scid : Nat, founder : Nicks \union {NONE}, successor : Nicks \union {NONE},
        suspended : BOOLEAN]

CR == [row : Row, loaded : BOOLEAN, akicks : SUBSET Masks]

(* A nick is not its own successor: SET FOUNDER and SET SUCCESSOR refuse   *)
(* both the founder and the successor, and every change of a founder       *)
(* clears the successor. It is what makes the order of the two tests of    *)
(* ev_cs_nick_delete harmless.                                             *)
OwnSuccessor(row) == row.founder = row.successor /\ row.founder # NONE

Typed ==
  /\ users \in [Chans -> SUBSET Users]
  /\ local \in [Chans -> Bots \union {ChanServ, NONE}]
  /\ sdata \in [Chans -> CR]
  /\ chanserv \in [Chans -> Row]
  /\ suspensions \subseteq Chans
  /\ cs_akick \in [Chans -> SUBSET Masks]
  /\ nicks \subseteq Nicks
  /\ botserv_chans \in [Chans -> Bots \union {NONE}]
  /\ next_scid \in Nat \ {0}

(* An scid names one channel and is never handed out again, and a row or   *)
(* record without one is no row or record.                                 *)
ScidsUnique ==
  /\ \A c \in Chans : chanserv[c].scid < next_scid
  /\ \A c \in Chans : chanserv[c].scid = 0 => chanserv[c] = NoRow
  /\ \A c \in Chans : sdata[c].row.scid = 0 => sdata[c] = NoCR
  /\ \A c, d \in Chans : chanserv[c].scid = chanserv[d].scid /\ chanserv[c].scid # 0 => c = d

NoOwnSuccessor ==
  \A c \in Chans : ~OwnSuccessor(chanserv[c]) /\ ~OwnSuccessor(sdata[c].row)

ChanServInv ==
  /\ Typed
  /\ ScidsUnique
  /\ NoOwnSuccessor
  /\ RecordOfRow
  /\ SuspensionInForce
  /\ AkicksInForce

-----------------------------------------------------------------------------
(* The invariant channel by channel: what holds of a channel with users u, *)
(* local user l, record s, row t and bans a; b says that it is suspended.  *)

Used(u, l) == u # {} \/ l # NONE

Sound(u, l, s, t, b, a) ==
  /\ u \subseteq Users /\ l \in Bots \union {ChanServ, NONE}
  /\ s \in CR /\ t \in Row /\ a \subseteq Masks
  /\ t.scid = 0 => t = NoRow
  /\ s.row.scid = 0 => s = NoCR
  /\ ~OwnSuccessor(t) /\ ~OwnSuccessor(s.row)
  /\ s.row.scid = IF Used(u, l) THEN t.scid ELSE 0
  /\ b => t.suspended /\ (s # NoCR => s.row.suspended)
  /\ s.loaded => a \subseteq s.akicks

(* The variables are functions of the channels.                            *)
Functions(us, lo, sd, t, a) ==
  /\ us = [c \in Chans |-> us[c]] /\ lo = [c \in Chans |-> lo[c]]
  /\ sd = [c \in Chans |-> sd[c]] /\ t = [c \in Chans |-> t[c]]
  /\ a = [c \in Chans |-> a[c]]

LEMMA ByChannel ==
  ASSUME ChanServInv
  PROVE  /\ Functions(users, local, sdata, chanserv, cs_akick)
         /\ \A c \in Chans : Sound(users[c], local[c], sdata[c], chanserv[c],
                                   c \in suspensions, cs_akick[c])
         /\ suspensions \subseteq Chans
         /\ nicks \subseteq Nicks /\ botserv_chans \in [Chans -> Bots \union {NONE}]
         /\ next_scid \in Nat \ {0}
         /\ \A c \in Chans : chanserv[c].scid < next_scid
         /\ \A c, d \in Chans :
              chanserv[c].scid = chanserv[d].scid /\ chanserv[c].scid # 0 => c = d
<1>1. Functions(users, local, sdata, chanserv, cs_akick)
  BY DEF ChanServInv, Typed, Functions
<1>2. ASSUME NEW c \in Chans
      PROVE  Sound(users[c], local[c], sdata[c], chanserv[c], c \in suspensions, cs_akick[c])
  BY DEF ChanServInv, Typed, ScidsUnique, NoOwnSuccessor, RecordOfRow, SuspensionInForce,
         AkicksInForce, InUse, Sound, Used
<1>3. QED
  BY <1>1, <1>2 DEF ChanServInv, Typed, ScidsUnique

LEMMA FromChannels ==
  ASSUME Functions(users', local', sdata', chanserv', cs_akick'),
         \A c \in Chans : Sound(users'[c], local'[c], sdata'[c], chanserv'[c],
                                c \in suspensions', cs_akick'[c]),
         suspensions' \subseteq Chans,
         nicks' \subseteq Nicks, botserv_chans' \in [Chans -> Bots \union {NONE}],
         next_scid' \in Nat \ {0},
         \A c \in Chans : chanserv'[c].scid < next_scid',
         \A c, d \in Chans :
           chanserv'[c].scid = chanserv'[d].scid /\ chanserv'[c].scid # 0 => c = d
  PROVE  ChanServInv'
<1>1. /\ users' \in [Chans -> SUBSET Users]
      /\ local' \in [Chans -> Bots \union {ChanServ, NONE}]
  <2>1. \A c \in Chans : users'[c] \in SUBSET Users /\ local'[c] \in Bots \union {ChanServ, NONE}
    BY DEF Sound
  <2>2. QED
    BY <2>1 DEF Functions
<1>2. sdata' \in [Chans -> CR] /\ chanserv' \in [Chans -> Row]
  <2>1. \A c \in Chans : sdata'[c] \in CR /\ chanserv'[c] \in Row
    BY DEF Sound
  <2>2. QED
    BY <2>1 DEF Functions
<1>3. cs_akick' \in [Chans -> SUBSET Masks]
  <2>1. \A c \in Chans : cs_akick'[c] \in SUBSET Masks
    BY DEF Sound
  <2>2. QED
    BY <2>1 DEF Functions
<1>4. Typed'
  BY <1>1, <1>2, <1>3 DEF Typed
<1>5. ScidsUnique' /\ NoOwnSuccessor'
  BY DEF Sound, ScidsUnique, NoOwnSuccessor
<1>6. RecordOfRow' /\ SuspensionInForce' /\ AkicksInForce'
  BY DEF Sound, RecordOfRow, SuspensionInForce, AkicksInForce, InUse, Used
<1>7. QED
  BY <1>4, <1>5, <1>6 DEF ChanServInv

(* A step that gives no scid, takes some away and leaves every channel     *)
(* sound                                                                   *)
LEMMA StepKeeps ==
  ASSUME ChanServInv,
         Functions(users', local', sdata', chanserv', cs_akick'),
         \A c \in Chans : Sound(users'[c], local'[c], sdata'[c], chanserv'[c],
                                c \in suspensions', cs_akick'[c]),
         \A c \in Chans : chanserv'[c].scid \in {0, chanserv[c].scid},
         suspensions' \subseteq Chans, nicks' \subseteq nicks,
         botserv_chans' \in [Chans -> Bots \union {NONE}], next_scid' = next_scid
  PROVE  ChanServInv'
<1>1. \A c \in Chans : chanserv[c].scid \in Nat /\ chanserv[c].scid < next_scid
  BY ByChannel DEF Sound, Row
<1>2. /\ nicks' \subseteq Nicks /\ next_scid' \in Nat \ {0}
      /\ \A c \in Chans : chanserv'[c].scid < next_scid'
  BY <1>1, ByChannel
<1>3. \A c, d \in Chans :
        chanserv'[c].scid = chanserv'[d].scid /\ chanserv'[c].scid # 0 => c = d
  BY ByChannel
<1>4. QED
  BY <1>2, <1>3, FromChannels

-----------------------------------------------------------------------------
(* Records                                                                 *)

LEMMA NoRecord ==
  /\ NoRow \in Row /\ NoRow.scid = 0 /\ NoRow.suspended = FALSE /\ ~OwnSuccessor(NoRow)
  /\ NoCR \in CR /\ NoCR.row = NoRow /\ NoCR.loaded = FALSE
  /\ NONE \notin Nicks /\ NONE \notin Bots /\ NONE # ChanServ
BY ChanServAssumption DEF NoRow, Row, NoCR, NewCR, CR, OwnSuccessor

LEMMA NewRecord ==
  ASSUME NEW row \in Row
  PROVE  /\ NewCR(row) \in CR /\ NewCR(row).row = row /\ NewCR(row).loaded = FALSE
         /\ row.scid # 0 => NewCR(row) # NoCR
BY NoRecord DEF NewCR, CR

(* OpenCR comes back with the record of the row, or with nothing when the  *)
(* channel is not registered.                                              *)
LEMMA OpenedRecord ==
  ASSUME ChanServInv, NEW c \in Chans
  PROVE  /\ Opened(c) = NoCR => sdata[c] = NoCR /\ chanserv[c] = NoRow
         /\ Opened(c) # NoCR =>
              /\ Opened(c) \in CR
              /\ Opened(c).row \in Row
              /\ Opened(c).row.scid = chanserv[c].scid /\ chanserv[c].scid # 0
              /\ ~OwnSuccessor(Opened(c).row)
              /\ Opened(c).loaded => cs_akick[c] \subseteq Opened(c).akicks
              /\ c \in suspensions => Opened(c).row.suspended
              /\ Opened(c) = sdata[c] \/ (sdata[c] = NoCR /\ Opened(c) = NewCR(chanserv[c]))
<1>1. Sound(users[c], local[c], sdata[c], chanserv[c], c \in suspensions, cs_akick[c])
  BY ByChannel
<1>2. CASE sdata[c] # NoCR
  <2>1. Opened(c) = sdata[c] /\ sdata[c].row.scid # 0
    BY <1>1, <1>2 DEF Opened, Sound
  <2>2. QED
    BY <1>1, <1>2, <2>1 DEF Sound, CR
<1>3. CASE sdata[c] = NoCR /\ chanserv[c].scid # 0
  <2>1. \E row \in {chanserv[d] : d \in Chans} : row.scid = chanserv[c].scid
    OBVIOUS
  <2>2. \A row \in {chanserv[d] : d \in Chans} : row.scid = chanserv[c].scid => row = chanserv[c]
    BY <1>3, ByChannel
  <2>3. (CHOOSE row \in {chanserv[d] : d \in Chans} : row.scid = chanserv[c].scid) = chanserv[c]
    BY <2>1, <2>2
  <2>4. Opened(c) = NewCR(chanserv[c])
    BY <1>3, <2>3 DEF Opened, db_mysql_chan2scid, db_mysql_get_cr
  <2>5. QED
    BY <1>1, <1>3, <2>4, NewRecord DEF Sound
<1>4. CASE sdata[c] = NoCR /\ chanserv[c].scid = 0
  BY <1>1, <1>4 DEF Opened, Sound, db_mysql_chan2scid
<1>5. QED
  BY <1>2, <1>3, <1>4

(* UpdateCR writes the row over one of the same scid or not at all.        *)
LEMMA UpdatedTable ==
  ASSUME ChanServInv, NEW c \in Chans, NEW row \in Row, row.scid = chanserv[c].scid
  PROVE  /\ Updated(chanserv, c, row) = [d \in Chans |-> Updated(chanserv, c, row)[d]]
         /\ Updated(chanserv, c, row)[c] \in {chanserv[c], row}
         /\ \A d \in Chans : d # c => Updated(chanserv, c, row)[d] = chanserv[d]
         /\ \A d \in Chans : Updated(chanserv, c, row)[d].scid = chanserv[d].scid
<1>1. chanserv \in [Chans -> Row]
  BY DEF ChanServInv, Typed
<1>2. CASE chanserv[c].scid = row.scid /\ ForeignKeysHold(row)
  <2>1. Updated(chanserv, c, row) = [chanserv EXCEPT ![c] = row]
    BY <1>2 DEF Updated
  <2>2. QED
    BY <1>1, <2>1
<1>3. CASE ~(chanserv[c].scid = row.scid /\ ForeignKeysHold(row))
  <2>1. Updated(chanserv, c, row) = chanserv
    BY <1>3 DEF Updated
  <2>2. QED
    BY <1>1, <2>1
<1>4. QED
  BY <1>2, <1>3

-----------------------------------------------------------------------------
(* The steps                                                               *)

(* A step of one channel                                                   *)
LEMMA OneChannelKeeps ==
  ASSUME ChanServInv, NEW c \in Chans,
         Functions(users', local', sdata', chanserv', cs_akick'),
         \A d \in Chans : d # c => /\ users'[d] = users[d] /\ local'[d] = local[d]
                                   /\ sdata'[d] = sdata[d] /\ chanserv'[d] = chanserv[d]
                                   /\ cs_akick'[d] = cs_akick[d]
                                   /\ d \in suspensions' <=> d \in suspensions,
         Sound(users'[c], local'[c], sdata'[c], chanserv'[c], c \in suspensions', cs_akick'[c]),
         chanserv'[c].scid \in {0, chanserv[c].scid},
         suspensions' \subseteq Chans, nicks' \subseteq nicks,
         botserv_chans' \in [Chans -> Bots \union {NONE}], next_scid' = next_scid
  PROVE  ChanServInv'
<1>1. ASSUME NEW d \in Chans
      PROVE  /\ Sound(users'[d], local'[d], sdata'[d], chanserv'[d], d \in suspensions', cs_akick'[d])
             /\ chanserv'[d].scid \in {0, chanserv[d].scid}
  <2>1. CASE d = c
    BY <2>1
  <2>2. CASE d # c
    <3>1. Sound(users[d], local[d], sdata[d], chanserv[d], d \in suspensions, cs_akick[d])
      BY ByChannel
    <3>2. (d \in suspensions') = (d \in suspensions)
      BY <2>2
    <3>3. QED
      BY <2>2, <3>1, <3>2
  <2>3. QED
    BY <2>1, <2>2
<1>2. QED
  BY <1>1, StepKeeps

(* A record that stays what it is but for its bans, on a channel in use    *)
LEMMA JoinSound ==
  ASSUME ChanServInv, NEW c \in Chans, Opened(c) # NoCR,
         NEW u \in SUBSET Users, NEW l \in Bots \union {ChanServ, NONE}, Used(u, l),
         NEW s \in CR, s.row = Opened(c).row, s.loaded, cs_akick[c] \subseteq s.akicks,
         NEW t \in {chanserv[c], Opened(c).row}
  PROVE  Sound(u, l, s, t, c \in suspensions, cs_akick[c])
<1>1. Sound(users[c], local[c], sdata[c], chanserv[c], c \in suspensions, cs_akick[c])
  BY ByChannel
<1>2. QED
  BY <1>1, OpenedRecord, NoRecord DEF Sound

(* load_akicks_for                                                         *)
LEMMA LoadedRecord ==
  ASSUME NEW c \in Chans, NEW r \in CR, cs_akick[c] \subseteq Masks,
         r.loaded => cs_akick[c] \subseteq r.akicks
  PROVE  /\ Loaded(c, r) \in CR /\ Loaded(c, r).row = r.row /\ Loaded(c, r).loaded
         /\ cs_akick[c] \subseteq Loaded(c, r).akicks
<1>1. CASE r.loaded
  BY <1>1 DEF Loaded
<1>2. CASE ~r.loaded
  <2>1. Loaded(c, r) = [row |-> r.row, loaded |-> TRUE, akicks |-> cs_akick[c]]
    BY <1>2 DEF Loaded, CR
  <2>2. QED
    BY <2>1 DEF CR
<1>3. QED
  BY <1>1, <1>2

(* The list of a record after a mask was taken off                         *)
LEMMA WithoutMask ==
  ASSUME NEW r \in CR, NEW M
  PROVE  LET q == [r EXCEPT !.akicks = @ \ M] IN
         q \in CR /\ q.row = r.row /\ q.loaded = r.loaded /\ q.akicks = r.akicks \ M
BY DEF CR

(* What the join of a user to a registered channel comes to                *)
LEMMA PassesAkicksResult ==
  ASSUME NEW c \in Chans, NEW u \in Users, NEW r \in CR, r.loaded, cs_akick[c] \subseteq r.akicks,
         PassesAkicks(c, u, r)
  PROVE  \E s \in CR : /\ s.row = r.row /\ s.loaded /\ cs_akick[c] \subseteq s.akicks
                       /\ Joins(c, u, s) \/ Kicked(c, s)
<1> DEFINE matching == {m \in r.akicks : u \in m}
<1>1. CASE Kicked(c, r) \/ PassesRoles(c, u, r)
  BY <1>1 DEF PassesRoles
<1>2. CASE \E m \in matching \ cs_akick[c] : PassesRoles(c, u, [r EXCEPT !.akicks = @ \ {m}])
  <2>1. PICK m \in matching \ cs_akick[c] : PassesRoles(c, u, [r EXCEPT !.akicks = @ \ {m}])
    BY <1>2
  <2>2. LET q == [r EXCEPT !.akicks = @ \ {m}] IN
        q \in CR /\ q.row = r.row /\ q.loaded = r.loaded /\ q.akicks = r.akicks \ {m}
    BY WithoutMask
  <2>3. QED
    BY <2>1, <2>2 DEF PassesRoles
<1>3. QED
  BY <1>1, <1>2 DEF PassesAkicks

LEMMA JoinKeeps ==
  ASSUME ChanServInv, NEW c \in Chans, NEW u \in Users, Join(c, u)
  PROVE  ChanServInv'
<1>1. /\ Functions(users, local, sdata, chanserv, cs_akick)
      /\ Sound(users[c], local[c], sdata[c], chanserv[c], c \in suspensions, cs_akick[c])
      /\ suspensions \subseteq Chans /\ botserv_chans \in [Chans -> Bots \union {NONE}]
  BY ByChannel
<1>2. UNCHANGED <<suspensions, cs_akick, nicks, botserv, botserv_chans, online, next_scid>>
  BY DEF Join
<1>3. CASE Opened(c) = NoCR
  <2>1. /\ users' = [users EXCEPT ![c] = @ \union {u}] /\ UNCHANGED <<local, chanserv>>
        /\ sdata' = [sdata EXCEPT ![c] = NoCR]
    BY <1>3 DEF Join, Joins, Attach
  <2>2. Functions(users', local', sdata', chanserv', cs_akick')
    BY <1>1, <1>2, <2>1 DEF Functions
  <2>3. users'[c] = users[c] \union {u} /\ sdata'[c] = NoCR /\ sdata[c] = NoCR /\ chanserv[c] = NoRow
    BY <1>1, <1>3, <2>1, OpenedRecord DEF Functions
  <2>4. \A d \in Chans : d # c => users'[d] = users[d] /\ sdata'[d] = sdata[d]
    BY <1>1, <2>1 DEF Functions
  <2>5. Sound(users'[c], local'[c], sdata'[c], chanserv'[c], c \in suspensions', cs_akick'[c])
    BY <1>1, <1>2, <2>1, <2>3, NoRecord DEF Sound
  <2>6. QED
    BY <1>1, <1>2, <2>1, <2>2, <2>4, <2>5, OneChannelKeeps
<1>4. CASE Opened(c) # NoCR
  <2> DEFINE r == Loaded(c, Opened(c))
  <2>1. r \in CR /\ r.row = Opened(c).row /\ r.loaded /\ cs_akick[c] \subseteq r.akicks
    BY <1>1, <1>4, OpenedRecord, LoadedRecord DEF Sound
  <2>2. chanserv' = chanserv \/ chanserv' = Updated(chanserv, c, Opened(c).row)
    BY <1>4 DEF Join, MaySave
  <2>3. PassesAkicks(c, u, r)
    BY <1>4 DEF Join
  <2>4. PICK s \in CR : /\ s.row = r.row /\ s.loaded /\ cs_akick[c] \subseteq s.akicks
                        /\ Joins(c, u, s) \/ Kicked(c, s)
    BY <2>1, <2>3, PassesAkicksResult
  <2> HIDE DEF r
  <2>5. /\ chanserv' = [d \in Chans |-> chanserv'[d]]
        /\ chanserv'[c] \in {chanserv[c], Opened(c).row}
        /\ \A d \in Chans : d # c => chanserv'[d] = chanserv[d]
        /\ chanserv'[c].scid = chanserv[c].scid
    <3>1. Opened(c).row \in Row /\ Opened(c).row.scid = chanserv[c].scid
      BY <1>4, OpenedRecord
    <3>2. CASE chanserv' = chanserv
      BY <1>1, <3>2 DEF Functions
    <3>3. CASE chanserv' = Updated(chanserv, c, Opened(c).row)
      BY <3>1, <3>3, UpdatedTable
    <3>4. QED
      BY <2>2, <3>2, <3>3
  <2>6. /\ sdata' = [sdata EXCEPT ![c] = s]
        /\ \/ users' = [users EXCEPT ![c] = @ \union {u}] /\ UNCHANGED local
           \/ UNCHANGED <<users, local>> /\ Used(users[c], local[c])
           \/ UNCHANGED users /\ local' = [local EXCEPT ![c] = ChanServ]
    BY <2>4 DEF Joins, Kicked, Attach, InUse, Used
  <2>7. Functions(users', local', sdata', chanserv', cs_akick')
    BY <1>1, <1>2, <2>5, <2>6 DEF Functions
  <2>8. \A d \in Chans : d # c => users'[d] = users[d] /\ sdata'[d] = sdata[d] /\ local'[d] = local[d]
    BY <1>1, <2>6 DEF Functions
  <2>9. /\ users'[c] \in SUBSET Users /\ local'[c] \in Bots \union {ChanServ, NONE}
        /\ Used(users'[c], local'[c]) /\ sdata'[c] = s
    BY <1>1, <2>6, NoRecord DEF Functions, Sound, Used
  <2>10. Sound(users'[c], local'[c], s, chanserv'[c], c \in suspensions, cs_akick[c])
    BY <1>4, <2>1, <2>4, <2>5, <2>9, JoinSound
  <2>11. QED
    BY <1>1, <1>2, <2>5, <2>7, <2>8, <2>9, <2>10, OneChannelKeeps
<1>5. QED
  BY <1>3, <1>4

(* A channel with fewer members keeps its record or, without any, closes   *)
(* it.                                                                     *)
LEMMA ClosedSound ==
  ASSUME ChanServInv, NEW c \in Chans,
         NEW u \in SUBSET Users, NEW l \in Bots \union {ChanServ, NONE},
         Used(u, l) => Used(users[c], local[c])
  PROVE  Sound(u, l, IF Used(u, l) THEN sdata[c] ELSE NoCR, chanserv[c],
               c \in suspensions, cs_akick[c])
<1>1. Sound(users[c], local[c], sdata[c], chanserv[c], c \in suspensions, cs_akick[c])
  BY ByChannel
<1>2. QED
  BY <1>1, NoRecord DEF Sound

(* Some members leave, the table stays.                                    *)
LEMMA LeavingKeeps ==
  ASSUME ChanServInv,
         users' = [c \in Chans |-> users'[c]], local' = [c \in Chans |-> local'[c]],
         \A c \in Chans : users'[c] \subseteq users[c] /\ local'[c] \in {NONE, local[c]},
         sdata' = Closed(sdata, users', local'),
         UNCHANGED <<chanserv, suspensions, cs_akick, nicks, next_scid>>,
         botserv_chans' \in [Chans -> Bots \union {NONE}]
  PROVE  ChanServInv'
<1>1. Functions(users', local', sdata', chanserv', cs_akick')
  BY ByChannel DEF Functions, Closed
<1>2. ASSUME NEW c \in Chans
      PROVE  Sound(users'[c], local'[c], sdata'[c], chanserv'[c], c \in suspensions', cs_akick'[c])
  <2>1. Sound(users[c], local[c], sdata[c], chanserv[c], c \in suspensions, cs_akick[c])
    BY ByChannel
  <2>2. users'[c] \in SUBSET Users /\ local'[c] \in Bots \union {ChanServ, NONE}
    BY <2>1 DEF Sound
  <2>3. Used(users'[c], local'[c]) => Used(users[c], local[c])
    BY DEF Used
  <2>4. sdata'[c] = IF Used(users'[c], local'[c]) THEN sdata[c] ELSE NoCR
    BY DEF Closed, InUse, Used
  <2>5. QED
    BY <2>2, <2>3, <2>4, ClosedSound
<1>3. QED
  BY <1>1, <1>2, ByChannel, StepKeeps

LEMMA LeaveKeeps ==
  ASSUME ChanServInv, NEW c \in Chans, NEW u \in Users, Leave(c, u)
  PROVE  ChanServInv'
<1>1. Functions(users, local, sdata, chanserv, cs_akick) /\ botserv_chans' \in [Chans -> Bots \union {NONE}]
  BY ByChannel DEF Leave
<1>2. /\ users' = [d \in Chans |-> users'[d]] /\ local' = [d \in Chans |-> local'[d]]
      /\ \A d \in Chans : users'[d] \subseteq users[d] /\ local'[d] \in {NONE, local[d]}
  BY <1>1 DEF Leave, Functions
<1>3. QED
  BY <1>1, <1>2, LeavingKeeps DEF Leave

(* LocalLeaves, BotDrop, BotUnassign                                       *)
LEMMA LocalsLeaveKeeps ==
  ASSUME ChanServInv, NEW C, NEW L, LocalsLeave(C, L),
         UNCHANGED <<users, chanserv, suspensions, cs_akick, nicks, next_scid>>,
         botserv_chans' \in [Chans -> Bots \union {NONE}]
  PROVE  ChanServInv'
<1>1. Functions(users, local, sdata, chanserv, cs_akick)
  BY ByChannel
<1>2. /\ users' = [d \in Chans |-> users'[d]] /\ local' = [d \in Chans |-> local'[d]]
      /\ \A d \in Chans : users'[d] \subseteq users[d] /\ local'[d] \in {NONE, local[d]}
  BY <1>1 DEF LocalsLeave, Functions
<1>3. sdata' = Closed(sdata, users', local')
  BY DEF LocalsLeave
<1>4. QED
  BY <1>2, <1>3, LeavingKeeps

-----------------------------------------------------------------------------
(* Commands                                                                *)

LEMMA RegisterKeeps ==
  ASSUME ChanServInv, NEW c \in Chans, NEW n \in Nicks, Register(c, n)
  PROVE  ChanServInv'
<1> DEFINE row == [scid |-> next_scid, founder |-> n, successor |-> NONE, suspended |-> FALSE]
<1>1. /\ Functions(users, local, sdata, chanserv, cs_akick)
      /\ Sound(users[c], local[c], sdata[c], chanserv[c], c \in suspensions, cs_akick[c])
      /\ next_scid \in Nat \ {0}
  BY ByChannel
<1>2. sdata[c] = NoCR /\ chanserv[c] = NoRow
  BY OpenedRecord DEF Register
<1>3. row \in Row /\ row.scid = next_scid /\ row.scid # 0 /\ ~OwnSuccessor(row)
  BY <1>1, NoRecord DEF Row, OwnSuccessor
<1>4. NewCR(row) \in CR /\ NewCR(row).row = row /\ NewCR(row).loaded = FALSE
  BY <1>3, NewRecord
<1>5. /\ users[c] # {} /\ chanserv' = [chanserv EXCEPT ![c] = row]
      /\ sdata' = [sdata EXCEPT ![c] = NewCR(row)] /\ next_scid' = next_scid + 1
      /\ UNCHANGED <<users, local, suspensions, cs_akick, nicks, botserv_chans>>
  BY <1>4 DEF Register, InsertedCR, Attach
<1> HIDE DEF row
<1>6. Functions(users', local', sdata', chanserv', cs_akick')
  BY <1>1, <1>5 DEF Functions
<1>7. /\ chanserv'[c] = row /\ sdata'[c] = NewCR(row)
      /\ \A d \in Chans : d # c => chanserv'[d] = chanserv[d] /\ sdata'[d] = sdata[d]
  BY <1>1, <1>5 DEF Functions
<1>8. c \notin suspensions
  BY <1>1, <1>2, NoRecord DEF Sound
<1>9. ASSUME NEW d \in Chans
      PROVE  Sound(users'[d], local'[d], sdata'[d], chanserv'[d], d \in suspensions', cs_akick'[d])
  <2>1. CASE d = c
    BY <2>1, <1>1, <1>3, <1>4, <1>5, <1>7, <1>8 DEF Sound, Used
  <2>2. CASE d # c
    BY <2>2, <1>5, <1>7, ByChannel
  <2>3. QED
    BY <2>1, <2>2
<1>10. \A d \in Chans : chanserv[d].scid \in Nat /\ chanserv[d].scid < next_scid
  BY ByChannel DEF Sound, Row
<1>11. \A d \in Chans : chanserv'[d].scid < next_scid'
  BY <1>1, <1>3, <1>5, <1>7, <1>10
<1>12. \A d, e \in Chans :
         chanserv'[d].scid = chanserv'[e].scid /\ chanserv'[d].scid # 0 => d = e
  BY <1>1, <1>3, <1>7, <1>10, ByChannel
<1>13. QED
  BY <1>1, <1>5, <1>6, <1>9, <1>11, <1>12, ByChannel, FromChannels

(* Store writes to the row, unless a foreign key refuses it, and to the    *)
(* record that is attached.                                                *)
LEMMA StoreKeeps ==
  ASSUME ChanServInv, NEW c \in Chans, Opened(c) # NoCR,
         NEW row \in Row, row.scid = Opened(c).row.scid, ~OwnSuccessor(row),
         row.suspended = Opened(c).row.suspended, Store(c, row),
         UNCHANGED <<users, local, suspensions, cs_akick, nicks, botserv, botserv_chans, online,
                     next_scid>>
  PROVE  ChanServInv'
<1>1. /\ Functions(users, local, sdata, chanserv, cs_akick)
      /\ Sound(users[c], local[c], sdata[c], chanserv[c], c \in suspensions, cs_akick[c])
  BY ByChannel
<1>2. row.scid = chanserv[c].scid /\ row.scid # 0 /\ (c \in suspensions => row.suspended)
  BY OpenedRecord
<1>3. /\ chanserv' = [d \in Chans |-> chanserv'[d]]
      /\ chanserv'[c] \in {chanserv[c], row}
      /\ \A d \in Chans : d # c => chanserv'[d] = chanserv[d]
      /\ chanserv'[c].scid = chanserv[c].scid
  BY <1>2, UpdatedTable DEF Store
<1> DEFINE s == [sdata[c] EXCEPT !.row = row]
<1>4. s \in CR /\ s.row = row /\ s.loaded = sdata[c].loaded /\ s.akicks = sdata[c].akicks
  BY <1>1 DEF Sound, CR
<1>5. sdata' = IF sdata[c] = NoCR THEN sdata ELSE [sdata EXCEPT ![c] = s]
  BY DEF Store
<1> HIDE DEF s
<1>6. /\ sdata' = [d \in Chans |-> sdata'[d]]
      /\ sdata'[c] = IF sdata[c] = NoCR THEN NoCR ELSE s
      /\ \A d \in Chans : d # c => sdata'[d] = sdata[d]
  BY <1>1, <1>5 DEF Functions
<1>7. Sound(users[c], local[c], sdata'[c], chanserv'[c], c \in suspensions, cs_akick[c])
  <2>1. CASE sdata[c] = NoCR
    BY <2>1, <1>1, <1>2, <1>3, <1>6, NoRecord DEF Sound
  <2>2. CASE sdata[c] # NoCR
    <3>1. s.row.scid # 0 /\ sdata[c].row.scid # 0
      BY <2>2, <1>1, <1>2, <1>4 DEF Sound
    <3>2. QED
      BY <2>2, <3>1, <1>1, <1>2, <1>3, <1>4, <1>6 DEF Sound
  <2>3. QED
    BY <2>1, <2>2
<1>8. Functions(users', local', sdata', chanserv', cs_akick')
  BY <1>1, <1>3, <1>6 DEF Functions
<1>9. QED
  BY <1>1, <1>3, <1>6, <1>7, <1>8, ByChannel, OneChannelKeeps

(* SET, SSET and ev_cs_chan_topic write a row that differs in the founder  *)
(* or the successor, which are not made the same nick.                     *)
LEMMA SetKeeps ==
  ASSUME ChanServInv, NEW c \in Chans,
         SetOption(c) \/ \E n \in Nicks : SetFounder(c, n) \/ SetSuccessor(c, n)
  PROVE  ChanServInv'
<1>1. /\ Opened(c) # NoCR /\ Opened(c).row \in Row /\ ~OwnSuccessor(Opened(c).row)
  BY OpenedRecord DEF SetOption, SetFounder, SetSuccessor
<1>2. UNCHANGED <<users, local, suspensions, cs_akick, nicks, botserv, botserv_chans, online,
                  next_scid>>
  BY DEF SetOption, SetFounder, SetSuccessor
<1>3. CASE SetOption(c)
  BY <1>1, <1>2, <1>3, StoreKeeps DEF SetOption
<1>4. ASSUME NEW n \in Nicks, SetFounder(c, n) PROVE ChanServInv'
  <2> DEFINE row == [Opened(c).row EXCEPT !.founder = n]
  <2>1. /\ row \in Row /\ row.scid = Opened(c).row.scid /\ ~OwnSuccessor(row)
        /\ row.suspended = Opened(c).row.suspended
    BY <1>1, <1>4 DEF SetFounder, Row, OwnSuccessor
  <2>2. Store(c, row)
    BY <1>4 DEF SetFounder
  <2> HIDE DEF row
  <2>3. QED
    BY <1>1, <1>2, <2>1, <2>2, StoreKeeps
<1>5. ASSUME NEW n \in Nicks, SetSuccessor(c, n) PROVE ChanServInv'
  <2> DEFINE row == [Opened(c).row EXCEPT !.successor = n]
  <2>1. /\ row \in Row /\ row.scid = Opened(c).row.scid /\ ~OwnSuccessor(row)
        /\ row.suspended = Opened(c).row.suspended
    BY <1>1, <1>5 DEF SetSuccessor, Row, OwnSuccessor
  <2>2. Store(c, row)
    BY <1>5 DEF SetSuccessor
  <2> HIDE DEF row
  <2>3. QED
    BY <1>1, <1>2, <2>1, <2>2, StoreKeeps
<1>6. QED
  BY <1>3, <1>4, <1>5

(* SUSPEND and UNSUSPEND: the row and the record are told.                 *)
LEMMA SuspensionKeeps ==
  ASSUME ChanServInv, NEW c \in Chans, Suspend(c) \/ Unsuspend(c)
  PROVE  ChanServInv'
<1>1. /\ Functions(users, local, sdata, chanserv, cs_akick)
      /\ Sound(users[c], local[c], sdata[c], chanserv[c], c \in suspensions, cs_akick[c])
      /\ suspensions \subseteq Chans
  BY ByChannel
<1>2. ASSUME NEW x \in BOOLEAN, Suspended(chanserv, c, x) = chanserv',
             RecordSuspended(sdata, c, x) = sdata', x = (c \in suspensions'),
             suspensions' \subseteq Chans, chanserv[c] # NoRow,
             \A d \in Chans : d # c => (d \in suspensions' <=> d \in suspensions),
             UNCHANGED <<users, local, cs_akick, nicks, botserv_chans, next_scid>>
      PROVE  ChanServInv'
  <2> DEFINE q == [chanserv[c] EXCEPT !.suspended = x]
             p == [sdata[c].row EXCEPT !.suspended = x]
             z == [sdata[c] EXCEPT !.row = p]
  <2>1. q \in Row /\ q.scid = chanserv[c].scid /\ q.suspended = x /\ ~OwnSuccessor(q)
    BY <1>1, <1>2 DEF Sound, Row, OwnSuccessor
  <2>2. /\ p \in Row /\ p.scid = sdata[c].row.scid /\ p.suspended = x /\ ~OwnSuccessor(p)
    BY <1>1, <1>2 DEF Sound, CR, Row, OwnSuccessor
  <2>3. z \in CR /\ z.row = p /\ z.loaded = sdata[c].loaded /\ z.akicks = sdata[c].akicks
    BY <1>1, <2>2 DEF Sound, CR
  <2>4. /\ chanserv' = [chanserv EXCEPT ![c] = q]
        /\ sdata' = IF sdata[c] = NoCR THEN sdata ELSE [sdata EXCEPT ![c] = z]
    BY <1>2 DEF Suspended, RecordSuspended
  <2> HIDE DEF q, p, z
  <2>5. /\ Functions(users', local', sdata', chanserv', cs_akick')
        /\ chanserv'[c] = q
        /\ sdata'[c] = IF sdata[c] = NoCR THEN NoCR ELSE z
        /\ \A d \in Chans : d # c => sdata'[d] = sdata[d] /\ chanserv'[d] = chanserv[d]
    BY <1>1, <1>2, <2>4 DEF Functions
  <2>6. chanserv[c].scid # 0
    BY <1>1, <1>2 DEF Sound
  <2>7. Sound(users[c], local[c], sdata'[c], chanserv'[c], x, cs_akick[c])
    BY <1>1, <2>1, <2>2, <2>3, <2>5, <2>6, NoRecord DEF Sound
  <2>8. Sound(users'[c], local'[c], sdata'[c], chanserv'[c], c \in suspensions', cs_akick'[c])
    BY <1>2, <2>7
  <2>9. QED
    BY <1>2, <2>1, <2>5, <2>8, ByChannel, OneChannelKeeps
<1>3. CASE Suspend(c)
  BY <1>1, <1>2, <1>3 DEF Suspend
<1>4. CASE Unsuspend(c)
  <2>1. chanserv[c] # NoRow
    BY <1>1, <1>4, NoRecord DEF Unsuspend, Sound
  <2>2. /\ (c \in suspensions') = FALSE /\ suspensions' \subseteq Chans
        /\ \A d \in Chans : d # c => (d \in suspensions' <=> d \in suspensions)
    BY <1>1, <1>4 DEF Unsuspend
  <2>3. QED
    BY <1>2, <1>4, <2>1, <2>2 DEF Unsuspend
<1>5. QED
  BY <1>3, <1>4

(* AKICK ADD and DEL, AKICK DEL ALL and the expiry of bans: whatever is    *)
(* left in the table of a list that was loaded is on the list.             *)
LEMMA BansKeep ==
  ASSUME ChanServInv, NEW c \in Chans, NEW a \in SUBSET Masks, NEW s \in CR,
         s.row = sdata[c].row, s.row.scid = 0 => s = NoCR, s.loaded => a \subseteq s.akicks,
         s = NoCR => sdata[c] = NoCR,
         cs_akick' = [cs_akick EXCEPT ![c] = a], sdata' = [sdata EXCEPT ![c] = s],
         UNCHANGED <<users, local, chanserv, suspensions, nicks, botserv_chans, next_scid>>
  PROVE  ChanServInv'
<1>1. /\ Functions(users, local, sdata, chanserv, cs_akick)
      /\ Sound(users[c], local[c], sdata[c], chanserv[c], c \in suspensions, cs_akick[c])
  BY ByChannel
<1>2. /\ Functions(users', local', sdata', chanserv', cs_akick')
      /\ sdata'[c] = s /\ cs_akick'[c] = a
      /\ \A d \in Chans : d # c => sdata'[d] = sdata[d] /\ cs_akick'[d] = cs_akick[d]
  BY <1>1 DEF Functions
<1>3. s # NoCR => sdata[c] # NoCR
  BY <1>1, NoRecord DEF Sound
<1>4. Sound(users[c], local[c], s, chanserv[c], c \in suspensions, a)
  BY <1>1, <1>3, NoRecord DEF Sound
<1>5. QED
  BY <1>2, <1>4, ByChannel, OneChannelKeeps

(* What AttachIfUsed leaves: the attached record with its list changed, or *)
(* none.                                                                   *)
LEMMA BanCommandKeeps ==
  ASSUME ChanServInv, NEW c \in Chans, NEW a \in SUBSET Masks, NEW s \in CR,
         sdata[c] # NoCR => s.row = sdata[c].row /\ s.loaded = TRUE /\ a \subseteq s.akicks,
         cs_akick' = [cs_akick EXCEPT ![c] = a], AttachIfUsed(c, s),
         UNCHANGED <<users, local, chanserv, suspensions, nicks, botserv_chans, next_scid>>
  PROVE  ChanServInv'
<1>1. /\ Functions(users, local, sdata, chanserv, cs_akick)
      /\ Sound(users[c], local[c], sdata[c], chanserv[c], c \in suspensions, cs_akick[c])
  BY ByChannel
<1>2. CASE sdata[c] = NoCR
  <2>1. sdata' = [sdata EXCEPT ![c] = NoCR]
    BY <1>1, <1>2 DEF AttachIfUsed, Functions
  <2>2. QED
    BY <1>2, <2>1, NoRecord, BansKeep
<1>3. CASE sdata[c] # NoCR
  <2>1. sdata' = [sdata EXCEPT ![c] = s] /\ s.row.scid # 0 /\ s # NoCR
    BY <1>1, <1>3, NoRecord DEF AttachIfUsed, Attach, Sound
  <2>2. QED
    BY <1>3, <2>1, BansKeep
<1>4. QED
  BY <1>2, <1>3

(* find_akick on a record that has been opened                             *)
LEMMA FoundRecord ==
  ASSUME ChanServInv, NEW c \in Chans, Opened(c) # NoCR, NEW m
  PROVE  LET r == Found(c, Opened(c), m) IN
         /\ r \in CR /\ r.row = Opened(c).row /\ r.loaded = TRUE
         /\ cs_akick[c] \subseteq r.akicks
<1>1. Opened(c) \in CR /\ (Opened(c).loaded => cs_akick[c] \subseteq Opened(c).akicks)
  BY OpenedRecord
<1>2. cs_akick[c] \subseteq Masks
  BY ByChannel DEF Sound
<1> DEFINE l == Loaded(c, Opened(c))
<1>3. l \in CR /\ l.row = Opened(c).row /\ l.loaded /\ cs_akick[c] \subseteq l.akicks
  BY <1>1, <1>2, LoadedRecord
<1> HIDE DEF l
<1>4. l.loaded = TRUE
  BY <1>3 DEF CR
<1>5. CASE m \in cs_akick[c]
  BY <1>3, <1>4, <1>5 DEF Found, l
<1>6. CASE m \notin cs_akick[c]
  <2>1. Found(c, Opened(c), m) = [l EXCEPT !.akicks = @ \ {m}]
    BY <1>6 DEF Found, l
  <2>2. LET q == [l EXCEPT !.akicks = @ \ {m}] IN
        q \in CR /\ q.row = l.row /\ q.loaded = l.loaded /\ q.akicks = l.akicks \ {m}
    BY <1>3, WithoutMask
  <2>3. QED
    BY <1>3, <1>4, <1>6, <2>1, <2>2
<1>7. QED
  BY <1>5, <1>6

LEMMA AkickAddKeeps ==
  ASSUME ChanServInv, NEW c \in Chans, NEW m \in Masks, AkickAdd(c, m)
  PROVE  ChanServInv'
<1> DEFINE r == Found(c, Opened(c), m)
           s == Listed(r, m)
           a == cs_akick[c] \union {m}
<1>1. /\ r \in CR /\ r.row = Opened(c).row /\ r.loaded = TRUE /\ cs_akick[c] \subseteq r.akicks
  BY FoundRecord DEF AkickAdd
<1>2. cs_akick[c] \subseteq Masks
  BY ByChannel DEF Sound
<1>3. AttachIfUsed(c, s) /\ cs_akick' = [cs_akick EXCEPT ![c] = a]
  BY DEF AkickAdd
<1> HIDE DEF r
<1>4. s \in CR /\ s.row = r.row /\ s.loaded = TRUE /\ s.akicks = r.akicks \union {m}
  BY <1>1 DEF Listed, CR
<1>5. a \in SUBSET Masks /\ a \subseteq s.akicks
  BY <1>1, <1>2, <1>4
<1> HIDE DEF s, a
<1>6. sdata[c] # NoCR => Opened(c) = sdata[c]
  BY DEF Opened
<1>7. QED
  BY <1>1, <1>3, <1>4, <1>5, <1>6, BanCommandKeeps DEF AkickAdd

LEMMA AkickDelKeeps ==
  ASSUME ChanServInv, NEW c \in Chans, NEW m \in Masks, AkickDel(c, m)
  PROVE  ChanServInv'
<1> DEFINE r == Found(c, Opened(c), m)
           s == [r EXCEPT !.akicks = @ \ {m}]
           a == cs_akick[c] \ ({m} \intersect r.akicks)
<1>1. /\ r \in CR /\ r.row = Opened(c).row /\ r.loaded = TRUE /\ cs_akick[c] \subseteq r.akicks
  BY FoundRecord DEF AkickDel
<1>2. cs_akick[c] \subseteq Masks
  BY ByChannel DEF Sound
<1>3. AttachIfUsed(c, s) /\ cs_akick' = [cs_akick EXCEPT ![c] = a]
  BY DEF AkickDel
<1> HIDE DEF r
<1>4. s \in CR /\ s.row = r.row /\ s.loaded = TRUE /\ s.akicks = r.akicks \ {m}
  BY <1>1, WithoutMask
<1>5. a \in SUBSET Masks /\ a \subseteq s.akicks
  BY <1>1, <1>2, <1>4
<1> HIDE DEF s, a
<1>6. sdata[c] # NoCR => Opened(c) = sdata[c]
  BY DEF Opened
<1>7. QED
  BY <1>1, <1>3, <1>4, <1>5, <1>6, BanCommandKeeps DEF AkickDel

LEMMA AkickDelAllKeeps ==
  ASSUME ChanServInv, NEW c \in Chans, AkickDelAll(c)
  PROVE  ChanServInv'
<1> DEFINE s == [Opened(c) EXCEPT !.akicks = {}]
<1>1. Opened(c) \in CR
  BY OpenedRecord DEF AkickDelAll
<1>2. s \in CR /\ s.row = Opened(c).row /\ s.loaded = Opened(c).loaded
  BY <1>1 DEF CR
<1>3. AttachIfUsed(c, s) /\ cs_akick' = [cs_akick EXCEPT ![c] = {}]
  BY DEF AkickDelAll
<1> HIDE DEF s
<1>4. sdata[c] # NoCR => Opened(c) = sdata[c]
  BY DEF Opened
<1>5. CASE sdata[c] = NoCR
  <2>1. sdata' = [sdata EXCEPT ![c] = NoCR]
    BY <1>3, <1>5, ByChannel DEF AttachIfUsed, Functions
  <2>2. QED
    BY <1>3, <1>5, <2>1, NoRecord, BansKeep DEF AkickDelAll
<1>6. CASE sdata[c] # NoCR
  <2>1. Sound(users[c], local[c], sdata[c], chanserv[c], c \in suspensions, cs_akick[c])
    BY ByChannel
  <2>2. sdata' = [sdata EXCEPT ![c] = s] /\ s.row.scid # 0 /\ s # NoCR
    BY <1>2, <1>3, <1>4, <1>6, <2>1, NoRecord DEF AttachIfUsed, Attach, Sound
  <2>3. QED
    BY <1>2, <1>3, <1>4, <1>6, <2>2, BansKeep DEF AkickDelAll
<1>7. QED
  BY <1>5, <1>6

LEMMA AkickExpireKeeps ==
  ASSUME ChanServInv, NEW c \in Chans, NEW m \in Masks, AkickExpire(c, m)
  PROVE  ChanServInv'
<1>1. /\ Functions(users, local, sdata, chanserv, cs_akick)
      /\ Sound(users[c], local[c], sdata[c], chanserv[c], c \in suspensions, cs_akick[c])
  BY ByChannel
<1>2. sdata' = [sdata EXCEPT ![c] = sdata[c]] /\ cs_akick' = [cs_akick EXCEPT ![c] = cs_akick[c] \ {m}]
  BY <1>1 DEF AkickExpire, Functions
<1>3. cs_akick[c] \ {m} \in SUBSET Masks /\ sdata[c] \in CR
      /\ (sdata[c].loaded => cs_akick[c] \ {m} \subseteq sdata[c].akicks)
      /\ (sdata[c].row.scid = 0 => sdata[c] = NoCR)
  BY <1>1 DEF Sound
<1>4. QED
  BY <1>2, <1>3, BansKeep DEF AkickExpire

-----------------------------------------------------------------------------
(* The end of nicks and records                                            *)

(* Rows and records that differ from those there are in founder and        *)
(* successor, or in a suspension that is over                              *)
Altered(t, s, ended) ==
  /\ t = [c \in Chans |-> t[c]] /\ s = [c \in Chans |-> s[c]]
  /\ \A c \in Chans :
       /\ t[c] \in Row /\ t[c].scid = chanserv[c].scid /\ ~OwnSuccessor(t[c])
       /\ t[c].scid = 0 => t[c] = NoRow
       /\ c \notin ended => t[c].suspended = chanserv[c].suspended
       /\ s[c] \in CR /\ s[c].row.scid = sdata[c].row.scid /\ ~OwnSuccessor(s[c].row)
       /\ s[c].row.scid = 0 => s[c] = NoCR
       /\ s[c].row.suspended = sdata[c].row.suspended
       /\ s[c].loaded = sdata[c].loaded /\ s[c].akicks = sdata[c].akicks

LEMMA ForgetKeeps ==
  ASSUME ChanServInv, NEW C \in SUBSET Chans, NEW ended, NEW t, NEW s, Altered(t, s, ended),
         Forget(C, t, ended), sdata' = WithoutRecords(s, C),
         users' = users, nicks' \subseteq nicks, next_scid' = next_scid,
         botserv_chans' \in [Chans -> Bots \union {NONE}]
  PROVE  ChanServInv'
<1>1. Functions(users, local, sdata, chanserv, cs_akick) /\ suspensions \subseteq Chans
  BY ByChannel
<1>2. Functions(users', local', sdata', chanserv', cs_akick') /\ suspensions' \subseteq Chans
  BY <1>1 DEF Functions, Forget, WithoutRecords
<1>3. ASSUME NEW c \in Chans
      PROVE  /\ Sound(users'[c], local'[c], sdata'[c], chanserv'[c], c \in suspensions', cs_akick'[c])
             /\ chanserv'[c].scid \in {0, chanserv[c].scid}
  <2>1. Sound(users[c], local[c], sdata[c], chanserv[c], c \in suspensions, cs_akick[c])
    BY ByChannel
  <2>2. CASE c \in C
    <3>1. /\ chanserv'[c] = NoRow /\ sdata'[c] = NoCR /\ cs_akick'[c] = {}
          /\ local'[c] \in {NONE, local[c]} /\ c \notin suspensions'
      BY <2>2 DEF Forget, WithoutRecords
    <3>2. QED
      BY <2>1, <3>1, NoRecord DEF Sound
  <2>3. CASE c \notin C
    <3>1. /\ chanserv'[c] = t[c] /\ sdata'[c] = s[c] /\ cs_akick'[c] = cs_akick[c]
          /\ local'[c] = local[c] /\ users'[c] = users[c]
      BY <2>3 DEF Forget, WithoutRecords
    <3>2. c \in suspensions' <=> c \in suspensions /\ c \notin ended
      BY <2>3 DEF Forget
    <3>3. s[c] # NoCR => sdata[c] # NoCR
      BY NoRecord DEF Altered
    <3>4. /\ t[c] \in Row /\ t[c].scid = chanserv[c].scid /\ ~OwnSuccessor(t[c])
          /\ t[c].scid = 0 => t[c] = NoRow
          /\ c \notin ended => t[c].suspended = chanserv[c].suspended
          /\ s[c] \in CR /\ s[c].row.scid = sdata[c].row.scid /\ ~OwnSuccessor(s[c].row)
          /\ s[c].row.scid = 0 => s[c] = NoCR
          /\ s[c].row.suspended = sdata[c].row.suspended
          /\ s[c].loaded = sdata[c].loaded /\ s[c].akicks = sdata[c].akicks
      BY DEF Altered
    <3>5. Sound(users[c], local[c], s[c], t[c], c \in suspensions', cs_akick[c])
      BY <2>1, <3>2, <3>3, <3>4 DEF Sound
    <3>6. QED
      BY <3>1, <3>4, <3>5
  <2>4. QED
    BY <2>2, <2>3
<1>4. QED
  BY <1>2, <1>3, StepKeeps

LEMMA Unaltered ==
  ASSUME ChanServInv
  PROVE  Altered(chanserv, sdata, {})
BY ByChannel DEF Altered, Functions, Sound

LEMMA DropKeeps ==
  ASSUME ChanServInv, NEW c \in Chans, Drop(c)
  PROVE  ChanServInv'
<1>1. botserv_chans' \in [Chans -> Bots \union {NONE}]
  BY ByChannel DEF Drop
<1>2. QED
  BY <1>1, Unaltered, ForgetKeeps DEF Drop

LEMMA ExpireKeeps ==
  ASSUME ChanServInv, NEW C \in SUBSET Chans, NEW S \in SUBSET Chans, Expire(C, S)
  PROVE  ChanServInv'
<1> DEFINE t == [c \in Chans |-> IF c \in S THEN [chanserv[c] EXCEPT !.suspended = FALSE]
                                 ELSE chanserv[c]]
<1>1. ASSUME NEW c \in Chans
      PROVE  /\ t[c] \in Row /\ t[c].scid = chanserv[c].scid /\ ~OwnSuccessor(t[c])
             /\ t[c].scid = 0 => t[c] = NoRow
             /\ c \notin S => t[c].suspended = chanserv[c].suspended
  <2>1. Sound(users[c], local[c], sdata[c], chanserv[c], c \in suspensions, cs_akick[c])
    BY ByChannel
  <2>2. CASE c \in S
    <3>1. chanserv[c].scid # 0
      BY <2>1, <2>2, NoRecord DEF Expire, Sound
    <3>2. LET q == [chanserv[c] EXCEPT !.suspended = FALSE] IN
          /\ q \in Row /\ q.scid = chanserv[c].scid /\ q.founder = chanserv[c].founder
          /\ q.successor = chanserv[c].successor
      BY <2>1 DEF Sound, Row
    <3>3. QED
      BY <2>1, <2>2, <3>1, <3>2 DEF Sound, OwnSuccessor
  <2>3. CASE c \notin S
    BY <2>1, <2>3 DEF Sound
  <2>4. QED
    BY <2>2, <2>3
<1>2. Forget(C, t, S) /\ sdata' = WithoutRecords(sdata, C)
  BY DEF Expire
<1>3. t = [c \in Chans |-> t[c]]
  OBVIOUS
<1> HIDE DEF t
<1>4. Altered(t, sdata, S)
  BY <1>1, <1>3, ByChannel DEF Altered, Functions, Sound
<1>5. botserv_chans' \in [Chans -> Bots \union {NONE}]
  BY ByChannel DEF Expire
<1>6. QED
  BY <1>2, <1>4, <1>5, ForgetKeeps DEF Expire

(* ev_cs_nick_delete changes founder and successor of a row ...            *)
LEMMA SucceededRow ==
  ASSUME NEW row \in Row, ~OwnSuccessor(row), NEW n \in Nicks
  PROVE  /\ Succeeded(row, n) \in Row
         /\ Succeeded(row, n).scid = row.scid /\ Succeeded(row, n).suspended = row.suspended
         /\ ~OwnSuccessor(Succeeded(row, n))
         /\ row.founder = n /\ row.successor # NONE => Succeeded(row, n).founder = row.successor
         /\ row.founder # n => Succeeded(row, n).founder = row.founder
<1>1. CASE row.successor = n
  BY <1>1, NoRecord DEF Succeeded, Row, OwnSuccessor
<1>2. CASE row.successor # n /\ row.founder = n /\ row.successor # NONE
  BY <1>2, NoRecord DEF Succeeded, Row, OwnSuccessor
<1>3. CASE row.successor # n /\ ~(row.founder = n /\ row.successor # NONE)
  BY <1>3, NoRecord DEF Succeeded, Row, OwnSuccessor
<1>4. QED
  BY <1>1, <1>2, <1>3

(* ... and of the record its pointer happens to meet.                      *)
LEMMA MemoryAltered ==
  ASSUME ChanServInv, NEW n \in Nicks,
         NEW hit \in {c \in Chans : sdata[c] # NoCR} \union {NONE}
  PROVE  LET s == MemoryAfter(n, hit) IN
         /\ s = [c \in Chans |-> s[c]]
         /\ \A c \in Chans :
              /\ s[c] \in CR /\ s[c].row.scid = sdata[c].row.scid /\ ~OwnSuccessor(s[c].row)
              /\ s[c].row.scid = 0 => s[c] = NoCR
              /\ s[c].row.suspended = sdata[c].row.suspended
              /\ s[c].loaded = sdata[c].loaded /\ s[c].akicks = sdata[c].akicks
<1>1. CASE hit = NONE \/ Succeeded(chanserv[hit], n) = chanserv[hit]
  BY <1>1, ByChannel DEF MemoryAfter, Functions, Sound
<1>2. CASE ~(hit = NONE \/ Succeeded(chanserv[hit], n) = chanserv[hit])
  <2> DEFINE r == sdata[hit].row
             q == IF chanserv[hit].successor = n THEN [r EXCEPT !.successor = NONE]
                  ELSE [r EXCEPT !.founder = r.successor, !.successor = NONE]
             z == [sdata[hit] EXCEPT !.row = q]
  <2>1. hit \in Chans /\ sdata[hit] # NoCR
    BY <1>2
  <2>2. sdata[hit] \in CR /\ r \in Row /\ ~OwnSuccessor(r) /\ r.scid # 0
    BY <2>1, ByChannel DEF Sound, CR
  <2>3. q \in Row /\ q.scid = r.scid /\ q.suspended = r.suspended
    BY <2>2 DEF Row
  <2>4. ~OwnSuccessor(q)
    BY <2>2 DEF Row, OwnSuccessor
  <2>5. /\ z \in CR /\ z.row = q /\ z.loaded = sdata[hit].loaded /\ z.akicks = sdata[hit].akicks
    BY <2>2, <2>3 DEF CR
  <2>6. MemoryAfter(n, hit) = [sdata EXCEPT ![hit] = z]
    BY <1>2 DEF MemoryAfter
  <2> HIDE DEF q, z
  <2>7. /\ MemoryAfter(n, hit) = [c \in Chans |-> MemoryAfter(n, hit)[c]]
        /\ \A c \in Chans : MemoryAfter(n, hit)[c] = IF c = hit THEN z ELSE sdata[c]
    BY <2>1, <2>6, ByChannel DEF Functions
  <2>8. QED
    BY <2>2, <2>3, <2>4, <2>5, <2>7, ByChannel DEF Sound
<1>3. QED
  BY <1>1, <1>2

(* The rows after the deletion of n                                        *)
LEMMA RowsAltered ==
  ASSUME ChanServInv, NEW n \in Nicks, NEW c \in Chans
  PROVE  LET q == Succeeded(chanserv[c], n) IN
         /\ q \in Row /\ q.scid = chanserv[c].scid /\ ~OwnSuccessor(q)
         /\ q.scid = 0 => q = NoRow
         /\ q.suspended = chanserv[c].suspended
<1>1. Sound(users[c], local[c], sdata[c], chanserv[c], c \in suspensions, cs_akick[c])
  BY ByChannel
<1>2. chanserv[c] = NoRow => Succeeded(chanserv[c], n) = NoRow
  BY NoRecord DEF Succeeded, NoRow
<1>3. QED
  BY <1>1, <1>2, SucceededRow DEF Sound

LEMMA NickDeleteKeeps ==
  ASSUME ChanServInv, NEW n \in Nicks, NickDelete(n)
  PROVE  ChanServInv'
<1> DEFINE t == [c \in Chans |-> Succeeded(chanserv[c], n)]
           lost == {c \in Chans : t[c].founder = n}
           bots == {b \in Bots : botserv[b] = n}
<1>1. Forget(lost, t, {})
  BY DEF NickDelete
<1>2. PICK hit \in {c \in Chans : sdata[c] # NoCR} \union {NONE} :
        sdata' = WithoutRecords(MemoryAfter(n, hit), lost)
  BY DEF NickDelete
<1>3. botserv_chans' = [c \in Chans |->
        IF c \in lost \/ botserv_chans[c] \in bots THEN NONE ELSE botserv_chans[c]]
  BY DEF NickDelete
<1>4. lost \in SUBSET Chans /\ t = [c \in Chans |-> t[c]]
      /\ \A c \in Chans : t[c] = Succeeded(chanserv[c], n)
  OBVIOUS
<1> HIDE DEF t, lost, bots
<1>5. Altered(t, MemoryAfter(n, hit), {})
  BY <1>4, MemoryAltered, RowsAltered DEF Altered
<1>6. botserv_chans' \in [Chans -> Bots \union {NONE}]
  BY <1>3, ByChannel
<1>7. QED
  BY <1>1, <1>2, <1>4, <1>5, <1>6, ForgetKeeps DEF NickDelete

-----------------------------------------------------------------------------
(* Bots                                                                    *)

LEMMA BotAssignKeeps ==
  ASSUME ChanServInv, NEW c \in Chans, NEW b \in Bots, BotAssign(c, b)
  PROVE  ChanServInv'
<1>1. /\ Functions(users, local, sdata, chanserv, cs_akick)
      /\ Sound(users[c], local[c], sdata[c], chanserv[c], c \in suspensions, cs_akick[c])
      /\ botserv_chans' \in [Chans -> Bots \union {NONE}]
  BY ByChannel DEF BotAssign
<1>2. UNCHANGED <<users, chanserv, suspensions, cs_akick, nicks, next_scid>>
  BY DEF BotAssign
<1>3. CASE b \notin online
  <2>1. UNCHANGED <<local, sdata>>
    BY <1>3 DEF BotAssign
  <2>2. QED
    BY <1>1, <1>2, <2>1, Unaltered, ByChannel, StepKeeps
<1>4. CASE b \in online
  <2>1. local' = [local EXCEPT ![c] = b] /\ sdata' = [sdata EXCEPT ![c] = Opened(c)]
    BY <1>4 DEF BotAssign, Attach
  <2>2. /\ Functions(users', local', sdata', chanserv', cs_akick')
        /\ local'[c] = b /\ sdata'[c] = Opened(c)
        /\ \A d \in Chans : d # c => local'[d] = local[d] /\ sdata'[d] = sdata[d]
    BY <1>1, <1>2, <2>1 DEF Functions
  <2>3. Sound(users[c], b, Opened(c), chanserv[c], c \in suspensions, cs_akick[c])
    BY <1>1, OpenedRecord, NoRecord DEF BotAssign, Sound, Used
  <2>4. QED
    BY <1>1, <1>2, <2>2, <2>3, ByChannel, OneChannelKeeps
<1>5. QED
  BY <1>3, <1>4

LEMMA LocalStepsKeep ==
  ASSUME ChanServInv,
         \/ \E c \in Chans : LocalLeaves(c) \/ \E b \in Bots : BotUnassign(c, b)
         \/ \E b \in Bots : BotDrop(b)
  PROVE  ChanServInv'
<1>1. ASSUME NEW c \in Chans, LocalLeaves(c) PROVE ChanServInv'
  BY <1>1, LocalsLeaveKeeps, ByChannel DEF LocalLeaves
<1>2. ASSUME NEW c \in Chans, NEW b \in Bots, BotUnassign(c, b) PROVE ChanServInv'
  <2>1. botserv_chans' \in [Chans -> Bots \union {NONE}]
    BY <1>2, ByChannel DEF BotUnassign
  <2>2. QED
    BY <1>2, <2>1, LocalsLeaveKeeps DEF BotUnassign
<1>3. ASSUME NEW b \in Bots, BotDrop(b) PROVE ChanServInv'
  <2>1. botserv_chans' \in [Chans -> Bots \union {NONE}]
    BY <1>3, ByChannel DEF BotDrop
  <2>2. QED
    BY <1>3, <2>1, LocalsLeaveKeeps DEF BotDrop
<1>4. QED
  BY <1>1, <1>2, <1>3

(* Every record is that of its row again.                                  *)
LEMMA RestartKeeps ==
  ASSUME ChanServInv, Restart
  PROVE  ChanServInv'
<1>1. UNCHANGED <<chanserv, suspensions, cs_akick, nicks, botserv, botserv_chans, next_scid>>
  BY DEF Restart
<1>2. Functions(users', local', sdata', chanserv', cs_akick')
  BY ByChannel DEF Restart, Functions
<1>3. ASSUME NEW c \in Chans
      PROVE  Sound(users'[c], local'[c], sdata'[c], chanserv'[c], c \in suspensions', cs_akick'[c])
  <2>1. Sound(users[c], local[c], sdata[c], chanserv[c], c \in suspensions, cs_akick[c])
    BY ByChannel
  <2>2. /\ users'[c] = {} /\ local'[c] = botserv_chans[c]
        /\ sdata'[c] = IF botserv_chans[c] = NONE THEN NoCR ELSE NewCR(chanserv[c])
        /\ botserv_chans[c] \in Bots \union {NONE}
    BY ByChannel DEF Restart
  <2>3. /\ NewCR(chanserv[c]) \in CR /\ NewCR(chanserv[c]).row = chanserv[c]
        /\ NewCR(chanserv[c]).loaded = FALSE
        /\ chanserv[c] = NoRow => NewCR(chanserv[c]) = NoCR
    BY <2>1, NewRecord DEF Sound, NoCR
  <2>4. CASE botserv_chans[c] = NONE
    BY <1>1, <2>1, <2>2, <2>4, NoRecord DEF Sound, Used
  <2>5. CASE botserv_chans[c] # NONE
    BY <1>1, <2>1, <2>2, <2>3, <2>5, NoRecord DEF Sound, Used
  <2>6. QED
    BY <2>4, <2>5
<1>4. QED
  BY <1>1, <1>2, <1>3, ByChannel, StepKeeps

-----------------------------------------------------------------------------
LEMMA InitHolds == Init => ChanServInv
<1> SUFFICES ASSUME Init PROVE ChanServInv
  OBVIOUS
<1>1. Typed
  BY NoRecord DEF Init, Typed
<1>2. ScidsUnique /\ NoOwnSuccessor
  BY NoRecord DEF Init, ScidsUnique, NoOwnSuccessor
<1>3. RecordOfRow /\ SuspensionInForce /\ AkicksInForce
  BY NoRecord DEF Init, RecordOfRow, SuspensionInForce, AkicksInForce, InUse
<1>4. QED
  BY <1>1, <1>2, <1>3 DEF ChanServInv

(* A step that changes none of what the invariant is about                 *)
LEMMA StutterKeeps ==
  ASSUME ChanServInv, UNCHANGED <<users, local, sdata, chanserv, suspensions, cs_akick, nicks,
                                  botserv_chans, next_scid>>
  PROVE  ChanServInv'
BY DEF ChanServInv, Typed, ScidsUnique, NoOwnSuccessor, RecordOfRow, SuspensionInForce,
       AkicksInForce, InUse

LEMMA NextKeeps == ChanServInv /\ [Next]_vars => ChanServInv'
<1> SUFFICES ASSUME ChanServInv, [Next]_vars PROVE ChanServInv'
  OBVIOUS
<1>1. CASE UNCHANGED vars
  BY <1>1, StutterKeeps DEF vars
<1>2. ASSUME NEW c \in Chans,
             \/ \E u \in Users : Join(c, u) \/ Leave(c, u)
             \/ LocalLeaves(c)
             \/ \E n \in Nicks : Register(c, n) \/ SetFounder(c, n) \/ SetSuccessor(c, n)
             \/ SetOption(c) \/ Suspend(c) \/ Unsuspend(c) \/ Drop(c)
             \/ \E m \in Masks : AkickAdd(c, m) \/ AkickDel(c, m) \/ AkickExpire(c, m)
             \/ AkickDelAll(c)
             \/ \E b \in Bots : BotAssign(c, b) \/ BotUnassign(c, b)
      PROVE  ChanServInv'
  BY <1>2, JoinKeeps, LeaveKeeps, LocalStepsKeep, RegisterKeeps, SetKeeps, SuspensionKeeps,
     DropKeeps, AkickAddKeeps, AkickDelKeeps, AkickExpireKeeps, AkickDelAllKeeps, BotAssignKeeps
<1>3. ASSUME NEW b \in Bots, NEW n \in Nicks, BotCreate(b, n) PROVE ChanServInv'
  BY <1>3, StutterKeeps DEF BotCreate
<1>4. QED
  BY <1>1, <1>2, <1>3, NickDeleteKeeps, ExpireKeeps, LocalStepsKeep, RestartKeeps DEF Next

-----------------------------------------------------------------------------
(* Rows, records, suspensions and ban lists agree in every state.          *)
THEOREM ChanServInvariant == Spec => []ChanServInv
BY InitHolds, NextKeeps, PTL DEF Spec

(* The record of a channel in use is that of its row.                      *)
THEOREM RecordsOfRows == Spec => []RecordOfRow
<1>1. ChanServInv => RecordOfRow
  BY DEF ChanServInv
<1>2. QED
  BY <1>1, ChanServInvariant, PTL

(* No UpdateCR lifts a suspension that was given meanwhile.                *)
THEOREM SuspensionsLast == Spec => []SuspensionInForce
<1>1. ChanServInv => SuspensionInForce
  BY DEF ChanServInv
<1>2. QED
  BY <1>1, ChanServInvariant, PTL

(* A ban list in memory has every ban of the table.                        *)
THEOREM NoAkickOverlooked == Spec => []AkicksInForce
<1>1. ChanServInv => AkicksInForce
  BY DEF ChanServInv
<1>2. QED
  BY <1>1, ChanServInvariant, PTL

(* Nicks are only deleted by NickDelete.                                   *)
LEMMA NicksGo ==
  ASSUME ChanServInv, [Next]_vars, NEW n \in nicks \ nicks'
  PROVE  n \in Nicks /\ NickDelete(n)
<1>1. n \in Nicks
  BY DEF ChanServInv, Typed
<1>2. \E x \in Nicks : NickDelete(x)
  BY DEF Next, vars, Join, Leave, LocalLeaves, Register, SetFounder, SetSuccessor, SetOption,
     Suspend, Unsuspend, Drop, AkickAdd, AkickDel, AkickDelAll, AkickExpire, Expire, BotCreate,
     BotDrop, BotAssign, BotUnassign, Restart
<1>3. PICK x \in Nicks : NickDelete(x)
  BY <1>2
<1>4. nicks' = nicks \ {x}
  BY <1>3 DEF NickDelete
<1>5. n = x
  BY <1>4
<1>6. QED
  BY <1>1, <1>3, <1>5

(* A channel whose founder is deleted goes to its successor, whatever is   *)
(* cached of it, and no other channel changes its founder.                 *)
THEOREM FoundersSucceeded == Spec => SuccessorInherits
<1> DEFINE Inherits ==
      \A n \in nicks \ nicks', c \in Chans :
        LET row == chanserv[c] IN
        /\ row.founder = n /\ row.successor # NONE =>
             chanserv'[c].scid = row.scid /\ chanserv'[c].founder = row.successor
        /\ row.founder # n => chanserv'[c].founder = row.founder
<1>1. ASSUME ChanServInv, [Next]_vars PROVE Inherits
  <2>1. ASSUME NEW n \in nicks \ nicks', NEW c \in Chans
        PROVE  LET row == chanserv[c] IN
               /\ row.founder = n /\ row.successor # NONE =>
                    chanserv'[c].scid = row.scid /\ chanserv'[c].founder = row.successor
               /\ row.founder # n => chanserv'[c].founder = row.founder
    <3>1. n \in Nicks /\ NickDelete(n)
      BY <1>1, <2>1, NicksGo
    <3>2. chanserv[c] \in Row /\ ~OwnSuccessor(chanserv[c])
      BY <1>1, ByChannel DEF Sound
    <3>3. chanserv'[c] = IF Succeeded(chanserv[c], n).founder = n THEN NoRow
                         ELSE Succeeded(chanserv[c], n)
      BY <3>1 DEF NickDelete, Forget
    <3>4. /\ Succeeded(chanserv[c], n).scid = chanserv[c].scid
          /\ chanserv[c].founder = n /\ chanserv[c].successor # NONE =>
               Succeeded(chanserv[c], n).founder = chanserv[c].successor
          /\ chanserv[c].founder # n => Succeeded(chanserv[c], n).founder = chanserv[c].founder
      BY <3>1, <3>2, SucceededRow
    <3>5. chanserv[c].founder = n /\ chanserv[c].successor # NONE => chanserv[c].successor # n
      BY <3>2 DEF OwnSuccessor
    <3>6. QED
      BY <3>3, <3>4, <3>5
  <2>2. QED
    BY <2>1
<1>2. ChanServInv /\ [Next]_vars => [Inherits]_vars
  BY <1>1
<1> HIDE DEF Inherits
<1>3. Spec => [][Inherits]_vars
  BY <1>2, ChanServInvariant, PTL DEF Spec
<1>4. QED
  BY <1>3 DEF SuccessorInherits, Inherits
=============================================================================
