-------------------------- MODULE IrcNetwork_proofs --------------------------
(***************************************************************************)
(* Theorems about the network mirror for any sets of users, servers and    *)
(* channels.                                                               *)
(***************************************************************************)
EXTENDS IrcNetwork, FiniteSetTheorems, TLAPS

LEMMA FiniteMembers ==
  ASSUME NEW S, S \subseteq Members
  PROVE  IsFiniteSet(S) /\ Cardinality(S) \in Nat
BY NetworkAssumption, FS_Union, FS_Subset, FS_CardinalityType DEF Members

LEMMA NewChanType ==
  /\ NewChan \in Channel
  /\ NewChan.userlist = {} /\ NewChan.local_user = NONE
  /\ NewChan.users_count = 0 /\ NewChan.lusers_count = 0
BY DEF NewChan, Channel

LEMMA ChannelFields ==
  ASSUME NEW r \in Channel
  PROVE  /\ r.userlist \subseteq Members
         /\ r.users_count \in Int /\ r.lusers_count \in Int
         /\ r.local_user \in Locals \union {NONE}
BY DEF Channel

(* add_user_to_chan on one channel *)
LEMMA WithMemberType ==
  ASSUME NEW r \in Channel, NEW m \in Members
  PROVE  /\ WithMember(r, m) \in Channel
         /\ WithMember(r, m).userlist = r.userlist \union {m}
         /\ WithMember(r, m).local_user =
              IF m \in Locals /\ r.local_user = NONE THEN m ELSE r.local_user
<1>1. /\ Cardinality(Counted({m})) \in Nat
      /\ Cardinality(Counted({m} \intersect Locals)) \in Nat
  BY FiniteMembers DEF Counted
<1>2. r.userlist \union {m} \in SUBSET Members
  BY ChannelFields
<1>3. WithMember(r, m).local_user \in Locals \union {NONE}
  BY ChannelFields DEF WithMember
<1>4. /\ WithMember(r, m).users_count \in Int
      /\ WithMember(r, m).lusers_count \in Int
  BY <1>1, ChannelFields DEF WithMember
<1>5. WithMember(r, m).userlist = r.userlist \union {m}
  BY DEF WithMember
<1>6. WithMember(r, m) \in Channel
  BY <1>2, <1>3, <1>4, <1>5 DEF WithMember, Channel
<1>7. QED
  BY <1>5, <1>6 DEF WithMember

(* del_user_from_chan on one channel *)
LEMMA WithoutMembersType ==
  ASSUME NEW r \in Channel, NEW M, NEW s \in Locals \union {NONE}
  PROVE  /\ WithoutMembers(r, M, s) \in Channel
         /\ WithoutMembers(r, M, s).userlist = r.userlist \ M
         /\ WithoutMembers(r, M, s).local_user = s
<1>1. /\ Cardinality(Counted(r.userlist \intersect M)) \in Nat
      /\ Cardinality(Counted(LocalsOn(r) \intersect M)) \in Nat
  BY FiniteMembers, ChannelFields DEF Counted, LocalsOn
<1>2. r.userlist \ M \in SUBSET Members
  BY ChannelFields
<1>3. QED
  BY <1>1, <1>2, ChannelFields DEF WithoutMembers, Channel

-----------------------------------------------------------------------------
(* What Remove does to every channel, whatever is in base.                 *)

Agrees(lists, base) ==
  \A m \in Members, c \in Chans : c \in lists[m] <=> m \in base[c].userlist

LEMMA RemoveEffect ==
  ASSUME NEW base \in [Chans -> Channel],
         NEW timers \in [Chans -> 0..MaxPartTimers],
         NEW Leaving \in [Chans -> SUBSET Members],
         chans \subseteq Chans,
         Remove(base, timers, Leaving)
  PROVE  /\ chan' \in [Chans -> Channel]
         /\ chans' \subseteq chans
         /\ part_timers' \in [Chans -> 0..MaxPartTimers]
         /\ fault' \in Faults \union {"none"}
         /\ \A c \in Chans : chan'[c].userlist = base[c].userlist \ Leaving[c]
         /\ \A c \in chans \ chans' : chan'[c].userlist = {}
         /\ fault' = "none" /\ sjoin.chan \in chans => sjoin.chan \in chans'
<1> DEFINE Out(c) == Leaving[c] \intersect base[c].userlist
           Freed == {c \in Chans : LosesLast(base[c], Out(c))}
<1>1. PICK successor \in [Chans -> Locals \union {NONE}] :
        chan' = [c \in Chans |-> IF c \in Freed THEN NewChan
                   ELSE WithoutMembers(base[c], Out(c), successor[c])]
  BY DEF Remove
<1>2. /\ chans' = chans \ Freed
      /\ part_timers' = [c \in Chans |-> IF c \in Freed THEN 0 ELSE timers[c]]
      /\ fault' \in {"assert", "freed_channel", "none"}
      /\ fault' = "none" => sjoin.chan \notin Freed
  BY DEF Remove
<1>3. ASSUME NEW c \in Chans
      PROVE  /\ chan'[c] \in Channel
             /\ chan'[c].userlist = base[c].userlist \ Leaving[c]
             /\ c \in Freed => chan'[c].userlist = {}
  <2>1. base[c] \in Channel /\ successor[c] \in Locals \union {NONE}
    OBVIOUS
  <2>2. CASE c \in Freed
    BY <1>1, <2>1, <2>2, NewChanType DEF LosesLast
  <2>3. CASE c \notin Freed
    <3>1. chan'[c] = WithoutMembers(base[c], Out(c), successor[c])
      BY <1>1, <2>3
    <3>2. base[c].userlist \ Out(c) = base[c].userlist \ Leaving[c]
      OBVIOUS
    <3>3. QED
      BY <3>1, <3>2, <2>1, <2>3, WithoutMembersType
  <2>4. QED
    BY <2>2, <2>3
<1>4. chan' \in [Chans -> Channel]
  BY <1>1, <1>3
<1>5. part_timers' \in [Chans -> 0..MaxPartTimers]
  BY <1>2, NetworkAssumption
<1>6. QED
  BY <1>2, <1>3, <1>4, <1>5 DEF Faults

LEMMA RemoveKeepsLists ==
  ASSUME NEW base \in [Chans -> Channel],
         NEW timers \in [Chans -> 0..MaxPartTimers],
         NEW lists \in [Members -> SUBSET Chans],
         NEW Leaving \in [Chans -> SUBSET Members],
         chans \subseteq Chans,
         Agrees(lists, base),
         \A m \in Members : lists[m] \subseteq chans,
         Remove(base, timers, Leaving),
         chanlist' = ListsWithout(lists, Leaving)
  PROVE  /\ chanlist' \in [Members -> SUBSET Chans]
         /\ ListsAgree'
         /\ \A m \in Members : chanlist'[m] \subseteq chans'
<1>1. /\ \A c \in Chans : chan'[c].userlist = base[c].userlist \ Leaving[c]
      /\ \A c \in chans \ chans' : chan'[c].userlist = {}
  BY RemoveEffect
<1>2. \A m \in Members : chanlist'[m] = {c \in lists[m] : m \notin Leaving[c]}
  BY DEF ListsWithout
<1>3. chanlist' \in [Members -> SUBSET Chans]
  BY DEF ListsWithout
<1>4. ListsAgree'
  BY <1>1, <1>2 DEF ListsAgree, Agrees
<1>5. ASSUME NEW m \in Members, NEW c \in chanlist'[m] PROVE c \in chans'
  <2>1. c \in Chans /\ m \in chan'[c].userlist
    BY <1>3, <1>4 DEF ListsAgree
  <2>2. c \in chans
    BY <1>2
  <2>3. QED
    BY <2>1, <2>2, <1>1
<1>6. QED
  BY <1>3, <1>4, <1>5

-----------------------------------------------------------------------------
(* local_user of one channel, then of all channels.                        *)

LocalOK(r) ==
  r.local_user \in IF LocalsOn(r) = {} THEN {NONE} ELSE LocalsOn(r)

LEMMA NoneIsNoMember == NONE \notin Members /\ NONE \notin Locals /\ Locals \subseteq Members
BY NetworkAssumption DEF Members

LEMMA WithMemberLocal ==
  ASSUME NEW r \in Channel, NEW m \in Members, LocalOK(r)
  PROVE  LocalOK(WithMember(r, m))
<1>1. /\ WithMember(r, m).userlist = r.userlist \union {m}
      /\ WithMember(r, m).local_user =
           IF m \in Locals /\ r.local_user = NONE THEN m ELSE r.local_user
  BY WithMemberType
<1>2. QED
  BY <1>1, NoneIsNoMember DEF LocalOK, LocalsOn

LEMMA WithoutMembersLocal ==
  ASSUME NEW r \in Channel, NEW M, NEW s \in Locals \union {NONE},
         s \in Successors(r, M), LocalOK(r)
  PROVE  LocalOK(WithoutMembers(r, M, s))
<1>1. /\ WithoutMembers(r, M, s).userlist = r.userlist \ M
      /\ WithoutMembers(r, M, s).local_user = s
  BY WithoutMembersType
<1>2. LocalsOn(WithoutMembers(r, M, s)) = LocalsOn(r) \ M
  BY <1>1 DEF LocalsOn
<1>3. CASE r.local_user \notin M
  BY <1>1, <1>2, <1>3, NoneIsNoMember DEF LocalOK, Successors, LocalsOn
<1>4. CASE r.local_user \in M
  BY <1>1, <1>2, <1>4 DEF LocalOK, Successors
<1>5. QED
  BY <1>3, <1>4

LEMMA RemoveKeepsLocal ==
  ASSUME NEW base \in [Chans -> Channel],
         NEW timers \in [Chans -> 0..MaxPartTimers],
         NEW Leaving \in [Chans -> SUBSET Members],
         \A c \in Chans : LocalOK(base[c]),
         Remove(base, timers, Leaving)
  PROVE  \A c \in Chans : LocalOK(chan'[c])
<1> DEFINE Out(c) == Leaving[c] \intersect base[c].userlist
           Freed == {c \in Chans : LosesLast(base[c], Out(c))}
<1>1. PICK successor \in [Chans -> Locals \union {NONE}] :
        /\ \A c \in Chans : successor[c] \in Successors(base[c], Out(c))
        /\ chan' = [c \in Chans |-> IF c \in Freed THEN NewChan
                      ELSE WithoutMembers(base[c], Out(c), successor[c])]
  BY DEF Remove
<1>2. SUFFICES ASSUME NEW c \in Chans PROVE LocalOK(chan'[c])
  OBVIOUS
<1>3. CASE c \in Freed
  <2>1. chan'[c] = NewChan
    BY <1>1, <1>3
  <2>2. QED
    BY <2>1, NewChanType DEF LocalOK, LocalsOn
<1>4. CASE c \notin Freed
  <2>1. chan'[c] = WithoutMembers(base[c], Out(c), successor[c])
    BY <1>1, <1>4
  <2>2. /\ base[c] \in Channel /\ successor[c] \in Locals \union {NONE}
        /\ successor[c] \in Successors(base[c], Out(c))
    BY <1>1
  <2>3. QED
    BY <2>1, <2>2, WithoutMembersLocal
<1>5. QED
  BY <1>3, <1>4

-----------------------------------------------------------------------------
(* Both lists together when a member joins or leaves a channel.            *)

Mirrors(base, lists) ==
  /\ base \in [Chans -> Channel]
  /\ lists \in [Members -> SUBSET Chans]
  /\ Agrees(lists, base)
  /\ \A c \in Chans : LocalOK(base[c])

LEMMA JoinMirrors ==
  ASSUME NEW base, NEW lists, Mirrors(base, lists),
         NEW m \in Members, NEW c \in Chans
  PROVE  /\ Mirrors(With(base, m, c), ListsWith(lists, m, c))
         /\ \A d \in Chans : With(base, m, c)[d].userlist =
              base[d].userlist \union (IF d = c THEN {m} ELSE {})
         /\ \A n \in Members : ListsWith(lists, m, c)[n] =
              lists[n] \union (IF n = m THEN {c} ELSE {})
<1>1. /\ base \in [Chans -> Channel] /\ lists \in [Members -> SUBSET Chans]
      /\ Agrees(lists, base) /\ \A d \in Chans : LocalOK(base[d])
  BY DEF Mirrors
<1>2. \A d \in Chans : With(base, m, c)[d] =
        IF d = c THEN WithMember(base[d], m) ELSE base[d]
  BY <1>1 DEF With
<1>3. /\ \A d \in Chans : With(base, m, c)[d] \in Channel
      /\ \A d \in Chans : LocalOK(With(base, m, c)[d])
      /\ \A d \in Chans : With(base, m, c)[d].userlist =
              base[d].userlist \union (IF d = c THEN {m} ELSE {})
  <2>1. SUFFICES ASSUME NEW d \in Chans
                 PROVE  /\ With(base, m, c)[d] \in Channel
                        /\ LocalOK(With(base, m, c)[d])
                        /\ With(base, m, c)[d].userlist =
                             base[d].userlist \union (IF d = c THEN {m} ELSE {})
    OBVIOUS
  <2>2. base[d] \in Channel /\ LocalOK(base[d])
    BY <1>1
  <2>3. CASE d = c
    <3>1. With(base, m, c)[d] = WithMember(base[d], m)
      BY <1>2, <2>3
    <3>2. QED
      BY <3>1, <2>2, <2>3, WithMemberType, WithMemberLocal
  <2>4. CASE d # c
    BY <1>2, <2>2, <2>4
  <2>5. QED
    BY <2>3, <2>4
<1>4. With(base, m, c) \in [Chans -> Channel]
  BY <1>1, <1>3 DEF With
<1>5. \A n \in Members : ListsWith(lists, m, c)[n] =
              lists[n] \union (IF n = m THEN {c} ELSE {})
  BY <1>1 DEF ListsWith
<1>6. ListsWith(lists, m, c) \in [Members -> SUBSET Chans]
  BY <1>1 DEF ListsWith
<1>7. Agrees(ListsWith(lists, m, c), With(base, m, c))
  BY <1>1, <1>3, <1>5 DEF Agrees
<1>8. QED
  BY <1>3, <1>4, <1>5, <1>6, <1>7 DEF Mirrors

(* What a removal leaves of the invariant below, whoever leaves.           *)
LEMMA RemoveMirrors ==
  ASSUME NEW base, NEW lists, Mirrors(base, lists),
         NEW timers \in [Chans -> 0..MaxPartTimers],
         NEW Leaving \in [Chans -> SUBSET Members],
         chans \subseteq Chans,
         \A m \in Members : lists[m] \subseteq chans,
         Remove(base, timers, Leaving),
         chanlist' = ListsWithout(lists, Leaving)
  PROVE  /\ chan' \in [Chans -> Channel]
         /\ chanlist' \in [Members -> SUBSET Chans]
         /\ part_timers' \in [Chans -> 0..MaxPartTimers]
         /\ fault' \in Faults \union {"none"}
         /\ chans' \subseteq chans
         /\ ListsAgree'
         /\ LocalUserSpeaks'
         /\ \A m \in Members : chanlist'[m] \subseteq chans'
         /\ \A c \in Chans : chan'[c].userlist = base[c].userlist \ Leaving[c]
         /\ fault' = "none" /\ sjoin.chan \in chans => sjoin.chan \in chans'
<1>1. /\ base \in [Chans -> Channel] /\ lists \in [Members -> SUBSET Chans]
      /\ Agrees(lists, base) /\ \A d \in Chans : LocalOK(base[d])
  BY DEF Mirrors
<1>2. LocalUserSpeaks'
  <2>1. \A c \in Chans : LocalOK(chan'[c])
    BY <1>1, RemoveKeepsLocal
  <2>2. QED
    BY <2>1 DEF LocalUserSpeaks, LocalOK, LocalsOn
<1>3. QED
  BY <1>1, <1>2, RemoveEffect, RemoveKeepsLists

-----------------------------------------------------------------------------
(* The channel of a SJOIN in progress exists until a fault ends the run.   *)
SjoinLive ==
  sjoin.nicks # {} =>
    sjoin.chan \in Chans /\ (fault = "none" => sjoin.chan \in chans)

MirrorInv ==
  /\ TypeOK
  /\ ListsAgree
  /\ NoDanglingMember
  /\ LocalUserSpeaks
  /\ SjoinLive

LEMMA MirrorInvMirrors ==
  ASSUME MirrorInv
  PROVE  /\ Mirrors(chan, chanlist)
         /\ chans \subseteq Chans
         /\ \A m \in Members : chanlist[m] \subseteq chans
         /\ \A c \in Chans : chan[c].userlist \subseteq users \union locals
         /\ part_timers \in [Chans -> 0..MaxPartTimers]
         /\ users \union locals \subseteq Members
<1>1. \A c \in Chans : LocalOK(chan[c])
  BY DEF MirrorInv, LocalUserSpeaks, LocalOK, LocalsOn
<1>2. QED
  BY <1>1 DEF MirrorInv, TypeOK, Mirrors, Agrees, ListsAgree, NoDanglingMember, Members

LEMMA InitMirrors == Init => MirrorInv
<1>1. SUFFICES ASSUME Init PROVE MirrorInv
  OBVIOUS
<1>2. TypeOK
  BY <1>1, NewChanType, NetworkAssumption DEF Init, TypeOK, NoSjoin
<1>3. \A c \in Chans : chan[c] = NewChan
  BY <1>1 DEF Init
<1>4. ListsAgree /\ NoDanglingMember
  BY <1>1, <1>3, NewChanType DEF Init, ListsAgree, NoDanglingMember
<1>5. LocalUserSpeaks
  BY <1>3, NewChanType DEF LocalUserSpeaks, LocalsOn
<1>6. SjoinLive
  BY <1>1 DEF Init, SjoinLive, NoSjoin
<1>7. QED
  BY <1>2, <1>4, <1>5, <1>6 DEF MirrorInv

LEMMA NickDoneEffect ==
  ASSUME TypeOK, NEW u \in sjoin.nicks, NickDone(u)
  PROVE  /\ sjoin' \in [chan : Chans \union {NONE}, nicks : SUBSET Remotes]
         /\ sjoin'.nicks # {} => sjoin'.chan = sjoin.chan
<1>1. CASE sjoin.nicks = {u}
  BY <1>1 DEF NickDone, NoSjoin
<1>2. CASE sjoin.nicks # {u}
  <2>1. sjoin' = [sjoin EXCEPT !.nicks = @ \ {u}]
    BY <1>2 DEF NickDone
  <2>2. QED
    BY <2>1 DEF TypeOK
<1>3. QED
  BY <1>1, <1>2

(* Actions that move nobody on or off a channel.                           *)
LEMMA QuietStep ==
  ASSUME MirrorInv,
         \/ \E s \in Servers : MServer(s)
         \/ \E u \in Remotes, s \in servers \union {NONE}, f \in servers \union {NONE} :
              \E umodes \in SUBSET {"stealth"} : MNick(u, s, f, umodes)
         \/ \E u \in Remotes : UmodeChange(u) \/ SjoinUnknown(u)
         \/ \E l \in Locals : CreateLocalUser(l)
         \/ SetChanMlocker
         \/ \E c \in Chans, nicks \in SUBSET Remotes : MSjoin(c, nicks)
         \/ UNCHANGED vars
  PROVE  MirrorInv'
<1>1. chan' = chan /\ chanlist' = chanlist /\ part_timers' = part_timers /\ fault' = fault
  BY DEF MServer, MNick, UmodeChange, SjoinUnknown, CreateLocalUser,
         SetChanMlocker, MSjoin, vars
<1>2. users \subseteq users' /\ locals \subseteq locals' /\ chans \subseteq chans'
  BY DEF MServer, MNick, UmodeChange, SjoinUnknown, CreateLocalUser,
         SetChanMlocker, MSjoin, vars
<1>3. ListsAgree' /\ LocalUserSpeaks' /\ NoDanglingMember'
  <2>1. ListsAgree'
    BY <1>1 DEF MirrorInv, ListsAgree
  <2>2. LocalUserSpeaks'
    BY <1>1 DEF MirrorInv, LocalUserSpeaks, LocalsOn
  <2>3. NoDanglingMember'
    BY <1>1, <1>2 DEF MirrorInv, NoDanglingMember
  <2>4. QED
    BY <2>1, <2>2, <2>3
<1> DEFINE SjoinFine ==
             /\ sjoin' \in [chan : Chans \union {NONE}, nicks : SUBSET Remotes]
             /\ SjoinLive'
<1>4. SjoinFine
  <2>1. CASE sjoin' = sjoin
    BY <1>1, <1>2, <2>1 DEF MirrorInv, SjoinLive, TypeOK
  <2>2. ASSUME NEW u \in Remotes, SjoinUnknown(u) PROVE SjoinFine
    <3>1. /\ sjoin' \in [chan : Chans \union {NONE}, nicks : SUBSET Remotes]
          /\ sjoin'.nicks # {} => sjoin'.chan = sjoin.chan /\ sjoin.nicks # {}
      BY <2>2, NickDoneEffect DEF SjoinUnknown, MirrorInv
    <3>2. QED
      BY <3>1, <1>1, <1>2 DEF MirrorInv, SjoinLive
  <2>3. ASSUME NEW c \in Chans, NEW nicks \in SUBSET Remotes, MSjoin(c, nicks)
        PROVE  SjoinFine
    BY <2>3 DEF MSjoin, SjoinLive
  <2>4. QED
    BY <2>1, <2>2, <2>3 DEF MServer, MNick, UmodeChange, CreateLocalUser,
         SetChanMlocker, vars
<1>5. TypeOK'
  BY <1>1, <1>4, NetworkAssumption
  DEF MirrorInv, TypeOK, MServer, MNick, UmodeChange, SjoinUnknown,
      CreateLocalUser, SetChanMlocker, MSjoin, vars
<1>6. QED
  BY <1>3, <1>4, <1>5 DEF MirrorInv

(* A removal keeps the invariant, also after a join in the same action.    *)
LEMMA LeavingStep ==
  ASSUME MirrorInv, Running,
         NEW base, NEW lists, Mirrors(base, lists),
         NEW timers \in [Chans -> 0..MaxPartTimers],
         NEW Leaving \in [Chans -> SUBSET Members],
         \A m \in Members : lists[m] \subseteq chans,
         Remove(base, timers, Leaving),
         chanlist' = ListsWithout(lists, Leaving),
         \A c \in Chans : base[c].userlist \ Leaving[c] \subseteq users' \union locals',
         sjoin'.nicks # {} => sjoin'.chan = sjoin.chan /\ sjoin.nicks # {}
  PROVE  /\ ListsAgree' /\ LocalUserSpeaks' /\ NoDanglingMember' /\ SjoinLive'
         /\ chan' \in [Chans -> Channel]
         /\ chanlist' \in [Members -> SUBSET Chans]
         /\ part_timers' \in [Chans -> 0..MaxPartTimers]
         /\ fault' \in Faults \union {"none"}
         /\ chans' \subseteq Chans
<1>1. chans \subseteq Chans
  BY DEF MirrorInv, TypeOK
<1>2. /\ chan' \in [Chans -> Channel]
      /\ chanlist' \in [Members -> SUBSET Chans]
      /\ part_timers' \in [Chans -> 0..MaxPartTimers]
      /\ fault' \in Faults \union {"none"}
      /\ chans' \subseteq chans
      /\ ListsAgree'
      /\ LocalUserSpeaks'
      /\ \A m \in Members : chanlist'[m] \subseteq chans'
      /\ \A c \in Chans : chan'[c].userlist = base[c].userlist \ Leaving[c]
      /\ fault' = "none" /\ sjoin.chan \in chans => sjoin.chan \in chans'
  BY <1>1, RemoveMirrors
<1>3. NoDanglingMember'
  BY <1>2 DEF NoDanglingMember
<1>4. fault' = "none" /\ sjoin.nicks # {} => sjoin.chan \in chans'
  BY <1>2 DEF MirrorInv, SjoinLive, Running
<1>5. SjoinLive'
  BY <1>4 DEF MirrorInv, SjoinLive
<1>6. QED
  BY <1>1, <1>2, <1>3, <1>5

(* Users that leave by way of their own chanlist leave every channel.      *)
LEMMA OwnChansAreAll ==
  ASSUME NEW base, NEW lists, Mirrors(base, lists), NEW M \in SUBSET Members
  PROVE  /\ OwnChans(lists, M) \in [Chans -> SUBSET Members]
         /\ \A c \in Chans : base[c].userlist \ OwnChans(lists, M)[c]
                                = base[c].userlist \ M
<1>1. \A c \in Chans : base[c].userlist \subseteq Members
  BY ChannelFields DEF Mirrors
<1>2. QED
  BY <1>1 DEF OwnChans, Mirrors, Agrees

LEMMA LeaveOneType ==
  ASSUME NEW m \in Members, NEW c \in Chans
  PROVE  LeaveOne(c, m) \in [Chans -> SUBSET Members]
BY DEF LeaveOne

LEMMA RemoveRemotesStep ==
  ASSUME MirrorInv, Running, NEW M \in SUBSET users, RemoveRemotes(M),
         UNCHANGED <<locals, ChanMlocker, sjoin>>, servers' \subseteq servers
  PROVE  MirrorInv'
<1> DEFINE Leaving == OwnChans(chanlist, M)
<1>1. M \subseteq Members /\ users \subseteq Remotes
  BY DEF MirrorInv, TypeOK, Members
<1>2. /\ Leaving \in [Chans -> SUBSET Members]
      /\ \A c \in Chans : chan[c].userlist \ Leaving[c] \subseteq users' \union locals'
  BY <1>1, MirrorInvMirrors, OwnChansAreAll DEF RemoveRemotes
<1>3. Remove(chan, part_timers, Leaving) /\ chanlist' = ListsWithout(chanlist, Leaving)
  BY DEF RemoveRemotes
<1>4. /\ ListsAgree' /\ LocalUserSpeaks' /\ NoDanglingMember' /\ SjoinLive'
      /\ chan' \in [Chans -> Channel]
      /\ chanlist' \in [Members -> SUBSET Chans]
      /\ part_timers' \in [Chans -> 0..MaxPartTimers]
      /\ fault' \in Faults \union {"none"}
      /\ chans' \subseteq Chans
  <2> HIDE DEF Leaving
  <2>1. QED
    BY <1>2, <1>3, MirrorInvMirrors, LeavingStep
<1>5. /\ server' \in [Remotes -> Servers \union {NONE}]
      /\ from' \in [Remotes -> Servers \union {NONE}]
      /\ stealth' \subseteq Remotes /\ users' \subseteq Remotes
  BY DEF MirrorInv, TypeOK, RemoveRemotes
<1>6. TypeOK'
  BY <1>4, <1>5 DEF MirrorInv, TypeOK
<1>7. QED
  BY <1>4, <1>6 DEF MirrorInv

LEMMA MSquitMirrors ==
  ASSUME MirrorInv, NEW s \in Servers, MSquit(s) PROVE MirrorInv'
BY RemoveRemotesStep DEF MSquit, Idle, UsersBehind

LEMMA RemoteLeavesMirrors ==
  ASSUME MirrorInv, NEW u \in Remotes, RemoteLeaves(u) PROVE MirrorInv'
BY RemoveRemotesStep DEF RemoteLeaves, Idle

LEMMA QuitLocalUserMirrors ==
  ASSUME MirrorInv, NEW l \in Locals, QuitLocalUser(l) PROVE MirrorInv'
<1> DEFINE Leaving == OwnChans(chanlist, {l})
<1>1. {l} \subseteq Members /\ Running
  BY DEF Members, QuitLocalUser, Idle
<1>2. /\ Leaving \in [Chans -> SUBSET Members]
      /\ \A c \in Chans : chan[c].userlist \ Leaving[c] \subseteq users' \union locals'
  BY <1>1, MirrorInvMirrors, OwnChansAreAll DEF QuitLocalUser
<1>3. Remove(chan, part_timers, Leaving) /\ chanlist' = ListsWithout(chanlist, Leaving)
  BY DEF QuitLocalUser
<1>4. sjoin' = sjoin
  BY DEF QuitLocalUser
<1>5. /\ ListsAgree' /\ LocalUserSpeaks' /\ NoDanglingMember' /\ SjoinLive'
      /\ chan' \in [Chans -> Channel]
      /\ chanlist' \in [Members -> SUBSET Chans]
      /\ part_timers' \in [Chans -> 0..MaxPartTimers]
      /\ fault' \in Faults \union {"none"}
      /\ chans' \subseteq Chans
  <2> HIDE DEF Leaving
  <2>1. QED
    BY <1>1, <1>2, <1>3, <1>4, MirrorInvMirrors, LeavingStep
<1>6. TypeOK'
  BY <1>5 DEF MirrorInv, TypeOK, QuitLocalUser
<1>7. QED
  BY <1>5, <1>6 DEF MirrorInv

LEMMA LeaveChanMirrors ==
  ASSUME MirrorInv, NEW m \in Members, NEW c \in Chans, LeaveChan(m, c)
  PROVE  MirrorInv'
<1>1. Running /\ sjoin' = sjoin /\ users' = users /\ locals' = locals
  BY DEF LeaveChan, Idle
<1>2. /\ ListsAgree' /\ LocalUserSpeaks' /\ NoDanglingMember' /\ SjoinLive'
      /\ chan' \in [Chans -> Channel]
      /\ chanlist' \in [Members -> SUBSET Chans]
      /\ part_timers' \in [Chans -> 0..MaxPartTimers]
      /\ fault' \in Faults \union {"none"}
      /\ chans' \subseteq Chans
  BY <1>1, MirrorInvMirrors, LeaveOneType, LeavingStep DEF LeaveChan
<1>3. TypeOK'
  BY <1>2 DEF MirrorInv, TypeOK, LeaveChan
<1>4. QED
  BY <1>2, <1>3 DEF MirrorInv

LEMMA TimerPartMirrors ==
  ASSUME MirrorInv, NEW c \in Chans, TimerPart(c) PROVE MirrorInv'
<1> DEFINE Leaving == IF Parts(c) THEN LeaveOne(c, ChanServ) ELSE [d \in Chans |-> {}]
           timers == [part_timers EXCEPT ![c] = @ - 1]
<1>1. Running /\ sjoin' = sjoin /\ users' = users /\ locals' = locals
  BY DEF TimerPart, Idle
<1>2. Leaving \in [Chans -> SUBSET Members]
  BY LeaveOneType, NetworkAssumption DEF Members
<1>3. timers \in [Chans -> 0..MaxPartTimers]
  <2>1. part_timers[c] - 1 \in 0..MaxPartTimers
    BY NetworkAssumption DEF TimerPart, Due, MirrorInv, TypeOK
  <2>2. QED
    BY <2>1 DEF MirrorInv, TypeOK
<1>4. Remove(chan, timers, Leaving) /\ chanlist' = ListsWithout(chanlist, Leaving)
  BY DEF TimerPart
<1>5. /\ ListsAgree' /\ LocalUserSpeaks' /\ NoDanglingMember' /\ SjoinLive'
      /\ chan' \in [Chans -> Channel]
      /\ chanlist' \in [Members -> SUBSET Chans]
      /\ part_timers' \in [Chans -> 0..MaxPartTimers]
      /\ fault' \in Faults \union {"none"}
      /\ chans' \subseteq Chans
  <2> HIDE DEF Leaving, timers
  <2>1. QED
    BY <1>1, <1>2, <1>3, <1>4, MirrorInvMirrors, LeavingStep
<1>6. TypeOK'
  BY <1>5 DEF MirrorInv, TypeOK, TimerPart
<1>7. QED
  BY <1>5, <1>6 DEF MirrorInv

-----------------------------------------------------------------------------
(* The actions in which somebody joins.                                    *)

(* u, whose turn it is in a SJOIN, has been added to both lists.           *)
LEMMA SjoinJoined ==
  ASSUME MirrorInv, Running, NEW u \in sjoin.nicks \intersect users
  PROVE  /\ sjoin.chan \in Chans /\ sjoin.chan \in chans /\ u \in Members
         /\ Mirrors(With(chan, u, sjoin.chan), ListsWith(chanlist, u, sjoin.chan))
         /\ \A m \in Members : ListsWith(chanlist, u, sjoin.chan)[m] \subseteq chans
         /\ \A d \in Chans :
              With(chan, u, sjoin.chan)[d].userlist \subseteq users \union locals
<1>1. sjoin.chan \in Chans /\ sjoin.chan \in chans /\ u \in Members
  BY DEF MirrorInv, SjoinLive, Running, TypeOK, Members
<1>2. /\ Mirrors(With(chan, u, sjoin.chan), ListsWith(chanlist, u, sjoin.chan))
      /\ \A d \in Chans : With(chan, u, sjoin.chan)[d].userlist =
           chan[d].userlist \union (IF d = sjoin.chan THEN {u} ELSE {})
      /\ \A n \in Members : ListsWith(chanlist, u, sjoin.chan)[n] =
           chanlist[n] \union (IF n = u THEN {sjoin.chan} ELSE {})
  BY <1>1, MirrorInvMirrors, JoinMirrors
<1>3. QED
  BY <1>1, <1>2, MirrorInvMirrors

LEMMA SjoinNickMirrors ==
  ASSUME MirrorInv, NEW u \in Remotes, SjoinNick(u) PROVE MirrorInv'
<1> DEFINE c == sjoin.chan
<1>1. Running /\ u \in sjoin.nicks \intersect users /\ NickDone(u)
  BY DEF SjoinNick
<1>2. /\ chan' = With(chan, u, c) /\ chanlist' = ListsWith(chanlist, u, c)
      /\ users' = users /\ locals' = locals /\ chans' = chans
      /\ fault' \in Faults \union {"none"}
  BY DEF SjoinNick, JoinFault, Faults
<1>3. /\ c \in chans
      /\ Mirrors(chan', chanlist')
      /\ \A m \in Members : chanlist'[m] \subseteq chans'
      /\ \A d \in Chans : chan'[d].userlist \subseteq users' \union locals'
  BY <1>1, <1>2, SjoinJoined
<1>4. ListsAgree' /\ LocalUserSpeaks' /\ NoDanglingMember'
  BY <1>3 DEF Mirrors, Agrees, ListsAgree, LocalOK, LocalsOn, LocalUserSpeaks,
              NoDanglingMember
<1>5. /\ sjoin' \in [chan : Chans \union {NONE}, nicks : SUBSET Remotes]
      /\ sjoin'.nicks # {} => sjoin'.chan = sjoin.chan
  BY <1>1, NickDoneEffect DEF MirrorInv
<1>6. SjoinLive'
  BY <1>2, <1>3, <1>5 DEF SjoinLive, MirrorInv, TypeOK
<1>7. TypeOK'
  BY <1>2, <1>3, <1>5 DEF MirrorInv, TypeOK, SjoinNick, Mirrors
<1>8. QED
  BY <1>4, <1>6, <1>7 DEF MirrorInv

LEMMA SjoinAkickMirrors ==
  ASSUME MirrorInv, NEW u \in Remotes, SjoinAkick(u) PROVE MirrorInv'
<1> DEFINE c == sjoin.chan
           joined == With(chan, u, c)
           lists == ListsWith(chanlist, u, c)
           kicked == LeaveOne(c, u)
<1>1. /\ Running /\ u \in sjoin.nicks \intersect users /\ NickDone(u)
      /\ ChanServ \in locals /\ ChanServ \in Members
      /\ users' = users /\ locals' = locals
  BY NetworkAssumption DEF SjoinAkick, Members
<1>2. /\ c \in Chans /\ c \in chans /\ u \in Members
      /\ Mirrors(joined, lists)
      /\ \A m \in Members : lists[m] \subseteq chans
      /\ \A d \in Chans : joined[d].userlist \subseteq users \union locals
  BY <1>1, SjoinJoined
<1>3. /\ sjoin' \in [chan : Chans \union {NONE}, nicks : SUBSET Remotes]
      /\ sjoin'.nicks # {} => sjoin'.chan = sjoin.chan /\ sjoin.nicks # {}
  BY <1>1, NickDoneEffect DEF MirrorInv
<1>4. kicked \in [Chans -> SUBSET Members]
  BY <1>2, LeaveOneType
<1> DEFINE Kept ==
      /\ ListsAgree' /\ LocalUserSpeaks' /\ NoDanglingMember' /\ SjoinLive'
      /\ chan' \in [Chans -> Channel]
      /\ chanlist' \in [Members -> SUBSET Chans]
      /\ part_timers' \in [Chans -> 0..MaxPartTimers]
      /\ fault' \in Faults \union {"none"}
      /\ chans' \subseteq Chans
<1>5. CASE /\ Remove(joined, part_timers, kicked)
           /\ chanlist' = ListsWithout(lists, kicked)
  <2>1. Kept
    <3> HIDE DEF c, joined, lists, kicked
    <3>1. QED
      BY <1>1, <1>2, <1>3, <1>4, <1>5, MirrorInvMirrors, LeavingStep
  <2>2. QED
    BY <1>1, <1>3, <2>1 DEF MirrorInv, TypeOK, SjoinAkick
<1>6. CASE /\ part_timers[c] < MaxPartTimers
           /\ Remove(With(joined, ChanServ, c), GuardTimer(c), kicked)
           /\ chanlist' = ListsWithout(ListsWith(lists, ChanServ, c), kicked)
  <2> DEFINE base2 == With(joined, ChanServ, c)
             lists2 == ListsWith(lists, ChanServ, c)
             timers2 == GuardTimer(c)
  <2>1. /\ Mirrors(base2, lists2)
        /\ \A d \in Chans : base2[d].userlist =
             joined[d].userlist \union (IF d = c THEN {ChanServ} ELSE {})
        /\ \A n \in Members : lists2[n] =
             lists[n] \union (IF n = ChanServ THEN {c} ELSE {})
    <3> HIDE DEF c, joined, lists
    <3>1. QED
      BY <1>1, <1>2, JoinMirrors
  <2>2. timers2 \in [Chans -> 0..MaxPartTimers]
    BY <1>2, <1>6, NetworkAssumption DEF GuardTimer, MirrorInv, TypeOK
  <2>3. /\ \A m \in Members : lists2[m] \subseteq chans
        /\ \A d \in Chans : base2[d].userlist \subseteq users \union locals
    <3> HIDE DEF c, joined, lists, base2, lists2
    <3>1. QED
      BY <1>1, <1>2, <2>1
  <2>4. Kept
    <3>1. Remove(base2, timers2, kicked) /\ chanlist' = ListsWithout(lists2, kicked)
      BY <1>6
    <3> HIDE DEF c, joined, lists, kicked, base2, lists2, timers2
    <3>2. QED
      BY <1>1, <1>3, <1>4, <2>1, <2>2, <2>3, <3>1, LeavingStep
  <2>5. QED
    BY <1>1, <1>3, <2>4 DEF MirrorInv, TypeOK, SjoinAkick
<1>7. CASE fault' = "duplicate" /\ UNCHANGED <<chans, chan, chanlist, part_timers>>
  <2>1. ListsAgree' /\ LocalUserSpeaks' /\ NoDanglingMember'
    BY <1>1, <1>7 DEF MirrorInv, ListsAgree, LocalUserSpeaks, LocalsOn, NoDanglingMember
  <2>2. SjoinLive'
    BY <1>2, <1>3, <1>7 DEF SjoinLive
  <2>3. TypeOK'
    BY <1>1, <1>3, <1>7 DEF MirrorInv, TypeOK, SjoinAkick, Faults
  <2>4. QED
    BY <2>1, <2>2, <2>3 DEF MirrorInv
<1>8. QED
  BY <1>5, <1>6, <1>7 DEF SjoinAkick

LEMMA SjoinKillMirrors ==
  ASSUME MirrorInv, NEW u \in Remotes, SjoinKill(u) PROVE MirrorInv'
<1> DEFINE c == sjoin.chan
           joined == With(chan, u, c)
           lists == ListsWith(chanlist, u, c)
           Leaving == OwnChans(lists, {u})
<1>1. /\ Running /\ u \in sjoin.nicks \intersect users /\ NickDone(u)
      /\ users' = users \ {u} /\ locals' = locals
      /\ Remove(joined, part_timers, Leaving)
      /\ chanlist' = ListsWithout(lists, Leaving)
  BY DEF SjoinKill
<1>2. /\ u \in Members
      /\ Mirrors(joined, lists)
      /\ \A m \in Members : lists[m] \subseteq chans
      /\ \A d \in Chans : joined[d].userlist \subseteq users \union locals
  BY <1>1, SjoinJoined
<1>3. /\ sjoin' \in [chan : Chans \union {NONE}, nicks : SUBSET Remotes]
      /\ sjoin'.nicks # {} => sjoin'.chan = sjoin.chan /\ sjoin.nicks # {}
  BY <1>1, NickDoneEffect DEF MirrorInv
<1>4. /\ Leaving \in [Chans -> SUBSET Members]
      /\ \A d \in Chans : joined[d].userlist \ Leaving[d] = joined[d].userlist \ {u}
  <2> HIDE DEF c, joined, lists
  <2>1. QED
    BY <1>2, OwnChansAreAll
<1>5. \A d \in Chans : joined[d].userlist \ Leaving[d] \subseteq users' \union locals'
  <2> HIDE DEF c, joined, lists, Leaving
  <2>1. QED
    BY <1>1, <1>2, <1>4
<1>6. /\ ListsAgree' /\ LocalUserSpeaks' /\ NoDanglingMember' /\ SjoinLive'
      /\ chan' \in [Chans -> Channel]
      /\ chanlist' \in [Members -> SUBSET Chans]
      /\ part_timers' \in [Chans -> 0..MaxPartTimers]
      /\ fault' \in Faults \union {"none"}
      /\ chans' \subseteq Chans
  <2> HIDE DEF c, joined, lists, Leaving
  <2>1. QED
    BY <1>1, <1>2, <1>3, <1>4, <1>5, MirrorInvMirrors, LeavingStep
<1>7. TypeOK'
  BY <1>3, <1>6 DEF MirrorInv, TypeOK, SjoinKill
<1>8. QED
  BY <1>6, <1>7 DEF MirrorInv

LEMMA ChanJoinMirrors ==
  ASSUME MirrorInv, NEW l \in Locals, NEW c \in Chans, ChanJoin(l, c)
  PROVE  MirrorInv'
<1> DEFINE joined == With(chan, l, c)
<1>1. /\ l \in locals /\ l \in Members /\ ChanServ \in Locals
      /\ chanlist' = ListsWith(chanlist, l, c)
      /\ chans' = chans \union {c}
      /\ UNCHANGED <<users, locals, part_timers, sjoin, fault>>
  BY NetworkAssumption DEF ChanJoin, Members
<1>2. /\ Mirrors(joined, chanlist')
      /\ \A d \in Chans : joined[d].userlist =
           chan[d].userlist \union (IF d = c THEN {l} ELSE {})
      /\ \A n \in Members : chanlist'[n] =
           chanlist[n] \union (IF n = l THEN {c} ELSE {})
  BY <1>1, MirrorInvMirrors, JoinMirrors
<1>3. ASSUME NEW d \in Chans
      PROVE  /\ chan'[d] \in Channel
             /\ chan'[d].userlist = joined[d].userlist
             /\ LocalOK(chan'[d])
  <2>1. joined[d] \in Channel /\ LocalOK(joined[d]) /\ chan \in [Chans -> Channel]
    BY <1>2 DEF Mirrors, MirrorInv, TypeOK
  <2>2. CASE d = c /\ l = ChanServ
    <3>1. chan'[d] = [joined[d] EXCEPT !.local_user = l]
      BY <2>1, <2>2 DEF ChanJoin, With, Speaks
    <3>2. /\ chan'[d] \in Channel /\ chan'[d].userlist = joined[d].userlist
          /\ chan'[d].local_user = l
      BY <2>1, <3>1 DEF Channel
    <3>3. QED
      BY <1>2, <2>2, <3>2 DEF LocalOK, LocalsOn
  <2>3. CASE d = c /\ l # ChanServ
    <3>1. chan'[d] = joined[d]
      BY <2>1, <2>3 DEF ChanJoin, With, Speaks
    <3>2. QED
      BY <2>1, <3>1
  <2>4. CASE d # c
    <3>1. chan'[d] = joined[d]
      BY <2>1, <2>4 DEF ChanJoin, With
    <3>2. QED
      BY <2>1, <3>1
  <2>5. QED
    BY <2>2, <2>3, <2>4
<1>4. chan' \in [Chans -> Channel]
  BY <1>3 DEF ChanJoin, MirrorInv, TypeOK
<1>5. ListsAgree' /\ LocalUserSpeaks'
  <2>1. ListsAgree'
    BY <1>2, <1>3 DEF Mirrors, Agrees, ListsAgree
  <2>2. LocalUserSpeaks'
    BY <1>3 DEF LocalOK, LocalsOn, LocalUserSpeaks
  <2>3. QED
    BY <2>1, <2>2
<1>6. NoDanglingMember'
  BY <1>1, <1>2, <1>3 DEF MirrorInv, NoDanglingMember
<1>7. SjoinLive'
  BY <1>1 DEF MirrorInv, SjoinLive
<1>8. TypeOK'
  BY <1>1, <1>2, <1>4 DEF MirrorInv, TypeOK, ChanJoin, Mirrors
<1>9. QED
  BY <1>5, <1>6, <1>7, <1>8 DEF MirrorInv

LEMMA StepMirrors == MirrorInv /\ [Next]_vars => MirrorInv'
<1> SUFFICES ASSUME MirrorInv, [Next]_vars PROVE MirrorInv'
  OBVIOUS
<1>1. ASSUME NEW s \in Servers, MServer(s) \/ MSquit(s) PROVE MirrorInv'
  BY <1>1, QuietStep, MSquitMirrors
<1>2. ASSUME NEW u \in Remotes,
             \/ \E s \in servers \union {NONE}, f \in servers \union {NONE} :
                  \E umodes \in SUBSET {"stealth"} : MNick(u, s, f, umodes)
             \/ UmodeChange(u) \/ SjoinUnknown(u)
      PROVE  MirrorInv'
  BY <1>2, QuietStep
<1>3. ASSUME NEW u \in Remotes, RemoteLeaves(u) PROVE MirrorInv'
  BY <1>3, RemoteLeavesMirrors
<1>4. ASSUME NEW u \in Remotes, SjoinNick(u) \/ SjoinAkick(u) \/ SjoinKill(u)
      PROVE  MirrorInv'
  BY <1>4, SjoinNickMirrors, SjoinAkickMirrors, SjoinKillMirrors
<1>5. ASSUME NEW l \in Locals, CreateLocalUser(l) \/ QuitLocalUser(l)
      PROVE  MirrorInv'
  BY <1>5, QuietStep, QuitLocalUserMirrors
<1>6. ASSUME SetChanMlocker \/ UNCHANGED vars PROVE MirrorInv'
  BY <1>6, QuietStep
<1>7. ASSUME NEW c \in Chans,
             \/ \E nicks \in SUBSET Remotes : MSjoin(c, nicks)
             \/ \E m \in Members : LeaveChan(m, c)
             \/ \E l \in Locals : ChanJoin(l, c)
             \/ TimerPart(c)
      PROVE  MirrorInv'
  BY <1>7, QuietStep, LeaveChanMirrors, ChanJoinMirrors, TimerPartMirrors
<1>8. QED
  BY <1>1, <1>2, <1>3, <1>4, <1>5, <1>6, <1>7 DEF Next

(* The two membership lists, the pointers and the existence of members     *)
(* agree in every state: the inductive invariant of the network mirror.    *)
THEOREM MirrorInvariant == Spec => []MirrorInv
BY InitMirrors, StepMirrors, PTL DEF Spec

(* Whatever features are on, the two halves of every membership agree as   *)
(* long as the process runs (channel.c add_user_to_chan to del_chan_from_  *)
(* user, user.c del_user_chans).                                           *)
THEOREM ListsAlwaysAgree == Spec => []ListsAgree
<1>1. MirrorInv => ListsAgree
  BY DEF MirrorInv
<1>2. QED
  BY <1>1, MirrorInvariant, PTL

(* No way out of the network leaves a pointer to a freed user or channel.  *)
THEOREM MembersAlwaysLive == Spec => []NoDanglingMember
<1>1. MirrorInv => NoDanglingMember
  BY DEF MirrorInv
<1>2. QED
  BY <1>1, MirrorInvariant, PTL

(* chan->local_user is never the pointer of somebody who left.             *)
THEOREM LocalUserAlwaysSpeaks == Spec => []LocalUserSpeaks
<1>1. MirrorInv => LocalUserSpeaks
  BY DEF MirrorInv
<1>2. QED
  BY <1>1, MirrorInvariant, PTL

-----------------------------------------------------------------------------
(* Pointers to servers and to the mode lock user.                          *)

LEMMA StepPointers ==
  ASSUME TypeOK, PointersLive, [Next]_vars PROVE PointersLive'
<1>0. NONE \notin Servers
  BY NetworkAssumption
<1>1. ASSUME NEW s \in Servers, MServer(s) PROVE PointersLive'
  BY <1>1 DEF MServer, PointersLive
<1>2. ASSUME NEW s \in Servers, MSquit(s) PROVE PointersLive'
  BY <1>0, <1>2 DEF MSquit, RemoveRemotes, UsersBehind, PointersLive, TypeOK
<1>3. ASSUME NEW u \in Remotes, NEW s \in servers \union {NONE},
             NEW f \in servers \union {NONE}, NEW umodes \in SUBSET {"stealth"},
             MNick(u, s, f, umodes)
      PROVE  PointersLive'
  BY <1>3 DEF MNick, PointersLive, TypeOK
<1>4. ASSUME NEW u \in Remotes, RemoteLeaves(u) PROVE PointersLive'
  BY <1>4 DEF RemoteLeaves, RemoveRemotes, PointersLive, TypeOK
<1>5. ASSUME NEW u \in Remotes, SjoinKill(u) PROVE PointersLive'
  BY <1>5 DEF SjoinKill, PointersLive, TypeOK
<1>6. ASSUME NEW l \in Locals, QuitLocalUser(l) \/ CreateLocalUser(l)
      PROVE  PointersLive'
  BY <1>6 DEF QuitLocalUser, CreateLocalUser, PointersLive
<1>7. ASSUME SetChanMlocker PROVE PointersLive'
  BY <1>7 DEF SetChanMlocker, PointersLive
<1>8. ASSUME UNCHANGED <<servers, users, server, from, locals, ChanMlocker>>
      PROVE  PointersLive'
  BY <1>8 DEF PointersLive
<1>9. QED
  BY <1>1, <1>2, <1>3, <1>4, <1>5, <1>6, <1>7, <1>8
  DEF Next, vars, UmodeChange, SjoinUnknown, SjoinNick, SjoinAkick, MSjoin,
      LeaveChan, ChanJoin, TimerPart

(* A SQUIT takes every user along that points to the server                *)
(* (server.c del_all_from_server), and remove_local_user takes the mode    *)
(* lock away from the user it frees.                                       *)
THEOREM PointersAlwaysLive == Spec => []PointersLive
<1>1. Init => PointersLive
  BY DEF Init, PointersLive
<1>2. MirrorInv => TypeOK
  BY DEF MirrorInv
<1>3. TypeOK /\ PointersLive /\ [Next]_vars => PointersLive'
  BY StepPointers
<1>4. QED
  BY <1>1, <1>2, <1>3, MirrorInvariant, PTL DEF Spec

(* Together: the mirror is sound after every step, whatever messages,      *)
(* commands and handlers follow one another.                               *)
THEOREM MirrorAlwaysSound == Spec => []MirrorSound
<1>1. ListsAgree /\ NoDanglingMember /\ LocalUserSpeaks /\ PointersLive
        => MirrorSound
  BY DEF MirrorSound
<1>2. QED
  BY <1>1, ListsAlwaysAgree, MembersAlwaysLive, LocalUserAlwaysSpeaks,
     PointersAlwaysLive, PTL

-----------------------------------------------------------------------------
(* The counters of one channel, as long as nobody is stealth.              *)

CountOK(r) ==
  /\ r.users_count = Cardinality(r.userlist)
  /\ r.lusers_count = Cardinality(LocalsOn(r))

LEMMA WithMemberCount ==
  ASSUME stealth = {}, NEW r \in Channel, NEW m \in Members \ r.userlist, CountOK(r)
  PROVE  CountOK(WithMember(r, m))
<1>1. r.userlist \subseteq Members /\ m \notin r.userlist
  BY ChannelFields
<1>2. /\ IsFiniteSet(r.userlist) /\ Cardinality(r.userlist) \in Nat
      /\ IsFiniteSet(LocalsOn(r)) /\ Cardinality(LocalsOn(r)) \in Nat
  BY <1>1, FiniteMembers DEF LocalsOn
<1>3. /\ WithMember(r, m).userlist = r.userlist \union {m}
      /\ WithMember(r, m).users_count = r.users_count + Cardinality(Counted({m}))
      /\ WithMember(r, m).lusers_count =
           r.lusers_count + Cardinality(Counted({m} \intersect Locals))
  BY DEF WithMember
<1>4. Cardinality(Counted({m})) = 1
  <2>1. Counted({m}) = {m}
    BY DEF Counted
  <2>2. QED
    BY <2>1, FS_Singleton
<1>5. Cardinality(r.userlist \union {m}) = Cardinality(r.userlist) + 1
  BY <1>1, <1>2, FS_AddElement
<1>6. WithMember(r, m).lusers_count = Cardinality(LocalsOn(WithMember(r, m)))
  <2>1. CASE m \in Locals
    <3>1. Counted({m} \intersect Locals) = {m}
      BY <2>1 DEF Counted
    <3>2. LocalsOn(WithMember(r, m)) = LocalsOn(r) \union {m}
      BY <1>3, <2>1 DEF LocalsOn
    <3>3. m \notin LocalsOn(r)
      BY <1>1 DEF LocalsOn
    <3>4. Cardinality(LocalsOn(r) \union {m}) = Cardinality(LocalsOn(r)) + 1
      BY <1>2, <3>3, FS_AddElement
    <3>5. Cardinality({m}) = 1
      BY FS_Singleton
    <3>6. QED
      BY <1>2, <1>3, <3>1, <3>2, <3>4, <3>5 DEF CountOK
  <2>2. CASE m \notin Locals
    <3>1. Counted({m} \intersect Locals) = {}
      BY <2>2 DEF Counted
    <3>2. LocalsOn(WithMember(r, m)) = LocalsOn(r)
      BY <1>3, <2>2 DEF LocalsOn
    <3>3. Cardinality({}) = 0
      BY FS_EmptySet
    <3>4. r.lusers_count = Cardinality(LocalsOn(r))
      BY DEF CountOK
    <3>5. WithMember(r, m).lusers_count = r.lusers_count + 0
      BY <1>3, <3>1, <3>3
    <3>6. QED
      BY <1>2, <3>2, <3>4, <3>5
  <2>3. QED
    BY <2>1, <2>2
<1>7. QED
  BY <1>2, <1>3, <1>4, <1>5, <1>6 DEF CountOK

LEMMA WithoutMembersCount ==
  ASSUME stealth = {}, NEW r \in Channel, NEW M, NEW s \in Locals \union {NONE},
         CountOK(r)
  PROVE  /\ CountOK(WithoutMembers(r, M, s))
         /\ ~AssertFails(WithoutMembers(r, M, s))
<1>1. r.userlist \subseteq Members
  BY ChannelFields
<1>2. /\ IsFiniteSet(r.userlist) /\ Cardinality(r.userlist) \in Nat
      /\ IsFiniteSet(LocalsOn(r)) /\ Cardinality(LocalsOn(r)) \in Nat
      /\ Cardinality(r.userlist \ M) \in Nat
  BY <1>1, FiniteMembers DEF LocalsOn
<1>3. /\ WithoutMembers(r, M, s).userlist = r.userlist \ M
      /\ WithoutMembers(r, M, s).users_count =
           r.users_count - Cardinality(r.userlist \intersect M)
      /\ WithoutMembers(r, M, s).lusers_count =
           r.lusers_count - Cardinality(LocalsOn(r) \intersect M)
  <2>1. \A S : Counted(S) = S
    BY DEF Counted
  <2>2. QED
    BY <2>1 DEF WithoutMembers
<1>4. /\ Cardinality(r.userlist \ M) =
           Cardinality(r.userlist) - Cardinality(r.userlist \intersect M)
      /\ Cardinality(LocalsOn(r) \ M) =
           Cardinality(LocalsOn(r)) - Cardinality(LocalsOn(r) \intersect M)
  BY <1>2, FS_Difference
<1>5. LocalsOn(WithoutMembers(r, M, s)) = LocalsOn(r) \ M
  BY <1>3 DEF LocalsOn
<1>6. CountOK(WithoutMembers(r, M, s))
  BY <1>3, <1>4, <1>5 DEF CountOK
<1>7. ~AssertFails(WithoutMembers(r, M, s))
  <2>1. WithoutMembers(r, M, s).users_count = Cardinality(r.userlist \ M)
    BY <1>3, <1>6 DEF CountOK
  <2>2. WithoutMembers(r, M, s).userlist = {} => Cardinality(r.userlist \ M) = 0
    BY <1>3, FS_EmptySet
  <2>3. QED
    BY <1>2, <2>1, <2>2 DEF AssertFails
<1>8. QED
  BY <1>6, <1>7

LEMMA NewChanCount == CountOK(NewChan)
<1>1. LocalsOn(NewChan) = {}
  BY NewChanType DEF LocalsOn
<1>2. QED
  BY <1>1, NewChanType, FS_EmptySet DEF CountOK

(* A removal in which nobody leaves a freed channel, nor the last one the  *)
(* channel of a SJOIN in progress, does no harm.                           *)
LEMMA RemoveCount ==
  ASSUME stealth = {},
         NEW base \in [Chans -> Channel], NEW timers,
         NEW Leaving \in [Chans -> SUBSET Members],
         \A c \in Chans : CountOK(base[c]),
         \A c \in Chans : Leaving[c] # {} => c \in chans,
         sjoin.chan \in Chans =>
           ~(base[sjoin.chan].userlist \subseteq Leaving[sjoin.chan]),
         Remove(base, timers, Leaving)
  PROVE  /\ fault' = "none"
         /\ \A c \in Chans :
              /\ CountOK(chan'[c])
              /\ chan'[c].userlist = base[c].userlist \ Leaving[c]
              /\ base[c].local_user \in chan'[c].userlist =>
                   chan'[c].local_user = base[c].local_user
              /\ chan'[c].userlist # {} => part_timers'[c] = timers[c]
<1> DEFINE Out(c) == Leaving[c] \intersect base[c].userlist
           Freed == {c \in Chans : LosesLast(base[c], Out(c))}
<1>1. PICK successor \in [Chans -> Locals \union {NONE}] :
        /\ \A c \in Chans : successor[c] \in Successors(base[c], Out(c))
        /\ chan' = [c \in Chans |-> IF c \in Freed THEN NewChan
                      ELSE WithoutMembers(base[c], Out(c), successor[c])]
        /\ fault' =
             IF \E c \in Chans : /\ Out(c) # {}
                                 /\ AssertFails(WithoutMembers(base[c], Out(c), successor[c]))
             THEN "assert"
             ELSE IF \/ sjoin.chan \in Freed
                     \/ \E c \in Chans : Leaving[c] # {} /\ c \notin chans
             THEN "freed_channel"
             ELSE "none"
  BY DEF Remove
<1>2. part_timers' = [c \in Chans |-> IF c \in Freed THEN 0 ELSE timers[c]]
  BY DEF Remove
<1>3. ASSUME NEW c \in Chans
      PROVE  /\ ~AssertFails(WithoutMembers(base[c], Out(c), successor[c]))
             /\ CountOK(WithoutMembers(base[c], Out(c), successor[c]))
  <2>1. base[c] \in Channel /\ successor[c] \in Locals \union {NONE} /\ CountOK(base[c])
    OBVIOUS
  <2>2. QED
    BY <2>1, WithoutMembersCount
<1>4. sjoin.chan \notin Freed
  BY DEF LosesLast
<1>5. fault' = "none"
  BY <1>1, <1>3, <1>4
<1>6. ASSUME NEW c \in Chans
      PROVE  /\ CountOK(chan'[c])
             /\ chan'[c].userlist = base[c].userlist \ Leaving[c]
             /\ base[c].local_user \in chan'[c].userlist =>
                  chan'[c].local_user = base[c].local_user
             /\ chan'[c].userlist # {} => part_timers'[c] = timers[c]
  <2>1. CASE c \in Freed
    <3>1. chan'[c] = NewChan
      BY <1>1, <2>1
    <3>2. base[c].userlist \subseteq Leaving[c]
      BY <2>1 DEF LosesLast
    <3>3. QED
      BY <3>1, <3>2, NewChanType, NewChanCount
  <2>2. CASE c \notin Freed
    <3>1. chan'[c] = WithoutMembers(base[c], Out(c), successor[c])
      BY <1>1, <2>2
    <3>2. /\ base[c] \in Channel /\ successor[c] \in Locals \union {NONE}
          /\ successor[c] \in Successors(base[c], Out(c))
      BY <1>1
    <3>3. /\ chan'[c].userlist = base[c].userlist \ Out(c)
          /\ chan'[c].local_user = successor[c]
      BY <3>1, <3>2, WithoutMembersType
    <3>4. base[c].local_user \in chan'[c].userlist =>
            chan'[c].local_user = base[c].local_user
      BY <3>2, <3>3 DEF Successors
    <3>5. base[c].userlist \ Out(c) = base[c].userlist \ Leaving[c]
      OBVIOUS
    <3>6. part_timers'[c] = timers[c]
      BY <1>2, <2>2
    <3>7. CountOK(chan'[c])
      BY <1>3, <3>1
    <3>8. QED
      BY <3>3, <3>4, <3>5, <3>6, <3>7
  <2>3. QED
    BY <2>1, <2>2
<1>7. QED
  BY <1>5, <1>6

-----------------------------------------------------------------------------
(* The guard, when nobody is stealth and no os_uevent kills on joins.      *)

Tame == Features \subseteq {"akick", "crossing"}

(* The nicks still to be joined are not yet on the channel.                *)
SjoinFresh ==
  sjoin.nicks # {} => sjoin.nicks \intersect chan[sjoin.chan].userlist = {}

GuardInv ==
  /\ stealth = {}
  /\ \A c \in Chans : CountOK(chan[c])
  /\ GuardHasTimer
  /\ NoFault
  /\ SjoinFresh

(* Nobody joins and the mirror invariant holds: what a removal from the    *)
(* channels as they are leaves of the guard's invariant.                   *)
LEMMA LeavingKeepsGuard ==
  ASSUME MirrorInv, GuardInv, Idle,
         NEW timers \in [Chans -> 0..MaxPartTimers],
         NEW Leaving \in [Chans -> SUBSET Members],
         \A c \in Chans : Leaving[c] # {} => c \in chans,
         \A c \in Chans \ {LogChan} :
           ChanServ \in chan[c].userlist \ Leaving[c] => timers[c] > 0,
         Remove(chan, timers, Leaving), stealth' = {}, sjoin' = sjoin
  PROVE  GuardInv'
<1>1. chan \in [Chans -> Channel] /\ sjoin.nicks = {} /\ sjoin.chan \notin Chans
  BY NetworkAssumption DEF Idle, NoSjoin, MirrorInv, TypeOK
<1>2. stealth = {} /\ \A c \in Chans : CountOK(chan[c])
  BY DEF GuardInv
<1>3. /\ fault' = "none"
      /\ \A c \in Chans :
           /\ CountOK(chan'[c])
           /\ chan'[c].userlist = chan[c].userlist \ Leaving[c]
           /\ chan[c].local_user \in chan'[c].userlist =>
                chan'[c].local_user = chan[c].local_user
           /\ chan'[c].userlist # {} => part_timers'[c] = timers[c]
  BY <1>1, <1>2, RemoveCount
<1>4. GuardHasTimer'
  BY <1>3 DEF GuardInv, GuardHasTimer
<1>5. SjoinFresh' /\ NoFault'
  BY <1>1, <1>3 DEF SjoinFresh, NoFault
<1>6. QED
  BY <1>3, <1>4, <1>5 DEF GuardInv

LEMMA OwnChansLive ==
  ASSUME MirrorInv, NEW M \in SUBSET Members
  PROVE  \A c \in Chans : OwnChans(chanlist, M)[c] # {} => c \in chans
BY MirrorInvMirrors DEF OwnChans

LEMMA GuardQuiet ==
  ASSUME Tame, MirrorInv, GuardInv,
         \/ \E s \in Servers : MServer(s)
         \/ \E u \in Remotes, s \in servers \union {NONE}, f \in servers \union {NONE} :
              \E umodes \in SUBSET {"stealth"} : MNick(u, s, f, umodes)
         \/ \E u \in Remotes : UmodeChange(u) \/ SjoinUnknown(u) \/ SjoinKill(u)
         \/ \E l \in Locals : CreateLocalUser(l)
         \/ SetChanMlocker
         \/ \E c \in Chans, nicks \in SUBSET Remotes : MSjoin(c, nicks)
         \/ UNCHANGED vars
  PROVE  GuardInv'
<1>1. "stealth" \notin Features /\ "joinkill" \notin Features
  BY DEF Tame
<1>2. chan' = chan /\ part_timers' = part_timers /\ fault' = fault /\ stealth' = stealth
  <2>1. ASSUME NEW u \in Remotes, NEW s, NEW f, NEW umodes \in SUBSET {"stealth"},
               MNick(u, s, f, umodes)
        PROVE  stealth' = stealth
    <3>1. umodes = {}
      BY <1>1, <2>1 DEF MNick
    <3>2. QED
      BY <2>1, <3>1 DEF MNick
  <2>2. QED
    BY <1>1, <2>1 DEF MServer, MNick, UmodeChange, SjoinUnknown, SjoinKill,
         CreateLocalUser, SetChanMlocker, MSjoin, vars
<1>3. SjoinFresh'
  <2>1. CASE sjoin' = sjoin
    BY <1>2, <2>1 DEF GuardInv, SjoinFresh
  <2>2. ASSUME NEW u \in Remotes, SjoinUnknown(u) PROVE SjoinFresh'
    <3>1. /\ sjoin'.nicks # {} => sjoin'.chan = sjoin.chan
          /\ sjoin'.nicks \subseteq sjoin.nicks
      <4>1. CASE sjoin.nicks = {u}
        BY <2>2, <4>1 DEF SjoinUnknown, NickDone, NoSjoin
      <4>2. CASE sjoin.nicks # {u}
        BY <2>2, <4>2 DEF SjoinUnknown, NickDone, MirrorInv, TypeOK
      <4>3. QED
        BY <4>1, <4>2
    <3>2. QED
      BY <1>2, <3>1 DEF GuardInv, SjoinFresh
  <2>3. ASSUME NEW c \in Chans, NEW nicks \in SUBSET Remotes, MSjoin(c, nicks)
        PROVE  SjoinFresh'
    BY <1>2, <2>3 DEF MSjoin, SjoinFresh
  <2>4. QED
    BY <1>1, <2>1, <2>2, <2>3 DEF MServer, MNick, UmodeChange, SjoinKill,
         CreateLocalUser, SetChanMlocker, vars
<1>4. GuardHasTimer' /\ NoFault' /\ \A c \in Chans : CountOK(chan'[c])
  BY <1>2 DEF GuardInv, GuardHasTimer, NoFault
<1>5. QED
  BY <1>2, <1>3, <1>4 DEF GuardInv

LEMMA GuardLeaving ==
  ASSUME Tame, MirrorInv, GuardInv,
         \/ \E s \in Servers : MSquit(s)
         \/ \E u \in Remotes : RemoteLeaves(u)
         \/ \E l \in Locals : QuitLocalUser(l)
         \/ \E m \in Members, c \in Chans : LeaveChan(m, c)
  PROVE  GuardInv'
<1>1. /\ part_timers \in [Chans -> 0..MaxPartTimers]
      /\ \A c \in Chans \ {LogChan} : ChanServ \in chan[c].userlist => part_timers[c] > 0
      /\ stealth = {} /\ users \subseteq Members /\ Locals \subseteq Members
      /\ Mirrors(chan, chanlist)
  BY MirrorInvMirrors DEF MirrorInv, GuardInv, GuardHasTimer, Members
<1>2. ASSUME NEW M \in SUBSET Members, Idle,
             Remove(chan, part_timers, OwnChans(chanlist, M)),
             stealth' = {}, sjoin' = sjoin
      PROVE  GuardInv'
  <2>1. OwnChans(chanlist, M) \in [Chans -> SUBSET Members]
    BY <1>1, OwnChansAreAll
  <2>2. QED
    BY <1>1, <1>2, <2>1, OwnChansLive, LeavingKeepsGuard
<1>3. ASSUME NEW s \in Servers, MSquit(s) PROVE GuardInv'
  <2>1. /\ UsersBehind(s) \in SUBSET Members /\ Idle
        /\ Remove(chan, part_timers, OwnChans(chanlist, UsersBehind(s)))
        /\ stealth' = {} /\ sjoin' = sjoin
    BY <1>1, <1>3 DEF MSquit, RemoveRemotes, UsersBehind
  <2>2. QED
    BY <1>2, <2>1
<1>4. ASSUME NEW u \in Remotes, RemoteLeaves(u) PROVE GuardInv'
  <2>1. /\ {u} \in SUBSET Members /\ Idle
        /\ Remove(chan, part_timers, OwnChans(chanlist, {u}))
        /\ stealth' = {} /\ sjoin' = sjoin
    BY <1>1, <1>4 DEF RemoteLeaves, RemoveRemotes
  <2>2. QED
    BY <1>2, <2>1
<1>5. ASSUME NEW l \in Locals, QuitLocalUser(l) PROVE GuardInv'
  <2>1. /\ {l} \in SUBSET Members /\ Idle
        /\ Remove(chan, part_timers, OwnChans(chanlist, {l}))
        /\ stealth' = {} /\ sjoin' = sjoin
    BY <1>1, <1>5 DEF QuitLocalUser
  <2>2. QED
    BY <1>2, <2>1
<1>6. ASSUME NEW m \in Members, NEW c \in Chans, LeaveChan(m, c) PROVE GuardInv'
  <2>1. /\ LeaveOne(c, m) \in [Chans -> SUBSET Members]
        /\ \A d \in Chans : LeaveOne(c, m)[d] # {} => d \in chans
    BY <1>6, LeaveOneType DEF LeaveOne, LeaveChan
  <2>2. /\ Idle /\ Remove(chan, part_timers, LeaveOne(c, m))
        /\ stealth' = {} /\ sjoin' = sjoin
    BY <1>1, <1>6 DEF LeaveChan
  <2>3. QED
    BY <1>1, <2>1, <2>2, LeavingKeepsGuard
<1>7. QED
  BY <1>3, <1>4, <1>5, <1>6

LEMMA GuardTimerPart ==
  ASSUME MirrorInv, GuardInv, NEW c \in Chans, TimerPart(c) PROVE GuardInv'
<1> DEFINE Leaving == IF Parts(c) THEN LeaveOne(c, ChanServ) ELSE [d \in Chans |-> {}]
           timers == [part_timers EXCEPT ![c] = @ - 1]
<1>1. part_timers \in [Chans -> 0..MaxPartTimers] /\ ChanServ \in Members
  BY NetworkAssumption DEF MirrorInv, TypeOK, Members
<1>2. timers \in [Chans -> 0..MaxPartTimers]
  <2>1. part_timers[c] - 1 \in 0..MaxPartTimers
    BY <1>1, NetworkAssumption DEF TimerPart, Due
  <2>2. QED
    BY <1>1, <2>1
<1>3. Leaving \in [Chans -> SUBSET Members]
  BY <1>1, LeaveOneType
<1>4. \A d \in Chans : Leaving[d] # {} => d \in chans
  <2>1. Parts(c) => c \in chans
    <3>1. ASSUME Parts(c) PROVE ChanServ \in chan[c].userlist
      BY <3>1, NoneIsNoMember, NetworkAssumption
      DEF Parts, MirrorInv, LocalUserSpeaks, LocalsOn
    <3>2. QED
      BY <1>1, <3>1 DEF MirrorInv, ListsAgree, NoDanglingMember
  <2>2. QED
    BY <2>1 DEF LeaveOne
<1>5. \A d \in Chans \ {LogChan} :
        ChanServ \in chan[d].userlist \ Leaving[d] => timers[d] > 0
  <2>1. SUFFICES ASSUME NEW d \in Chans \ {LogChan},
                        ChanServ \in chan[d].userlist \ Leaving[d]
                 PROVE  timers[d] > 0
    OBVIOUS
  <2>2. chan[d].local_user = ChanServ /\ part_timers[d] > 0
    BY <2>1 DEF GuardInv, GuardHasTimer
  <2>3. d # c
    BY <2>1, <2>2 DEF Parts, LeaveOne
  <2>4. QED
    BY <1>1, <2>2, <2>3
<1>6. /\ Idle /\ Remove(chan, timers, Leaving) /\ stealth' = {} /\ sjoin' = sjoin
  BY DEF TimerPart, GuardInv
<1>7. QED
  <2> HIDE DEF Leaving, timers
  <2>1. QED
    BY <1>2, <1>3, <1>4, <1>5, <1>6, LeavingKeepsGuard

LEMMA GuardChanJoin ==
  ASSUME MirrorInv, GuardInv, NEW l \in Locals, NEW c \in Chans, ChanJoin(l, c)
  PROVE  GuardInv'
<1>1. /\ chan \in [Chans -> Channel] /\ l \in Members \ chan[c].userlist
      /\ ChanServ # NONE /\ stealth = {} /\ CountOK(chan[c])
  BY NoneIsNoMember, NetworkAssumption
  DEF ChanJoin, MirrorInv, TypeOK, Members, GuardInv
<1>2. /\ chan' = [chan EXCEPT ![c] = Speaks(WithMember(chan[c], l), l)]
      /\ UNCHANGED <<stealth, part_timers, fault, sjoin>>
      /\ c = LogChan \/ (l # ChanServ /\ chan[c].local_user = NONE)
      /\ sjoin.nicks = {}
  BY DEF ChanJoin, Idle, NoSjoin
<1>3. /\ WithMember(chan[c], l) \in Channel
      /\ CountOK(WithMember(chan[c], l))
      /\ WithMember(chan[c], l).userlist = chan[c].userlist \union {l}
  <2>1. chan[c] \in Channel
    BY <1>1
  <2>2. QED
    BY <1>1, <2>1, WithMemberType, WithMemberCount
<1>4. CountOK(Speaks(WithMember(chan[c], l), l))
  <2>1. /\ Speaks(WithMember(chan[c], l), l).userlist = WithMember(chan[c], l).userlist
        /\ Speaks(WithMember(chan[c], l), l).users_count = WithMember(chan[c], l).users_count
        /\ Speaks(WithMember(chan[c], l), l).lusers_count = WithMember(chan[c], l).lusers_count
    BY <1>3 DEF Speaks, Channel
  <2>2. QED
    BY <1>3, <2>1 DEF CountOK, LocalsOn
<1>5. \A d \in Chans : CountOK(chan'[d])
  BY <1>1, <1>2, <1>4 DEF GuardInv
<1>6. GuardHasTimer'
  <2>1. SUFFICES ASSUME NEW d \in Chans \ {LogChan}, ChanServ \in chan'[d].userlist
                 PROVE  chan'[d].local_user = ChanServ /\ part_timers'[d] > 0
    BY DEF GuardHasTimer
  <2>2. CASE d = c
    <3>1. l # ChanServ /\ chan[c].local_user = NONE
      BY <1>2, <2>1, <2>2
    <3>2. chan'[c].userlist = chan[c].userlist \union {l}
      BY <1>1, <1>2, <1>3, <3>1 DEF Speaks
    <3>3. ChanServ \in chan[c].userlist
      BY <2>1, <2>2, <3>1, <3>2
    <3>4. QED
      BY <1>1, <2>1, <2>2, <3>1, <3>3 DEF GuardInv, GuardHasTimer
  <2>3. CASE d # c
    BY <1>1, <1>2, <2>1, <2>3 DEF GuardInv, GuardHasTimer
  <2>4. QED
    BY <2>2, <2>3
<1>7. SjoinFresh' /\ NoFault'
  BY <1>2 DEF SjoinFresh, GuardInv, NoFault
<1>8. QED
  BY <1>1, <1>2, <1>5, <1>6, <1>7 DEF GuardInv

(* The nick whose turn it is is off the rest of the list.                  *)
LEMMA NickDoneRest ==
  ASSUME MirrorInv, NEW u \in sjoin.nicks, NickDone(u)
  PROVE  /\ sjoin'.nicks = sjoin.nicks \ {u}
         /\ sjoin'.nicks # {} => sjoin'.chan = sjoin.chan
<1>1. CASE sjoin.nicks = {u}
  BY <1>1 DEF NickDone, NoSjoin
<1>2. CASE sjoin.nicks # {u}
  BY <1>2 DEF NickDone, MirrorInv, TypeOK
<1>3. QED
  BY <1>1, <1>2

(* A fresh user on the channel of the SJOIN.                               *)
LEMMA GuardJoined ==
  ASSUME MirrorInv, GuardInv, NEW u \in sjoin.nicks \intersect users
  PROVE  LET c == sjoin.chan
             joined == With(chan, u, c)
         IN  /\ c \in Chans /\ c \in chans
             /\ u \in Members /\ u \notin chan[c].userlist /\ u \notin Locals
             /\ joined \in [Chans -> Channel]
             /\ \A d \in Chans :
                  /\ CountOK(joined[d]) /\ LocalOK(joined[d])
                  /\ joined[d].userlist = chan[d].userlist \union
                                           (IF d = c THEN {u} ELSE {})
                  /\ joined[d].local_user = chan[d].local_user
<1> DEFINE c == sjoin.chan
           joined == With(chan, u, c)
<1>1. Running
  BY DEF Running, GuardInv, NoFault
<1>2. /\ c \in Chans /\ c \in chans /\ u \in Members /\ Mirrors(joined, ListsWith(chanlist, u, c))
  BY <1>1, SjoinJoined
<1>3. /\ u \notin chan[c].userlist /\ u \notin Locals
      /\ chan \in [Chans -> Channel] /\ stealth = {}
  BY NetworkAssumption DEF MirrorInv, TypeOK, GuardInv, SjoinFresh
<1>4. \A d \in Chans : joined[d] = IF d = c THEN WithMember(chan[d], u) ELSE chan[d]
  BY <1>3 DEF With
<1>5. ASSUME NEW d \in Chans
      PROVE  /\ CountOK(joined[d])
             /\ joined[d].userlist = chan[d].userlist \union (IF d = c THEN {u} ELSE {})
             /\ joined[d].local_user = chan[d].local_user
  <2>1. chan[d] \in Channel /\ CountOK(chan[d])
    BY <1>3 DEF GuardInv
  <2>2. CASE d = c
    <3>1. joined[d] = WithMember(chan[d], u)
      BY <1>4, <2>2
    <3>2. CountOK(WithMember(chan[d], u))
      BY <1>2, <1>3, <2>1, <2>2, WithMemberCount
    <3>3. /\ WithMember(chan[d], u).userlist = chan[d].userlist \union {u}
          /\ WithMember(chan[d], u).local_user = chan[d].local_user
      BY <1>2, <1>3, <2>1, WithMemberType
    <3>4. QED
      BY <2>2, <3>1, <3>2, <3>3
  <2>3. CASE d # c
    BY <1>4, <2>1, <2>3
  <2>4. QED
    BY <2>2, <2>3
<1>6. QED
  BY <1>2, <1>3, <1>5 DEF Mirrors

LEMMA GuardSjoinNick ==
  ASSUME MirrorInv, GuardInv, NEW u \in Remotes, SjoinNick(u) PROVE GuardInv'
<1> DEFINE c == sjoin.chan
<1>1. /\ u \in sjoin.nicks \intersect users /\ NickDone(u)
      /\ chan' = With(chan, u, c)
      /\ fault' = JoinFault(c, u)
      /\ UNCHANGED <<stealth, part_timers>>
  BY DEF SjoinNick
<1>2. /\ c \in Chans /\ u \notin chan[c].userlist /\ u \notin Locals
      /\ \A d \in Chans :
           /\ CountOK(chan'[d])
           /\ chan'[d].userlist = chan[d].userlist \union (IF d = c THEN {u} ELSE {})
           /\ chan'[d].local_user = chan[d].local_user
  BY <1>1, GuardJoined
<1>3. GuardHasTimer'
  BY <1>1, <1>2, NetworkAssumption DEF GuardInv, GuardHasTimer
<1>4. NoFault'
  BY <1>1, <1>2 DEF NoFault, JoinFault
<1>5. SjoinFresh'
  BY <1>1, <1>2, NickDoneRest DEF SjoinFresh, GuardInv
<1>6. QED
  BY <1>1, <1>2, <1>3, <1>4, <1>5 DEF GuardInv

(* When the kicked user is the only one that counts, it is alone.          *)
LEMMA AloneWhenOne ==
  ASSUME NEW r \in Channel, CountOK(r), NEW u \in r.userlist
  PROVE  r.users_count = 1 <=> r.userlist = {u}
<1>1. IsFiniteSet(r.userlist)
  BY ChannelFields, FiniteMembers
<1>2. Cardinality(r.userlist) = 1 <=> \E x : r.userlist = {x}
  BY <1>1, FS_Singleton
<1>3. QED
  BY <1>2 DEF CountOK

LEMMA GuardSjoinAkick ==
  ASSUME MirrorInv, GuardInv, NEW u \in Remotes, SjoinAkick(u) PROVE GuardInv'
<1> DEFINE c == sjoin.chan
           joined == With(chan, u, c)
           kicked == LeaveOne(c, u)
<1>1. /\ u \in sjoin.nicks \intersect users /\ NickDone(u) /\ stealth' = stealth
      /\ stealth = {} /\ ChanServ \in Locals /\ ChanServ \in Members
      /\ part_timers \in [Chans -> 0..MaxPartTimers]
  BY NetworkAssumption DEF SjoinAkick, GuardInv, Members, MirrorInv, TypeOK
<1>2. /\ c \in Chans /\ c \in chans
      /\ u \in Members /\ u \notin chan[c].userlist /\ u \notin Locals
      /\ joined \in [Chans -> Channel]
      /\ \A d \in Chans :
           /\ CountOK(joined[d]) /\ LocalOK(joined[d])
           /\ joined[d].userlist = chan[d].userlist \union (IF d = c THEN {u} ELSE {})
           /\ joined[d].local_user = chan[d].local_user
  BY <1>1, GuardJoined
<1>3. /\ kicked \in [Chans -> SUBSET Members]
      /\ \A d \in Chans : kicked[d] = IF d = c THEN {u} ELSE {}
  BY <1>2, LeaveOneType DEF LeaveOne
<1>4. NeedsGuard(joined[c]) <=> joined[c].userlist = {u}
  <2>1. joined[c] \in Channel /\ CountOK(joined[c]) /\ u \in joined[c].userlist
    BY <1>2
  <2> HIDE DEF joined, c
  <2>2. QED
    BY <2>1, AloneWhenOne DEF NeedsGuard
<1>5. ASSUME \A d \in Chans : chan'[d].userlist \subseteq
                chan[d].userlist \union {ChanServ}
      PROVE  SjoinFresh'
  BY <1>1, <1>2, <1>5, NickDoneRest, NetworkAssumption
  DEF SjoinFresh, GuardInv, MirrorInv, TypeOK
<1>6. CASE ~NeedsGuard(joined[c]) /\ Remove(joined, part_timers, kicked)
  <2>1. ~(joined[c].userlist \subseteq kicked[c])
    BY <1>2, <1>3, <1>4, <1>6
  <2>2. /\ fault' = "none"
        /\ \A d \in Chans :
             /\ CountOK(chan'[d])
             /\ chan'[d].userlist = joined[d].userlist \ kicked[d]
             /\ joined[d].local_user \in chan'[d].userlist =>
                  chan'[d].local_user = joined[d].local_user
             /\ chan'[d].userlist # {} => part_timers'[d] = part_timers[d]
    <3>1. sjoin.chan \in Chans => ~(joined[sjoin.chan].userlist \subseteq kicked[sjoin.chan])
      BY <2>1
    <3>2. \A d \in Chans : kicked[d] # {} => d \in chans
      BY <1>2, <1>3
    <3> HIDE DEF joined, kicked, c
    <3>3. QED
      BY <1>1, <1>2, <1>3, <1>6, <3>1, <3>2, RemoveCount
  <2>3. \A d \in Chans : chan'[d].userlist = chan[d].userlist
    <3>1. SUFFICES ASSUME NEW d \in Chans PROVE chan'[d].userlist = chan[d].userlist
      OBVIOUS
    <3>2. /\ chan'[d].userlist = joined[d].userlist \ kicked[d]
          /\ kicked[d] = IF d = c THEN {u} ELSE {}
          /\ joined[d].userlist = chan[d].userlist \union (IF d = c THEN {u} ELSE {})
      BY <1>2, <1>3, <2>2
    <3>3. d = c => u \notin chan[d].userlist
      BY <1>2
    <3> HIDE DEF joined, kicked, c
    <3>4. CASE d = c
      BY <3>2, <3>3, <3>4
    <3>5. CASE d # c
      BY <3>2, <3>5
    <3>6. QED
      BY <3>4, <3>5
  <2>4. GuardHasTimer'
    <3>1. SUFFICES ASSUME NEW d \in Chans \ {LogChan}, ChanServ \in chan'[d].userlist
                   PROVE  chan'[d].local_user = ChanServ /\ part_timers'[d] > 0
      BY DEF GuardHasTimer
    <3>2. chan[d].local_user = ChanServ /\ part_timers[d] > 0
      BY <2>3, <3>1 DEF GuardInv, GuardHasTimer
    <3>3. joined[d].local_user = chan[d].local_user
      BY <1>2
    <3>4. /\ joined[d].local_user \in chan'[d].userlist =>
               chan'[d].local_user = joined[d].local_user
          /\ chan'[d].userlist # {} => part_timers'[d] = part_timers[d]
      BY <2>2
    <3> HIDE DEF joined, kicked, c
    <3>5. QED
      BY <3>1, <3>2, <3>3, <3>4
  <2>5. SjoinFresh'
    BY <1>5, <2>3
  <2>6. QED
    BY <1>1, <2>2, <2>4, <2>5 DEF GuardInv, NoFault
<1>7. CASE /\ NeedsGuard(joined[c])
           /\ Remove(With(joined, ChanServ, c), GuardTimer(c), kicked)
  <2> DEFINE base2 == With(joined, ChanServ, c)
  <2>1. joined[c].userlist = {u} /\ ChanServ # u /\ ChanServ # NONE
    BY <1>1, <1>2, <1>4, <1>7, NoneIsNoMember
  <2>2. joined[c].local_user = NONE
    <3>1. LocalsOn(joined[c]) = {}
      BY <1>2, <2>1 DEF LocalsOn
    <3>2. LocalOK(joined[c])
      BY <1>2
    <3>3. QED
      BY <3>1, <3>2 DEF LocalOK
  <2>3. \A d \in Chans : base2[d] =
          IF d = c THEN WithMember(joined[d], ChanServ) ELSE joined[d]
    BY <1>2 DEF With
  <2>4. /\ WithMember(joined[c], ChanServ) \in Channel
        /\ CountOK(WithMember(joined[c], ChanServ))
        /\ WithMember(joined[c], ChanServ).userlist = {u, ChanServ}
        /\ WithMember(joined[c], ChanServ).local_user = ChanServ
    <3>1. joined[c] \in Channel /\ CountOK(joined[c]) /\ ChanServ \in Members \ joined[c].userlist
      BY <1>1, <1>2, <2>1
    <3>2. /\ WithMember(joined[c], ChanServ) \in Channel
          /\ CountOK(WithMember(joined[c], ChanServ))
      BY <1>1, <3>1, WithMemberType, WithMemberCount
    <3>3. /\ WithMember(joined[c], ChanServ).userlist = joined[c].userlist \union {ChanServ}
          /\ WithMember(joined[c], ChanServ).local_user = ChanServ
      BY <1>1, <2>2, <3>1, WithMemberType
    <3>4. QED
      BY <2>1, <3>2, <3>3
  <2>5. base2 \in [Chans -> Channel]
    BY <1>2, <2>4 DEF With
  <2>6. \A d \in Chans : CountOK(base2[d])
    BY <1>2, <2>3, <2>4
  <2>7. ~(base2[c].userlist \subseteq kicked[c])
    BY <1>2, <1>3, <2>1, <2>3, <2>4
  <2>8. /\ fault' = "none"
        /\ \A d \in Chans :
             /\ CountOK(chan'[d])
             /\ chan'[d].userlist = base2[d].userlist \ kicked[d]
             /\ base2[d].local_user \in chan'[d].userlist =>
                  chan'[d].local_user = base2[d].local_user
             /\ chan'[d].userlist # {} => part_timers'[d] = GuardTimer(c)[d]
    <3>1. sjoin.chan \in Chans => ~(base2[sjoin.chan].userlist \subseteq kicked[sjoin.chan])
      BY <2>7
    <3>2. \A d \in Chans : kicked[d] # {} => d \in chans
      BY <1>2, <1>3
    <3>3. Remove(base2, GuardTimer(c), kicked)
      BY <1>7
    <3> HIDE DEF joined, kicked, c, base2
    <3>4. QED
      BY <1>1, <1>3, <2>5, <2>6, <3>1, <3>2, <3>3, RemoveCount
  <2>9. /\ chan'[c].userlist = {ChanServ} /\ chan'[c].local_user = ChanServ
        /\ part_timers'[c] = part_timers[c] + 1
    <3>1. base2[c].userlist = {u, ChanServ} /\ base2[c].local_user = ChanServ
      BY <1>2, <2>3, <2>4
    <3>2. chan'[c].userlist = {ChanServ}
      BY <1>2, <1>3, <2>1, <2>8, <3>1
    <3>3. GuardTimer(c)[c] = part_timers[c] + 1
      BY <1>1, <1>2 DEF GuardTimer
    <3>4. QED
      BY <1>2, <2>8, <3>1, <3>2, <3>3
  <2>10. \A d \in Chans : d # c =>
           /\ chan'[d].userlist = chan[d].userlist
           /\ chan[d].local_user \in chan'[d].userlist =>
                chan'[d].local_user = chan[d].local_user
           /\ chan'[d].userlist # {} => part_timers'[d] = part_timers[d]
    <3>1. \A d \in Chans : d # c => GuardTimer(c)[d] = part_timers[d]
      BY <1>1, <1>2 DEF GuardTimer
    <3>2. SUFFICES ASSUME NEW d \in Chans, d # c
                   PROVE  /\ chan'[d].userlist = chan[d].userlist
                          /\ chan[d].local_user \in chan'[d].userlist =>
                               chan'[d].local_user = chan[d].local_user
                          /\ chan'[d].userlist # {} => part_timers'[d] = part_timers[d]
      OBVIOUS
    <3>3. base2[d] = joined[d] /\ kicked[d] = {}
      BY <1>3, <2>3, <3>2
    <3>4. joined[d].userlist = chan[d].userlist /\ joined[d].local_user = chan[d].local_user
      <4>1. /\ joined[d].userlist = chan[d].userlist \union (IF d = c THEN {u} ELSE {})
            /\ joined[d].local_user = chan[d].local_user
        BY <1>2
      <4> HIDE DEF joined, c
      <4>2. QED
        BY <3>2, <4>1
    <3>5. /\ chan'[d].userlist = base2[d].userlist \ kicked[d]
          /\ base2[d].local_user \in chan'[d].userlist =>
               chan'[d].local_user = base2[d].local_user
          /\ chan'[d].userlist # {} => part_timers'[d] = GuardTimer(c)[d]
      BY <2>8
    <3> HIDE DEF joined, kicked, c, base2
    <3>6. QED
      BY <3>1, <3>2, <3>3, <3>4, <3>5
  <2>11. GuardHasTimer'
    <3>1. part_timers[c] + 1 > 0
      BY <1>1, <1>2, NetworkAssumption
    <3>2. QED
      BY <2>9, <2>10, <3>1 DEF GuardInv, GuardHasTimer
  <2>12. SjoinFresh'
    <3>1. chan[c].userlist = {}
      BY <1>2, <2>1
    <3>2. QED
      BY <1>5, <2>9, <2>10
  <2>13. QED
    BY <1>1, <2>8, <2>11, <2>12 DEF GuardInv, NoFault
<1>8. CASE NeedsGuard(joined[c]) /\ ChanServ \in chan[c].userlist
  BY <1>1, <1>2, <1>4, <1>8
<1>9. QED
  BY <1>6, <1>7, <1>8 DEF SjoinAkick

LEMMA StepGuard ==
  ASSUME Tame, MirrorInv, GuardInv, [Next]_vars PROVE GuardInv'
<1>1. ASSUME NEW s \in Servers, MServer(s) \/ MSquit(s) PROVE GuardInv'
  BY <1>1, GuardQuiet, GuardLeaving
<1>2. ASSUME NEW u \in Remotes,
             \/ \E s \in servers \union {NONE}, f \in servers \union {NONE} :
                  \E umodes \in SUBSET {"stealth"} : MNick(u, s, f, umodes)
             \/ UmodeChange(u) \/ SjoinUnknown(u) \/ SjoinKill(u)
      PROVE  GuardInv'
  BY <1>2, GuardQuiet
<1>3. ASSUME NEW u \in Remotes, RemoteLeaves(u) PROVE GuardInv'
  BY <1>3, GuardLeaving
<1>4. ASSUME NEW u \in Remotes, SjoinNick(u) \/ SjoinAkick(u) PROVE GuardInv'
  BY <1>4, GuardSjoinNick, GuardSjoinAkick
<1>5. ASSUME NEW l \in Locals, CreateLocalUser(l) \/ QuitLocalUser(l)
      PROVE  GuardInv'
  BY <1>5, GuardQuiet, GuardLeaving
<1>6. ASSUME SetChanMlocker \/ UNCHANGED vars PROVE GuardInv'
  BY <1>6, GuardQuiet
<1>7. ASSUME NEW c \in Chans, \E nicks \in SUBSET Remotes : MSjoin(c, nicks)
      PROVE  GuardInv'
  BY <1>7, GuardQuiet
<1>8. ASSUME NEW c \in Chans, \E m \in Members : LeaveChan(m, c) PROVE GuardInv'
  BY <1>8, GuardLeaving
<1>9. ASSUME NEW c \in Chans, (\E l \in Locals : ChanJoin(l, c)) \/ TimerPart(c)
      PROVE  GuardInv'
  BY <1>9, GuardChanJoin, GuardTimerPart
<1>10. QED
  BY <1>1, <1>2, <1>3, <1>4, <1>5, <1>6, <1>7, <1>8, <1>9 DEF Next

LEMMA InitGuard == Init => GuardInv
<1>1. SUFFICES ASSUME Init PROVE GuardInv
  OBVIOUS
<1>2. \A c \in Chans : chan[c] = NewChan
  BY <1>1 DEF Init
<1>3. GuardHasTimer
  BY <1>2, NewChanType DEF GuardHasTimer
<1>4. QED
  BY <1>1, <1>2, <1>3, NewChanCount DEF GuardInv, Init, NoFault, SjoinFresh, NoSjoin

(* What the guard of a channel rests on, when nobody is stealthy and no     *)
(* join handler kills: exact counts, a timer for every guard, no fault.     *)
THEOREM GuardInvariant == Tame /\ Spec => []GuardInv
<1>1. Tame /\ MirrorInv /\ GuardInv /\ [Next]_vars => GuardInv'
  BY StepGuard
<1>2. ASSUME Tame PROVE Spec => []GuardInv
  <2>1. MirrorInv /\ GuardInv /\ [Next]_vars => GuardInv'
    BY <1>1, <1>2
  <2>2. QED
    BY <2>1, InitGuard, MirrorInvariant, PTL DEF Spec
<1>3. QED
  BY <1>2

(* Without stealth users and without kills on joins, bans and all, no      *)
(* assertion of del_user_from_chan fails and m_sjoin never goes on with a  *)
(* channel that a join handler freed.                                      *)
THEOREM NeverFaults == Tame /\ Spec => []NoFault
<1>1. GuardInv => NoFault
  BY DEF GuardInv
<1>2. QED
  BY <1>1, GuardInvariant, PTL

(* Under the same conditions the two counters of every channel are exact.  *)
THEOREM CountsAlwaysExact == Tame /\ Spec => []CountsExact
<1>1. GuardInv => CountsExact
  <2>1. stealth = {} => \A S : Counted(S) = S
    BY DEF Counted
  <2>2. QED
    BY <2>1 DEF GuardInv, CountOK, CountsExact
<1>2. QED
  BY <1>1, GuardInvariant, PTL

(* Under the same conditions ChanServ never guards a channel that no timer *)
(* will make it leave.                                                     *)
THEOREM GuardAlwaysTimed == Tame /\ Spec => []GuardHasTimer
<1>1. GuardInv => GuardHasTimer
  BY DEF GuardInv
<1>2. QED
  BY <1>1, GuardInvariant, PTL

=============================================================================
