------------------------------ MODULE NickLists ------------------------------
(***************************************************************************)
(* Lists that nicks keep: the buddies of a nick (modules/ns_buddy.c) and   *)
(* the channels it joins when it identifies (modules/cs_ajoin.c). Both are *)
(* tables with nothing in memory.                                          *)
(*                                                                         *)
(* A buddy relation is a pair of rows, one for each side. MaxBuddiesPerUser*)
(* is an int read as a word of the configuration (DBCONF_WORD), so any     *)
(* value may stand there: it is a constant.                                *)
(***************************************************************************)
EXTENDS Nicks

CONSTANTS
  MaxBuddies,       \* MaxBuddiesPerUser
  InvitationTime,   \* ExpireTime of invitations, 0 for never
  Channels,
  MaxAjoins,        \* MaxAjoinsPerUser, 0 for no limit
  MaxOrder          \* bound: the highest order_id

ASSUME NickListsAssumption ==
  /\ MaxBuddies \in Int /\ InvitationTime \in Nat
  /\ MaxAjoins \in Nat /\ MaxOrder \in Nat

VARIABLES
  ns_buddy,   \* rows [source, target, status, t_when]
  cs_ajoin,   \* rows [nick, chan, order]
  chanserv    \* the registered channels

listvars == <<ns_buddy, cs_ajoin, chanserv>>

(* No command sets the fourth status, "blocked".                           *)
Status == {"inviting", "invited", "accepted"}

ListsTypeOK ==
  /\ ns_buddy \subseteq [source : Nicks, target : Nicks, status : Status, t_when : Nat]
  /\ \A r, q \in ns_buddy : r.source = q.source /\ r.target = q.target => r = q
  /\ \A r \in ns_buddy : {r.source, r.target} \subseteq registered
  /\ cs_ajoin \subseteq [nick : Nicks, chan : Channels, order : 0..MaxOrder]
  /\ \A r, q \in cs_ajoin : r.nick = q.nick /\ r.chan = q.chan => r = q
  /\ \A r \in cs_ajoin : r.nick \in registered /\ r.chan \in chanserv
  /\ chanserv \subseteq Channels

ListsInit == ns_buddy = {} /\ cs_ajoin = {} /\ chanserv = {}

-----------------------------------------------------------------------------
(* Buddies                                                                 *)

BuddyRows(a, b) == {r \in ns_buddy : r.source = a /\ r.target = b}

BuddiesCount(n) == Cardinality({r \in ns_buddy : r.source = n})

BuddyRow(a, b, status) ==
  [source |-> a, target |-> b, status |-> status, t_when |-> irc_CurrentTime]

(* A nick whose row the target still has is answered as if it were added.  *)
BuddyAdd(s, t) ==
  /\ Identified(s) /\ HasSnid(t) /\ s # t
  /\ BuddyRows(s, t) = {} /\ BuddyRows(t, s) = {}
  /\ BuddiesCount(s) < MaxBuddies /\ BuddiesCount(t) < MaxBuddies
  /\ ns_buddy' = ns_buddy \union {BuddyRow(s, t, "inviting"), BuddyRow(t, s, "invited")}
  /\ UNCHANGED <<cs_ajoin, chanserv>>

RemovedRow(s, t) == ns_buddy \ BuddyRows(s, t)

RemovedRows(s, t) == ns_buddy \ (BuddyRows(s, t) \union BuddyRows(t, s))

BuddyDel(s, t) ==
  /\ Identified(s) /\ HasSnid(t)
  /\ BuddyRows(s, t) # {}
  /\ ns_buddy' = RemovedRows(s, t)
  /\ UNCHANGED <<cs_ajoin, chanserv>>

(* Either side may accept: only the row of the other side is looked for.   *)
BuddyAccept(s, t) ==
  /\ Identified(s) /\ HasSnid(t)
  /\ BuddyRows(t, s) # {}
  /\ ns_buddy' = {IF {r.source, r.target} = {s, t}
                  THEN [r EXCEPT !.status = "accepted"] ELSE r : r \in ns_buddy}
  /\ UNCHANGED <<cs_ajoin, chanserv>>

(* ev_ns_buddy_expire                                                      *)
InvitationsExpire ==
  /\ InvitationTime # 0
  /\ ns_buddy' = {r \in ns_buddy : \/ r.status = "accepted"
                                   \/ r.t_when >= irc_CurrentTime - InvitationTime}
  /\ UNCHANGED <<cs_ajoin, chanserv>>

-----------------------------------------------------------------------------
(* Channels joined at identification                                       *)

AjoinsOf(n) == {r \in cs_ajoin : r.nick = n}

(* MAX(order_id) + 1                                                       *)
NextOrder(n) ==
  IF AjoinsOf(n) = {} THEN 0
  ELSE (CHOOSE r \in AjoinsOf(n) : \A q \in AjoinsOf(n) : q.order <= r.order).order + 1

AjoinAdd(s, c) ==
  /\ Identified(s) /\ c \in chanserv
  /\ MaxAjoins # 0 => Cardinality(AjoinsOf(s)) < MaxAjoins
  /\ \A r \in AjoinsOf(s) : r.chan # c
  /\ NextOrder(s) <= MaxOrder
  /\ cs_ajoin' = cs_ajoin \union {[nick |-> s, chan |-> c, order |-> NextOrder(s)]}
  /\ UNCHANGED <<ns_buddy, chanserv>>

(* AJOIN DEL of some channels of the list, one or ALL                      *)
AjoinDel(s, chans) ==
  /\ Identified(s)
  /\ cs_ajoin' = {r \in cs_ajoin : ~(r.nick = s /\ r.chan \in chans)}
  /\ UNCHANGED <<ns_buddy, chanserv>>

ChannelRegistered(c) ==
  /\ chanserv' = chanserv \union {c}
  /\ UNCHANGED <<ns_buddy, cs_ajoin>>

ChannelDropped(c) ==
  /\ chanserv' = chanserv \ {c}
  /\ cs_ajoin' = {r \in cs_ajoin : r.chan # c}
  /\ UNCHANGED ns_buddy

(* The foreign keys                                                        *)
ListsNickDropped(n) ==
  /\ ns_buddy' = {r \in ns_buddy : n \notin {r.source, r.target}}
  /\ cs_ajoin' = {r \in cs_ajoin : r.nick # n}
  /\ UNCHANGED chanserv

BuddiesNext ==
  \E s, t \in Nicks : BuddyAdd(s, t) \/ BuddyDel(s, t) \/ BuddyAccept(s, t)

AjoinsNext ==
  \/ \E s \in Nicks, c \in Channels : AjoinAdd(s, c)
  \/ \E s \in Nicks : \E chans \in {Channels} \union {{c} : c \in Channels} : AjoinDel(s, chans)
  \/ \E c \in Channels : ChannelRegistered(c) \/ ChannelDropped(c)

-----------------------------------------------------------------------------
(* The two rows of a relation come, change and go together, though ADD,    *)
(* DEL and ACCEPT each execute a statement per side and expiry and dropped *)
(* nicks take rows of their own: one side invites where the other is       *)
(* invited, or both have accepted.                                         *)
BuddiesMutual ==
  \A r \in ns_buddy : \E q \in BuddyRows(r.target, r.source) :
    /\ q.t_when = r.t_when
    /\ {r.status, q.status} \in {{"inviting", "invited"}, {"accepted"}}

=============================================================================
