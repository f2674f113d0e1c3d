------------------------------- MODULE NickServ -------------------------------
(***************************************************************************)
(* The identity of users (modules/nickserv.c, ns_identify.c, ns_login.c,   *)
(* ns_register.c, ns_auth.c, ns_drop.c, ns_suspend.c, ns_set.c): who is    *)
(* identified for which nick, in the structs of users and in the database, *)
(* while the network changes nicks on request or on its own.               *)
(*                                                                         *)
(* Services act on a nick through requests (SVSGUEST, SVSNICK, SVSMODE)    *)
(* that name the nick; the network carries them out in order and later,    *)
(* on whoever bears the nick by then. What the network reports is handled  *)
(* at once. A guest nick is unique to its user and stands for itself.      *)
(*                                                                         *)
(* Left out: t_expire (any nick that is not online may have expired),      *)
(* guest_count and fcount (any guest nick and any wrong password may be    *)
(* the one too many), which secret is_recover makes ns_login compare, and   *)
(* PassExpireTime (0 by default).                                          *)
(***************************************************************************)
EXTENDS Integers, Sequences

CONSTANTS
  Users,            \* connections
  Names,            \* nicks that can be registered
  NONE,
  NickSecurityCode, \* dbconf switch: is +r only given with an AUTH code
  MaxTimeForAuth,   \* is it set (dbconf: how long a nick waits for AUTH)
  Scenarios,        \* what else may happen in a behaviour, see below
  MaxSnid,          \* bound: nicks ever registered
  MaxSent           \* bound: requests under way

(* "split":   users vanish with their server and come back;                *)
(* "restart": services restart while users are connected;                  *)
(* "sset":    administrators set the options of other nicks.               *)
ASSUME NickServAssumption ==
  /\ Names \intersect Users = {} /\ NONE \notin Names \union Users
  /\ NickSecurityCode \in BOOLEAN /\ MaxTimeForAuth \in BOOLEAN
  /\ Scenarios \subseteq SUBSET {"split", "restart", "sset"}
  /\ MaxSnid \in Nat /\ MaxSent \in Nat

VARIABLES
  where,       \* "on": services have a struct; "split": only the network
               \* knows the user; "off"
  nick,        \* the nick of each user, NONE when it is off
  identified,  \* umode +r
  user,        \* the IRC_User structs
  nickserv,    \* the database: nickserv, _security and _suspensions
  next_snid,   \* auto_increment
  sent,        \* requests the network has not carried out
  vouched,     \* history: the snids each connection gave a password for,
               \* registered, or was introduced with +r for
  features     \* what happens in this behaviour, a member of Scenarios

vars == <<where, nick, identified, user, nickserv, next_snid, sent, vouched,
          features>>

Nicks == Names \union Users

Snid == 0..MaxSnid

(* auth is NFL_AUTHENTIC in u->flags.                                      *)
Struct == [snid : Snid, use_snid : Snid, req_snid : Snid, auth : BOOLEAN,
           timer : BOOLEAN]

Zeroed == [snid |-> 0, use_snid |-> 0, req_snid |-> 0, auth |-> FALSE,
           timer |-> FALSE]

(* online is NST_ONLINE in status, suspended is NFL_SUSPENDED and a row of *)
(* nickserv_suspensions, auth is NFL_AUTHENTIC, protected NFL_PROTECTED.   *)
(* snid 0: no such row.                                                    *)
Record == [snid : Snid, online : BOOLEAN, suspended : BOOLEAN, auth : BOOLEAN,
           protected : BOOLEAN]

NoRecord == [snid |-> 0, online |-> FALSE, suspended |-> FALSE, auth |-> FALSE,
             protected |-> FALSE]

Request == [do : {"guest", "+r", "-r"}, nick : Nicks, to : {NONE}]
             \union [do : {"nick"}, nick : Nicks, to : Names]

TypeOK ==
  /\ where \in [Users -> {"on", "split", "off"}]
  /\ nick \in [Users -> Nicks \union {NONE}]
  /\ identified \in [Users -> BOOLEAN]
  /\ user \in [Users -> Struct]
  /\ nickserv \in [Names -> Record]
  /\ next_snid \in 1..MaxSnid + 1
  /\ sent \in Seq(Request) /\ Len(sent) <= MaxSent
  /\ vouched \in [Users -> SUBSET (1..MaxSnid)]
  /\ features \in Scenarios
  /\ \A u \in Users :
       /\ nick[u] \in IF where[u] = "off" THEN {NONE} ELSE Names \union {u}
       /\ where[u] # "on" => user[u] = Zeroed

Init ==
  /\ where = [u \in Users |-> "off"]
  /\ nick = [u \in Users |-> NONE]
  /\ identified = [u \in Users |-> FALSE]
  /\ user = [u \in Users |-> Zeroed]
  /\ nickserv = [n \in Names |-> NoRecord]
  /\ next_snid = 1
  /\ sent = <<>>
  /\ vouched = [u \in Users |-> {}]
  /\ features \in Scenarios

Online == {u \in Users : where[u] = "on"}

Bearers(n) == {u \in Online : nick[u] = n}

(* SELECT ... FROM nickserv WHERE nick, for a nick that may be a guest     *)
RecordOf(db, n) == IF n \in Names THEN db[n] ELSE NoRecord

Guest(n) == [do |-> "guest", nick |-> n, to |-> NONE]

Mode(m, n) == [do |-> m, nick |-> n, to |-> NONE]

SvsNick(n, m) == [do |-> "nick", nick |-> n, to |-> m]

(* s is what is left of sent *)
SendAfter(s, requests) ==
  /\ Len(s \o requests) <= MaxSent
  /\ sent' = s \o requests

Send(requests) == SendAfter(sent, requests)

FullReg(auth) == NickSecurityCode => auth

PlusR(n, auth) == IF FullReg(auth) THEN <<Mode("+r", n)>> ELSE <<>>

SetOfflineOnly(db, s, b) ==
  [n \in Names |-> IF s # 0 /\ db[n].snid = s /\ ~b
                   THEN [db[n] EXCEPT !.online = b] ELSE db[n]]

SetOnline(db, s, b) ==
  [n \in Names |-> IF s # 0 /\ db[n].snid = s THEN [db[n] EXCEPT !.online = b]
                   ELSE db[n]]

(* update_nick_online_info, check_nick_security *)
RecognizeOnly(s, rec) == [s EXCEPT !.snid = rec.snid, !.use_snid = rec.snid]

Recognize(s, rec) ==
  [s EXCEPT !.snid = rec.snid, !.use_snid = rec.snid, !.auth = rec.auth]

(* set_offline_info: the record, and the struct. An unauthenticated nick   *)
(* keeps its status while there is a time limit for the authentication.    *)
OfflineRecord(db, s) ==
  IF ~MaxTimeForAuth \/ ~NickSecurityCode \/ s.auth
  THEN SetOnline(db, s.snid, FALSE) ELSE db

OfflineStruct(s) == [s EXCEPT !.snid = 0, !.auth = FALSE]

-----------------------------------------------------------------------------
(* ev_ns_new_user for user u with struct s, nick n and mode r, on the      *)
(* database db; left is what the network still has to carry out.           *)
NotRegistered(u, s, n, r, left) ==
  /\ user' = [user EXCEPT ![u] = [s EXCEPT !.auth = FALSE]]
  /\ SendAfter(left, IF r THEN <<Mode("-r", n)>> ELSE <<>>)

MadeGuest(u, s, n, left) ==
  /\ user' = [user EXCEPT ![u] = s]
  /\ SendAfter(left, <<Guest(n)>>)

AlreadyIdentified(u, s, n, rec, left) ==
  /\ user' = [user EXCEPT ![u] = [Recognize(s, rec) EXCEPT !.req_snid = 0]]
  /\ SendAfter(left, PlusR(n, rec.auth))

WasIdentified(u, s, rec, left) ==
  /\ user' = [user EXCEPT ![u] = Recognize(s, rec)]
  /\ sent' = left

(* NFL_PROTECTED, or a timer of one minute *)
Unidentified(u, s, n, rec, left) ==
  \/ rec.protected /\ MadeGuest(u, s, n, left)
  \/ /\ ~rec.protected
     /\ user' = [user EXCEPT ![u] = [s EXCEPT !.auth = FALSE, !.timer = TRUE]]
     /\ sent' = left

TrustsAnySnid(s, snid) == s.use_snid # 0 \/ snid = s.req_snid

KnowsSnid(s, snid) == snid \in {s.use_snid, s.req_snid}

NewUser(u, s, n, r, db, left) ==
  LET rec == RecordOf(db, n)
      known == rec.snid # 0 /\ ~rec.suspended
      mine == KnowsSnid(s, rec.snid)
  IN
  /\ \/ rec.snid = 0 /\ NotRegistered(u, s, n, r, left)
     \/ rec.suspended /\ MadeGuest(u, s, n, left)
     \/ known /\ mine /\ AlreadyIdentified(u, s, n, rec, left)
     \/ known /\ ~mine /\ r /\ WasIdentified(u, s, rec, left)
     \/ known /\ ~mine /\ ~r /\ Unidentified(u, s, n, rec, left)
  /\ nickserv' = IF known /\ (mine \/ r)
                 THEN SetOnline(db, rec.snid, TRUE) ELSE db
  /\ vouched' = IF known /\ ~mine /\ r
                THEN [vouched EXCEPT ![u] = @ \union {rec.snid}] ELSE vouched

(* m_nick: a new connection, or one that comes back from the other side of *)
(* a split or was there before services, with the nick and mode it has.    *)
Connect(u, n) ==
  /\ where[u] = "off"
  /\ Bearers(n) = {}
  /\ where' = [where EXCEPT ![u] = "on"]
  /\ nick' = [nick EXCEPT ![u] = n]
  /\ NewUser(u, Zeroed, n, FALSE, nickserv, sent)
  /\ UNCHANGED <<identified, next_snid, features>>

Rejoin(u) ==
  /\ where[u] = "split"
  /\ Bearers(nick[u]) = {}
  /\ where' = [where EXCEPT ![u] = "on"]
  /\ NewUser(u, Zeroed, nick[u], identified[u], nickserv, sent)
  /\ UNCHANGED <<nick, identified, next_snid, features>>

(* m_nick, ev_ns_nick_change: cancel the timers, go offline, new user.     *)
NickChange(u, n, left) ==
  /\ nick' = [nick EXCEPT ![u] = n]
  /\ identified' = [identified EXCEPT ![u] = FALSE]
  /\ NewUser(u, [OfflineStruct(user[u]) EXCEPT !.timer = FALSE], n, FALSE,
             OfflineRecord(nickserv, user[u]), left)
  /\ UNCHANGED <<where, next_snid, features>>

UserNick(u, n) ==
  /\ u \in Online
  /\ Bearers(n) = {}
  /\ NickChange(u, n, sent)

(* What becomes of the users in gone *)
GoneUnseen(gone) ==
  /\ where' = [u \in Users |-> IF u \in gone THEN "off" ELSE where[u]]
  /\ UNCHANGED <<nick, identified, vouched>>

Gone(gone) ==
  /\ where' = [u \in Users |-> IF u \in gone THEN "off" ELSE where[u]]
  /\ nick' = [u \in Users |-> IF u \in gone THEN NONE ELSE nick[u]]
  /\ identified' = [u \in Users |-> u \notin gone /\ identified[u]]
  /\ vouched' = [u \in Users |-> IF u \in gone THEN {} ELSE vouched[u]]

(* m_quit, m_kill, irc_Kill: ev_ns_quit, ev_ns_kill, the struct is freed.  *)
Leaves(u) ==
  /\ Gone({u})
  /\ user' = [user EXCEPT ![u] = Zeroed]
  /\ nickserv' = OfflineRecord(nickserv, user[u])

UserLeaves(u) ==
  /\ u \in Online
  /\ Leaves(u)
  /\ UNCHANGED <<next_snid, features, sent>>

(* A user of the other side leaves, or loses its nick to one of this side. *)
SplitUserLeaves(u) ==
  /\ where[u] = "split"
  /\ Gone({u})
  /\ UNCHANGED <<user, nickserv, next_snid, features, sent>>

(* SQUIT: the structs are freed, no handler of NickServ is called.         *)
ServerLeaves(u) ==
  /\ "split" \in features
  /\ u \in Online
  /\ where' = [where EXCEPT ![u] = "split"]
  /\ user' = [user EXCEPT ![u] = Zeroed]
  /\ vouched' = [vouched EXCEPT ![u] = {}]
  /\ UNCHANGED <<nick, identified, nickserv, next_snid, features, sent>>

(* The process starts again; mod_load resets the status of all nicks.      *)
Restart ==
  /\ "restart" \in features
  /\ where' = [u \in Users |-> IF where[u] = "on" THEN "split" ELSE where[u]]
  /\ user' = [u \in Users |-> Zeroed]
  /\ vouched' = [u \in Users |-> {}]
  /\ nickserv' = [n \in Names |-> [nickserv[n] EXCEPT !.online = FALSE]]
  /\ sent' = <<>>
  /\ UNCHANGED <<nick, identified, next_snid, features>>

(* The network carries out the oldest request, on whoever bears the nick;  *)
(* a nick in use cannot be given.                                          *)
Deliver ==
  /\ sent # <<>>
  /\ LET r == Head(sent) IN
     \/ \E u \in Bearers(r.nick) :
          \/ /\ r.do = "guest"
             /\ NickChange(u, u, Tail(sent))
          \/ /\ r.do = "nick"
             /\ Bearers(r.to) = {}
             /\ NickChange(u, r.to, Tail(sent))
          \/ /\ r.do \in {"+r", "-r"}
             /\ identified' = [identified EXCEPT ![u] = (r.do = "+r")]
             /\ sent' = Tail(sent)
             /\ UNCHANGED <<where, nick, user, nickserv, next_snid, features,
                            vouched>>
     \/ /\ \/ Bearers(r.nick) = {}
           \/ r.do = "nick" /\ Bearers(r.to) # {}
        /\ sent' = Tail(sent)
        /\ UNCHANGED <<where, nick, identified, user, nickserv, next_snid,
                       features, vouched>>

(* timer_ns_not_identifed: does not look at whether the user has           *)
(* identified since.                                                       *)
TimerNotIdentified(u) ==
  /\ user[u].timer
  /\ \/ /\ Leaves(u)
        /\ UNCHANGED <<next_snid, features, sent>>
     \/ /\ user' = [user EXCEPT ![u].timer = FALSE]
        /\ Send(<<Guest(nick[u])>>)
        /\ UNCHANGED <<where, nick, identified, nickserv, next_snid, features,
                       vouched>>

-----------------------------------------------------------------------------
(* Commands. Those that only administrators may give (Sdrop, Suspend,      *)
(* Unsuspend) have no giver: there may always be an administrator online   *)
(* besides Users. New nicks have no options (NickDefaultOptions).          *)

(* A wrong password is one too many, or changes nothing. *)
WrongPassword(u) == Leaves(u) /\ UNCHANGED sent

(* update_nick_online_info, irc_CancelUserTimerEvents *)
Identified(u, rec) ==
  /\ user' = [user EXCEPT ![u] = [Recognize(@, rec) EXCEPT !.timer = FALSE]]
  /\ nickserv' = SetOnline(nickserv, rec.snid, TRUE)
  /\ vouched' = [vouched EXCEPT ![u] = @ \union {rec.snid}]
  /\ Send(PlusR(nick[u], rec.auth))
  /\ UNCHANGED <<where, nick, identified>>

(* ns_identify with the password of the nick or another *)
Identify(u, right) ==
  LET rec == RecordOf(nickserv, nick[u]) IN
  /\ u \in Online
  /\ user[u].snid = 0
  /\ rec.snid # 0 /\ ~rec.suspended
  /\ \/ right /\ Identified(u, rec)
     \/ ~right /\ WrongPassword(u)
  /\ UNCHANGED <<next_snid, features>>

(* ns_login for another nick: its bearer is killed (irc_Kill with the      *)
(* handler ev_ns_kill) and the nick is asked for.                          *)
LoginElsewhere(u, n, rec) ==
  LET ku == Bearers(n) IN
  /\ user' = [v \in Users |-> IF v \in ku THEN Zeroed
                ELSE IF v = u THEN [user[u] EXCEPT !.req_snid = rec.snid]
                ELSE user[v]]
  /\ nickserv' = IF ku = {} THEN nickserv
                 ELSE OfflineRecord(nickserv, user[CHOOSE v \in ku : TRUE])
  /\ where' = [v \in Users |-> IF v \in ku THEN "off" ELSE where[v]]
  /\ nick' = [v \in Users |-> IF v \in ku THEN NONE ELSE nick[v]]
  /\ identified' = [v \in Users |-> v \notin ku /\ identified[v]]
  /\ vouched' = [v \in Users |-> IF v \in ku THEN {}
                   ELSE IF v = u THEN vouched[u] \union {rec.snid}
                   ELSE vouched[v]]
  /\ Send(<<SvsNick(nick[u], n)>>)

(* ns_login, ns_recover *)
Login(u, n, right) ==
  LET rec == nickserv[n] IN
  /\ u \in Online
  /\ rec.snid # 0 /\ ~rec.suspended
  /\ \/ right /\ nick[u] = n /\ Identified(u, rec)
     \/ right /\ nick[u] # n /\ LoginElsewhere(u, n, rec)
     \/ ~right /\ WrongPassword(u)
  /\ UNCHANGED <<next_snid, features>>

(* ns_register: neither use_snid is set nor the timers are cancelled.      *)
Register(u) ==
  /\ u \in Online
  /\ nick[u] \in Names
  /\ nickserv[nick[u]].snid = 0
  /\ next_snid <= MaxSnid
  /\ next_snid' = next_snid + 1
  /\ nickserv' = [nickserv EXCEPT ![nick[u]] =
       [NoRecord EXCEPT !.snid = next_snid, !.online = TRUE]]
  /\ user' = [user EXCEPT ![u].snid = next_snid, ![u].auth = FALSE]
  /\ vouched' = [vouched EXCEPT ![u] = @ \union {next_snid}]
  /\ Send(IF NickSecurityCode THEN <<>> ELSE <<Mode("+r", nick[u])>>)
  /\ UNCHANGED <<where, nick, identified, features>>

SetAuth(db, s, b) ==
  [n \in Names |-> IF db[n].snid = s THEN [db[n] EXCEPT !.auth = b] ELSE db[n]]

(* ns_auth with the right code *)
Auth(u) ==
  LET snid == user[u].snid IN
  /\ u \in Online
  /\ snid # 0 /\ ~user[u].auth
  /\ user' = [user EXCEPT ![u].auth = TRUE, ![u].use_snid = snid]
  /\ nickserv' = SetAuth(SetOnline(nickserv, snid, TRUE), snid, TRUE)
  /\ Send(<<Mode("+r", nick[u])>>)
  /\ UNCHANGED <<where, nick, identified, next_snid, features, vouched>>

(* ns_set, ns_sset: identified users set options of their own nick,        *)
(* administrators of any.                                                  *)
MaySet(u, n) ==
  /\ u \in Online
  /\ user[u].snid # 0
  /\ nickserv[n].snid # 0
  /\ nickserv[n].snid = user[u].snid \/ "sset" \in features

(* set_command EMAIL: the flag is taken from the record of the nick and    *)
(* from the struct of the user that gives the command.                     *)
SetEmail(u, n) ==
  /\ MaySet(u, n)
  /\ nickserv' = SetAuth(nickserv, nickserv[n].snid, FALSE)
  /\ user' = [user EXCEPT ![u].auth = FALSE]
  /\ Send(IF NickSecurityCode THEN <<Mode("-r", nick[u])>> ELSE <<>>)
  /\ UNCHANGED <<where, nick, identified, next_snid, features, vouched>>

(* set_command PROTECTED *)
SetProtected(u, n, b) ==
  /\ MaySet(u, n)
  /\ nickserv' = [nickserv EXCEPT ![n].protected = b]
  /\ UNCHANGED <<where, nick, identified, user, next_snid, features, sent,
                 vouched>>

(* set_command PASSWORD: check_nick_security of the user that gave the     *)
(* command, whoever's password it is.                                      *)
SetPassword(u) ==
  /\ u \in Online
  /\ user[u].snid # 0
  /\ Send(PlusR(nick[u], user[u].auth))
  /\ UNCHANGED <<where, nick, identified, user, nickserv, next_snid, features,
                 vouched>>

(* DELETE FROM nickserv; the rows that refer to it go with it. *)
Deleted(db, s) == [n \in Names |-> IF db[n].snid = s THEN NoRecord ELSE db[n]]

(* ns_drop, drop_nick *)
Drop(u) ==
  /\ u \in Online
  /\ user[u].snid # 0
  /\ nickserv' = Deleted(nickserv, user[u].snid)
  /\ user' = [user EXCEPT ![u] = OfflineStruct(@)]
  /\ Send(<<Mode("-r", nick[u])>>)
  /\ UNCHANGED <<where, nick, identified, next_snid, features, vouched>>

(* What ns_sdrop and ev_ns_expire do to the identified bearer of a nick.   *)
IdentifiedBearers(n) == {u \in Bearers(n) : user[u].snid # 0}

(* ns_sdrop, by an administrator *)
Sdrop(n) ==
  /\ nickserv[n].snid # 0
  /\ nickserv' = Deleted(nickserv, nickserv[n].snid)
  /\ user' = [u \in Users |-> IF u \in IdentifiedBearers(n)
                              THEN OfflineStruct(user[u]) ELSE user[u]]
  /\ Send(IF IdentifiedBearers(n) = {} THEN <<>> ELSE <<Mode("-r", n)>>)
  /\ UNCHANGED <<where, nick, identified, next_snid, features, vouched>>

(* ev_ns_expire, for each nick it finds and each suspension *)
MayExpire(rec) == rec.snid # 0 /\ ~rec.suspended /\ ~rec.online

Expire(n) ==
  /\ MayExpire(nickserv[n])
  /\ nickserv' = Deleted(nickserv, nickserv[n].snid)
  /\ user' = [u \in Users |-> IF u \in IdentifiedBearers(n)
                              THEN [user[u] EXCEPT !.snid = 0] ELSE user[u]]
  /\ Send(IF IdentifiedBearers(n) = {} THEN <<>> ELSE <<Mode("-r", n)>>)
  /\ UNCHANGED <<where, nick, identified, next_snid, features, vouched>>

SetSuspended(n, b) == nickserv' = [nickserv EXCEPT ![n].suspended = b]

(* ns_suspend: the bearer of the nick, if any, is made a guest. *)
OnlyStrangers(n) == Bearers(n) \ IdentifiedBearers(n)

Evicted(n) == Bearers(n)

Suspend(n) ==
  /\ nickserv[n].snid # 0 /\ ~nickserv[n].suspended
  /\ SetSuspended(n, TRUE)
  /\ Send(IF Evicted(n) = {} THEN <<>> ELSE <<Guest(n)>>)
  /\ UNCHANGED <<where, nick, identified, user, next_snid, features, vouched>>

(* ns_unsuspend, or the second half of ev_ns_expire *)
Unsuspend(n) ==
  /\ nickserv[n].suspended
  /\ SetSuspended(n, FALSE)
  /\ UNCHANGED <<where, nick, identified, user, next_snid, features, sent,
                 vouched>>

-----------------------------------------------------------------------------
Next ==
  \/ \E u \in Users :
       \/ \E n \in Names \union {u} : Connect(u, n) \/ UserNick(u, n)
       \/ Rejoin(u) \/ UserLeaves(u) \/ SplitUserLeaves(u) \/ ServerLeaves(u)
       \/ TimerNotIdentified(u)
       \/ \E right \in BOOLEAN :
            Identify(u, right) \/ \E n \in Names : Login(u, n, right)
       \/ Register(u) \/ Auth(u) \/ SetPassword(u) \/ Drop(u)
       \/ \E n \in Names : \/ SetEmail(u, n)
                            \/ \E b \in BOOLEAN : SetProtected(u, n, b)
  \/ \E n \in Names : Sdrop(n) \/ Expire(n) \/ Suspend(n) \/ Unsuspend(n)
  \/ Deliver
  \/ Restart

Spec == Init /\ [][Next]_vars

-----------------------------------------------------------------------------
(* A user that services take for identified bears the nick of that record, *)
(* and has given the password, or registered the nick, or was introduced   *)
(* by the network as identified: no forced or late nick change, drop or    *)
(* new registration carries the identity of one nick over to another.      *)
HolderOwnsNick ==
  \A u \in Online : user[u].snid # 0 =>
    /\ RecordOf(nickserv, nick[u]).snid = user[u].snid
    /\ user[u].snid \in vouched[u]

(* The record of an identified user is online in the database, so          *)
(* ev_ns_expire never takes the nick of somebody who is using it.          *)
HeldIsOnline ==
  \A u \in Online : user[u].snid # 0 => RecordOf(nickserv, nick[u]).online

IsUnderWay(request) == \E i \in DOMAIN sent : sent[i] = request

Claimed(u) == user[u].snid # 0 /\ ~RecordOf(nickserv, nick[u]).suspended

(* Nobody keeps a registered nick without identifying, nor a suspended one *)
(* at all (nickserv.c 358-361, 381-396): there is always a timer or a      *)
(* request under way that will take it away, whatever the network and the  *)
(* other commands do in between.                                           *)
StrangerIsTimed ==
  \A u \in Online : \A n \in Names :
    nick[u] = n /\ nickserv[n].snid # 0 /\ ~Claimed(u) =>
      user[u].timer \/ IsUnderWay(Guest(n))

(* The authentication that services remember of a user is that of its      *)
(* record, unless an administrator sets the options of others.             *)
AuthFollowsRecord ==
  "sset" \notin features =>
    \A u \in Online : user[u].snid # 0 =>
      user[u].auth = RecordOf(nickserv, nick[u]).auth

=============================================================================
