------------------------------- MODULE Sessions -------------------------------
(***************************************************************************)
(* The session limits of OperServ (modules/sessionlimit.c): a record per   *)
(* host counts its connections, the exceptions of a DBMem (session_        *)
(* exceptions) change the limit of single hosts, and a user beyond the     *)
(* limit is killed, or glined once the host has been hit MaxHits times.    *)
(*                                                                         *)
(* The keys of the exceptions are the hosts, their value is the limit and  *)
(* their owner the nick the exception was granted to. A record is freed    *)
(* when its count gets back to 0, so a count of 0 stands for no record.    *)
(***************************************************************************)
EXTENDS DBMem

CONSTANTS
  Users,            \* connections of the network
  DefaultMaxUsers,  \* limit of a host without exception, 0 for none
  MaxHits,          \* hits before a gline, 0 for never
  Scenarios,        \* what else may happen in a behaviour, see below
  MaxGlines         \* bound: hits counted after the gline

(* "squit":  users vanish with their server;                               *)
(* "reload": the module is unloaded and loaded while users are connected;  *)
(* "expire": exceptions are given a duration;                              *)
(* "drop":   owners of exceptions drop their nick.                         *)
ASSUME SessionsAssumption ==
  /\ Values \subseteq Nat \ {0}
  /\ DefaultMaxUsers \in Nat /\ MaxHits \in Nat
  /\ Scenarios \subseteq SUBSET {"squit", "reload", "expire", "drop"}
  /\ MaxGlines \in Nat
  /\ IsFiniteSet(Users) /\ NONE \notin Keys

Hosts == Keys

VARIABLES
  host_of,  \* the realhost of every user of the global list, NONE if offline
  session,  \* sessionTable
  features  \* what happens in this behaviour, a member of Scenarios

svars == <<host_of, session, features>>

vars == <<dbvars, svars>>

NoRecord == [count |-> 0, limit |-> 0, limit_hits |-> 0]

SessionsInit ==
  /\ Init
  /\ host_of = [u \in Users |-> NONE]
  /\ session = [h \in Hosts |-> NoRecord]
  /\ features \in Scenarios

Online(h) == {u \in Users : host_of[u] = h}

-----------------------------------------------------------------------------
(* Sessions                                                                *)

(* The exception in memory, or the default *)
LimitFor(h) == IF Found(h) = 0 THEN DefaultMaxUsers ELSE data[Found(h)].value

(* add_to_session *)
AddToSession(h) ==
  IF session[h].count = 0
  THEN [count |-> 1, limit |-> LimitFor(h), limit_hits |-> 0]
  ELSE [session[h] EXCEPT !.count = @ + 1]

(* del_from_session; a host without record is left alone *)
DelFromSession(r) == IF r.count <= 1 THEN NoRecord ELSE [r EXCEPT !.count = @ - 1]

ExceededByTwo(r) == r.limit # 0 /\ r.count > r.limit + 1

Exceeded(r) == r.limit # 0 /\ r.count > r.limit

(* ev_sessionlimit_new_user. irc_Kill comes back through the ET_KILL       *)
(* handler ev_sessionlimit_kill; a glined user stays until the network     *)
(* reports that it is gone.                                                *)
HitAfter(r) == IF MaxHits = 0 THEN r ELSE [r EXCEPT !.limit_hits = @ + 1]

KillsAgain(r) == MaxHits = 0 \/ HitAfter(r).limit_hits < MaxHits

KilledLeavesCount(r) == r

KilledSession(r) == DelFromSession(r)

NewUser(u, h) ==
  /\ Ready
  /\ host_of[u] = NONE
  /\ LET r == AddToSession(h) IN
     \/ /\ ~Exceeded(r)
        /\ session' = [session EXCEPT ![h] = r]
        /\ host_of' = [host_of EXCEPT ![u] = h]
     \/ /\ Exceeded(r)
        /\ KillsAgain(r)
        /\ session' = [session EXCEPT ![h] = KilledSession(HitAfter(r))]
        /\ UNCHANGED host_of
     \/ /\ Exceeded(r)
        /\ ~KillsAgain(r)
        /\ r.limit_hits < MaxHits + MaxGlines
        /\ session' = [session EXCEPT ![h] = HitAfter(r)]
        /\ host_of' = [host_of EXCEPT ![u] = h]
  /\ UNCHANGED <<dbvars, features>>

(* QUIT, or KILL from the network or from a service: ET_QUIT, ET_KILL      *)
UserLeaves(u) ==
  /\ Ready
  /\ host_of[u] # NONE
  /\ session' = [session EXCEPT ![host_of[u]] = DelFromSession(@)]
  /\ host_of' = [host_of EXCEPT ![u] = NONE]
  /\ UNCHANGED <<dbvars, features>>

(* SQUIT: del_all_from_server removes the users and calls no user event.   *)
ServerLeaves(lost) ==
  /\ "squit" \in features
  /\ Ready
  /\ lost # {} /\ \A u \in lost : host_of[u] # NONE
  /\ host_of' = [u \in Users |-> IF u \in lost THEN NONE ELSE host_of[u]]
  /\ UNCHANGED <<dbvars, session, features>>

-----------------------------------------------------------------------------
(* Exceptions                                                              *)

(* find_session(h), then hr->limit = limit *)
LimitNotSet(table_, h, limit) == table_

SetLimit(table_, h, limit) ==
  IF table_[h].count = 0 THEN table_ ELSE [table_ EXCEPT ![h].limit = limit]

ExceptionAdd(r) ==
  /\ Insert(r)
  /\ session' = IF KeyTaken(r.key, table) THEN session
                ELSE SetLimit(session, r.key, r.value)
  /\ UNCHANGED <<host_of, features>>

ExceptionDel(h) ==
  /\ Delete(h)
  /\ session' = SetLimit(session, h, DefaultMaxUsers)
  /\ UNCHANGED <<host_of, features>>

ExceptionChange(old_host, new_host) ==
  /\ ReplaceKey(old_host, new_host)
  /\ session' = SetLimit(SetLimit(session, old_host, DefaultMaxUsers),
                         new_host, data[Found(old_host)].value)
  /\ UNCHANGED <<host_of, features>>

(* OS EXCEPTION LIST and the expire module start ev_exceptions_expire.     *)
ExceptionsExpire == (ExpireStart \/ ExpireStep) /\ UNCHANGED svars

(* mod_unload, mod_load: the table of sessions starts empty, the users of  *)
(* the network stay.                                                       *)
ModuleReload ==
  /\ "reload" \in features
  /\ Reload
  /\ session' = [h \in Hosts |-> NoRecord]
  /\ UNCHANGED <<host_of, features>>

SessionsNext ==
  \/ \E u \in Users :
       \/ \E h \in Hosts : NewUser(u, h)
       \/ UserLeaves(u)
  \/ \E lost \in SUBSET Users : ServerLeaves(lost)
  \/ \E r \in NewRows :
       /\ "expire" \notin features => r.expires = 0
       /\ ExceptionAdd(r)
  \/ \E h \in Hosts : ExceptionDel(h)
  \/ \E old_host, new_host \in Hosts : ExceptionChange(old_host, new_host)
  \/ ExceptionsExpire
  \/ ModuleReload
  \/ \E o \in Owners : "drop" \in features /\ OwnerDropped(o) /\ UNCHANGED svars
  \/ (Load \/ Tick) /\ UNCHANGED svars

SessionsSpec == SessionsInit /\ [][SessionsNext]_vars

-----------------------------------------------------------------------------
(* sessionlimit.l:29 "a session is defined as the set of client            *)
(* connections from the a same host": the count of the record is the       *)
(* number of users of the host, but for users that vanish with their       *)
(* server and users that were there before the module.                     *)
CountIsConnections ==
  features \intersect {"squit", "reload"} = {} =>
    \A h \in Hosts : session[h].count = Cardinality(Online(h))

(* The record of a host holds the limit that an exception in memory gives  *)
(* it, or the default, although the two are changed at different times;    *)
(* only expiry leaves the old limit behind.                                *)
LimitInForce ==
  Ready /\ "expire" \notin features =>
    \A h \in Hosts : session[h].count # 0 => session[h].limit = LimitFor(h)

(* A user is admitted beyond the limit of its host only when the host has  *)
(* used up its hits and the user has been glined, also after splits.       *)
AdmittedWithinLimit ==
  [][features \intersect {"reload", "expire"} = {} =>
       \A h \in Hosts :
         /\ Online(h)' \ Online(h) # {}
         /\ LimitFor(h) # 0
         /\ Cardinality(Online(h)') > LimitFor(h)
         => MaxHits # 0 /\ session'[h].limit_hits >= MaxHits]_vars

=============================================================================
