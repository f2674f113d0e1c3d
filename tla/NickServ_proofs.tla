---------------------------- MODULE NickServ_proofs ----------------------------
(***************************************************************************)
(* Proofs about NickServ: who is identified, who keeps a nick and what the *)
(* database says of it, for any number of users, nicks and requests.       *)
(***************************************************************************)
EXTENDS NickServ, TLAPS

(* At most one user that services know bears a nick.                       *)
Alone == \A u, v \in Online : nick[u] = nick[v] => u = v

(* Ids of records are in use once, and have been handed out.               *)
IdsUnique ==
  /\ \A n \in Names : nickserv[n].snid < next_snid
  /\ \A m, n \in Names :
       nickserv[m].snid = nickserv[n].snid /\ nickserv[m].snid # 0 => m = n

(* Whatever id the struct of a user remembers, the user has shown a right  *)
(* to it.                                                                  *)
IdsVouched(u) ==
  {user[u].snid, user[u].use_snid, user[u].req_snid} \subseteq vouched[u] \union {0}

Holds(u) ==
  user[u].snid # 0 =>
    LET rec == RecordOf(nickserv, nick[u]) IN
    /\ rec.snid = user[u].snid
    /\ rec.online
    /\ "sset" \notin features => user[u].auth = rec.auth

Timed(u) ==
  nick[u] \in Names /\ RecordOf(nickserv, nick[u]).snid # 0 /\ ~Claimed(u) =>
    user[u].timer \/ IsUnderWay(Guest(nick[u]))

UserOK(u) == IdsVouched(u) /\ Holds(u) /\ Timed(u)

NickInv == TypeOK /\ Alone /\ IdsUnique /\ \A u \in Online : UserOK(u)

-----------------------------------------------------------------------------
(* Records                                                                 *)

(* The two databases differ in the online status alone.                    *)
Alike(db1, db2) ==
  \A n \in Names : /\ db2[n].snid = db1[n].snid
                   /\ db2[n].suspended = db1[n].suspended
                   /\ db2[n].auth = db1[n].auth

LEMMA SetOnlineFacts ==
  ASSUME NEW db \in [Names -> Record], NEW s, NEW b \in BOOLEAN
  PROVE  /\ SetOnline(db, s, b) \in [Names -> Record]
         /\ Alike(db, SetOnline(db, s, b))
         /\ \A n \in Names :
              s # 0 /\ db[n].snid = s => SetOnline(db, s, b)[n].online = b
         /\ \A n \in Names :
              s = 0 \/ db[n].snid # s =>
                SetOnline(db, s, b)[n].online = db[n].online
BY DEF SetOnline, Record, Alike

LEMMA SetAuthFacts ==
  ASSUME NEW db \in [Names -> Record], NEW s, NEW b \in BOOLEAN
  PROVE  /\ SetAuth(db, s, b) \in [Names -> Record]
         /\ \A n \in Names :
              /\ SetAuth(db, s, b)[n].snid = db[n].snid
              /\ SetAuth(db, s, b)[n].suspended = db[n].suspended
              /\ SetAuth(db, s, b)[n].online = db[n].online
              /\ SetAuth(db, s, b)[n].auth =
                   IF db[n].snid = s THEN b ELSE db[n].auth
BY DEF SetAuth, Record

LEMMA DeletedFacts ==
  ASSUME NEW db \in [Names -> Record], NEW s
  PROVE  /\ Deleted(db, s) \in [Names -> Record]
         /\ \A n \in Names :
              Deleted(db, s)[n] = IF db[n].snid = s THEN NoRecord ELSE db[n]
<1>1. NoRecord \in Record
  BY NickServAssumption DEF NoRecord, Record, Snid
<1>2. QED
  BY <1>1 DEF Deleted

LEMMA OfflineFacts ==
  ASSUME NEW db \in [Names -> Record], NEW s \in Struct
  PROVE  /\ OfflineRecord(db, s) \in [Names -> Record]
         /\ Alike(db, OfflineRecord(db, s))
         /\ \A n \in Names : db[n].snid # s.snid =>
              OfflineRecord(db, s)[n].online = db[n].online
<1>1. CASE ~MaxTimeForAuth \/ ~NickSecurityCode \/ s.auth
  <2>1. OfflineRecord(db, s) = SetOnline(db, s.snid, FALSE)
    BY <1>1 DEF OfflineRecord
  <2>2. SetOnline(db, s.snid, FALSE) \in [Names -> Record]
    BY SetOnlineFacts
  <2>3. Alike(db, SetOnline(db, s.snid, FALSE))
    BY SetOnlineFacts
  <2>4. \A n \in Names : db[n].snid # s.snid =>
          SetOnline(db, s.snid, FALSE)[n].online = db[n].online
    BY DEF SetOnline
  <2>5. QED
    BY <2>1, <2>2, <2>3, <2>4
<1>2. CASE ~(~MaxTimeForAuth \/ ~NickSecurityCode \/ s.auth)
  <2>1. OfflineRecord(db, s) = db
    BY <1>2 DEF OfflineRecord
  <2>2. QED
    BY <2>1 DEF Alike
<1>3. QED
  BY <1>1, <1>2

LEMMA RecordOfFacts ==
  ASSUME NEW db \in [Names -> Record], NEW n
  PROVE  /\ RecordOf(db, n) \in Record
         /\ RecordOf(db, n).snid # 0 => n \in Names
         /\ n \in Names => RecordOf(db, n) = db[n]
BY NickServAssumption DEF RecordOf, NoRecord, Record, Snid

LEMMA StructFacts ==
  /\ Zeroed \in Struct
  /\ \A s \in Struct : OfflineStruct(s) \in Struct
<1>1. 0 \in Snid
  BY NickServAssumption DEF Snid
<1>2. Zeroed \in Struct
  BY <1>1 DEF Zeroed, Struct
<1>3. ASSUME NEW s \in Struct PROVE OfflineStruct(s) \in Struct
  BY <1>1 DEF Struct, OfflineStruct
<1>4. QED
  BY <1>2, <1>3

-----------------------------------------------------------------------------
(* Requests                                                                *)

LEMMA RequestFacts ==
  ASSUME NEW n \in Nicks
  PROVE  /\ Guest(n) \in Request
         /\ \A m \in {"+r", "-r"} : Mode(m, n) \in Request
         /\ \A m \in Names : SvsNick(n, m) \in Request
BY DEF Guest, Mode, SvsNick, Request

LEMMA PlusRFacts ==
  ASSUME NEW n \in Nicks, NEW auth
  PROVE  PlusR(n, auth) \in Seq(Request)
BY RequestFacts DEF PlusR

(* What is under way stays so when requests are added at the end.          *)
LEMMA AppendKeeps ==
  ASSUME NEW s \in Seq(Request), NEW p \in Seq(Request), NEW r,
         \E i \in DOMAIN s : s[i] = r
  PROVE  \E i \in DOMAIN (s \o p) : (s \o p)[i] = r
<1>1. PICK i \in DOMAIN s : s[i] = r
  OBVIOUS
<1>2. i \in DOMAIN (s \o p) /\ (s \o p)[i] = s[i]
  OBVIOUS
<1>3. QED
  BY <1>1, <1>2

LEMMA AppendAdds ==
  ASSUME NEW s \in Seq(Request), NEW r \in Request
  PROVE  \E i \in DOMAIN (s \o <<r>>) : (s \o <<r>>)[i] = r
<1>1. Len(s) + 1 \in DOMAIN (s \o <<r>>) /\ (s \o <<r>>)[Len(s) + 1] = r
  OBVIOUS
<1>2. QED
  BY <1>1

(* The network takes the oldest request only.                              *)
LEMMA TailKeeps ==
  ASSUME NEW s \in Seq(Request), s # <<>>, NEW r, r # Head(s),
         \E i \in DOMAIN s : s[i] = r
  PROVE  \E i \in DOMAIN Tail(s) : Tail(s)[i] = r
<1>1. PICK i \in DOMAIN s : s[i] = r
  OBVIOUS
<1>2. i # 1
  BY <1>1
<1>3. i - 1 \in DOMAIN Tail(s) /\ Tail(s)[i - 1] = s[i]
  BY <1>2
<1>4. QED
  BY <1>1, <1>3

(* Requests that start with left are as good as left and what was added.   *)
LEMMA SendFacts ==
  ASSUME NEW left \in Seq(Request), NEW reqs \in Seq(Request),
         SendAfter(left, reqs)
  PROVE  /\ sent' = left \o reqs
         /\ sent' \in Seq(Request)
         /\ Len(sent') <= MaxSent
BY DEF SendAfter

-----------------------------------------------------------------------------
(* ev_ns_new_user                                                          *)

(* What holds once ev_ns_new_user is done with u.                          *)
Known(u, db, left) ==
  /\ user' \in [Users -> Struct]
  /\ \A v \in Users \ {u} : user'[v] = user[v] /\ vouched'[v] = vouched[v]
  /\ nickserv' \in [Names -> Record] /\ Alike(db, nickserv')
  /\ \A m \in Names : db[m].online => nickserv'[m].online
  /\ vouched' \in [Users -> SUBSET (1..MaxSnid)]
  /\ sent' \in Seq(Request) /\ Len(sent') <= MaxSent
  /\ \E reqs \in Seq(Request) : sent' = left \o reqs
  /\ UserOK(u)'

(* What it is called with: the user, what its structure then says, its     *)
(* name, the records and what is under way.                                *)
Arrives(u, s, n, r, db, left) ==
  /\ u \in Users /\ s \in Struct /\ n \in Names \union {u} /\ r \in BOOLEAN
  /\ db \in [Names -> Record] /\ left \in Seq(Request) /\ Len(left) <= MaxSent
  /\ s.snid = 0 /\ {s.use_snid, s.req_snid} \subseteq vouched[u] \union {0}
  /\ NewUser(u, s, n, r, db, left) /\ nick'[u] = n /\ features' = features

(* The user it is called for leaves it in order, with a record that is     *)
(* online when the user is taken for identified; the other users, and what *)
(* else the records say, stay as they are.                                 *)
LEMMA NewUserOK ==
  ASSUME TypeOK, NEW u, NEW s, NEW n, NEW r, NEW db, NEW left,
         Arrives(u, s, n, r, db, left)
  PROVE  Known(u, db, left)
<1> USE DEF Arrives
<1> DEFINE rec == RecordOf(db, n)
           known == rec.snid # 0 /\ ~rec.suspended
           mine == KnowsSnid(s, rec.snid)
           new == RecordOf(nickserv', n)
<1>1. rec \in Record /\ (rec.snid # 0 => n \in Names)
  BY RecordOfFacts
<1>2. /\ \/ rec.snid = 0 /\ NotRegistered(u, s, n, r, left)
         \/ rec.suspended /\ MadeGuest(u, s, n, left)
         \/ known /\ mine /\ AlreadyIdentified(u, s, n, rec, left)
         \/ known /\ ~mine /\ r /\ WasIdentified(u, s, rec, left)
         \/ known /\ ~mine /\ ~r /\ Unidentified(u, s, n, rec, left)
      /\ nickserv' = IF known /\ (mine \/ r)
                     THEN SetOnline(db, rec.snid, TRUE) ELSE db
      /\ vouched' = IF known /\ ~mine /\ r
                    THEN [vouched EXCEPT ![u] = @ \union {rec.snid}] ELSE vouched
  BY DEF NewUser
<1>3. /\ nickserv' \in [Names -> Record]
      /\ Alike(db, nickserv')
      /\ \A m \in Names : db[m].online => nickserv'[m].online
      /\ known /\ (mine \/ r) => new.online
  <2>1. CASE known /\ (mine \/ r)
    <3>1. nickserv' = SetOnline(db, rec.snid, TRUE)
      BY <2>1, <1>2
    <3>2. nickserv' \in [Names -> Record] /\ Alike(db, nickserv')
      BY <3>1, SetOnlineFacts
    <3>3. /\ \A m \in Names : db[m].online => nickserv'[m].online
          /\ \A m \in Names : db[m].snid = rec.snid => nickserv'[m].online
      BY <3>1, <2>1 DEF SetOnline, Record
    <3>4. n \in Names /\ rec = db[n] /\ new = nickserv'[n]
      BY <1>1, <2>1, <3>2, RecordOfFacts
    <3>5. QED
      BY <3>2, <3>3, <3>4
  <2>2. CASE ~(known /\ (mine \/ r))
    BY <2>2, <1>2 DEF Alike
  <2>3. QED
    BY <2>1, <2>2
<1>4. /\ new.snid = rec.snid /\ new.suspended = rec.suspended
      /\ new.auth = rec.auth
  BY <1>3 DEF Alike, RecordOf
<1>5. /\ vouched' \in [Users -> SUBSET (1..MaxSnid)]
      /\ \A v \in Users \ {u} : vouched'[v] = vouched[v]
      /\ vouched[u] \subseteq vouched'[u]
      /\ known /\ (mine \/ r) => rec.snid \in vouched'[u]
  <2>1. rec.snid # 0 => rec.snid \in 1..MaxSnid
    BY <1>1, NickServAssumption DEF Record, Snid
  <2>2. known /\ mine => rec.snid \in vouched[u]
    BY DEF KnowsSnid
  <2>3. vouched \in [Users -> SUBSET (1..MaxSnid)]
    BY DEF TypeOK
  <2> HIDE DEF rec, mine
  <2>4. CASE known /\ ~mine /\ r
    BY <2>1, <2>3, <2>4, <1>2
  <2>5. CASE ~(known /\ ~mine /\ r)
    BY <2>2, <2>3, <2>5, <1>2
  <2>6. QED
    BY <2>4, <2>5
<1>6. n \in Nicks
  BY DEF Nicks
<1>7. /\ Seq(Request) # {} /\ <<>> \in Seq(Request) /\ left \o <<>> = left
      /\ \A q \in Request : <<q>> \in Seq(Request)
  OBVIOUS
<1>8. user \in [Users -> Struct] /\ FALSE \in BOOLEAN /\ 0 \in Snid
  BY NickServAssumption DEF TypeOK, Snid
<1> DEFINE Good(s1, reqs) ==
      /\ user' = [user EXCEPT ![u] = s1]
      /\ SendAfter(left, reqs)
      /\ {s1.snid, s1.use_snid, s1.req_snid} \subseteq vouched'[u] \union {0}
      /\ s1.snid # 0 =>
           new.snid = s1.snid /\ new.online /\ s1.auth = new.auth
      /\ new.snid # 0 /\ ~(s1.snid # 0 /\ ~new.suspended) =>
           s1.timer \/ reqs = <<Guest(n)>>
<1> HIDE DEF rec, mine, new
<1>9. \E s1 \in Struct, reqs \in Seq(Request) : Good(s1, reqs)
  <2>1. CASE rec.snid = 0 /\ NotRegistered(u, s, n, r, left)
    <3> DEFINE s1 == [s EXCEPT !.auth = FALSE]
               reqs == IF r THEN <<Mode("-r", n)>> ELSE <<>>
    <3>1. s1 \in Struct /\ s1.snid = 0 /\ s1.use_snid = s.use_snid
          /\ s1.req_snid = s.req_snid
      BY <1>8 DEF Struct
    <3>2. reqs \in Seq(Request)
      BY <1>6, <1>7, RequestFacts
    <3>3. user' = [user EXCEPT ![u] = s1] /\ SendAfter(left, reqs)
      BY <2>1 DEF NotRegistered
    <3>4. Good(s1, reqs)
      BY <2>1, <3>1, <3>3, <1>4, <1>5
    <3>5. QED
      BY <3>1, <3>2, <3>4
  <2>2. CASE MadeGuest(u, s, n, left) /\ ~(known /\ (mine \/ r))
    <3>1. <<Guest(n)>> \in Seq(Request)
      BY <1>6, <1>7, RequestFacts
    <3>2. Good(s, <<Guest(n)>>)
      BY <2>2, <1>5 DEF MadeGuest
    <3>3. QED
      BY <3>1, <3>2
  <2>3. CASE known /\ mine /\ AlreadyIdentified(u, s, n, rec, left)
    <3> DEFINE s1 == [Recognize(s, rec) EXCEPT !.req_snid = 0]
    <3>1. s1 \in Struct /\ s1.snid = rec.snid /\ s1.use_snid = rec.snid
          /\ s1.req_snid = 0 /\ s1.auth = rec.auth
      BY <1>1, <1>8 DEF Recognize, Struct, Record
    <3>2. PlusR(n, rec.auth) \in Seq(Request)
      BY <1>6, PlusRFacts
    <3>3. user' = [user EXCEPT ![u] = s1] /\ SendAfter(left, PlusR(n, rec.auth))
      BY <2>3 DEF AlreadyIdentified
    <3>4. Good(s1, PlusR(n, rec.auth))
      BY <2>3, <3>1, <3>3, <1>3, <1>4, <1>5
    <3>5. QED
      BY <3>1, <3>2, <3>4
  <2>4. CASE known /\ ~mine /\ r /\ WasIdentified(u, s, rec, left)
    <3> DEFINE s1 == Recognize(s, rec)
    <3>1. s1 \in Struct /\ s1.snid = rec.snid /\ s1.use_snid = rec.snid
          /\ s1.req_snid = s.req_snid /\ s1.auth = rec.auth
      BY <1>1, <1>8 DEF Recognize, Struct, Record
    <3>2. user' = [user EXCEPT ![u] = s1] /\ SendAfter(left, <<>>)
      BY <2>4, <1>7 DEF WasIdentified, SendAfter
    <3>3. Good(s1, <<>>)
      BY <2>4, <3>1, <3>2, <1>3, <1>4, <1>5
    <3>4. QED
      BY <3>1, <3>3, <1>7
  <2>5. CASE ~rec.protected /\ Unidentified(u, s, n, rec, left)
             /\ ~(known /\ (mine \/ r))
    <3> DEFINE s1 == [s EXCEPT !.auth = FALSE, !.timer = TRUE]
    <3>1. s1 \in Struct /\ s1.snid = 0 /\ s1.use_snid = s.use_snid
          /\ s1.req_snid = s.req_snid /\ s1.timer
      BY <1>8 DEF Struct
    <3>2. user' = [user EXCEPT ![u] = s1] /\ SendAfter(left, <<>>)
      BY <2>5, <1>7 DEF Unidentified, SendAfter
    <3>3. Good(s1, <<>>)
      BY <3>1, <3>2, <1>5
    <3>4. QED
      BY <3>1, <3>3, <1>7
  <2>6. QED
    BY <1>2, <2>1, <2>2, <2>3, <2>4, <2>5 DEF Unidentified
<1>10. PICK s1 \in Struct, reqs \in Seq(Request) : Good(s1, reqs)
  BY <1>9
<1>11. /\ sent' = left \o reqs
       /\ sent' \in Seq(Request) /\ Len(sent') <= MaxSent
  BY <1>10, SendFacts
<1>12. /\ user' \in [Users -> Struct]
       /\ \A v \in Users \ {u} : user'[v] = user[v]
       /\ user'[u] = s1
  BY <1>8, <1>10
<1>13. UserOK(u)'
  <2>1. IdsVouched(u)'
    BY <1>10, <1>12 DEF IdsVouched
  <2>2. Holds(u)'
    BY <1>10, <1>12 DEF Holds, new
  <2>3. new.snid # 0 /\ ~(s1.snid # 0 /\ ~new.suspended) =>
          s1.timer \/ IsUnderWay(Guest(n))'
    <3>1. ASSUME reqs = <<Guest(n)>> PROVE IsUnderWay(Guest(n))'
      BY <3>1, <1>6, <1>11, AppendAdds, RequestFacts DEF IsUnderWay
    <3>2. QED
      BY <3>1, <1>10
  <2>4. Timed(u)'
    BY <2>3, <1>12 DEF Timed, Claimed, new
  <2>5. QED
    BY <2>1, <2>2, <2>4 DEF UserOK
<1>14. QED
  BY <1>3, <1>5, <1>11, <1>12, <1>13 DEF Known

-----------------------------------------------------------------------------
(* What a step must keep for the users it is not about                     *)

(* Two users are never taken for identified with one id.                   *)
LEMMA HoldersDiffer ==
  ASSUME NickInv, NEW u \in Online, NEW v \in Online, u # v, user[v].snid # 0
  PROVE  /\ user[v].snid # user[u].snid
         /\ nick[v] \in Names
         /\ nickserv[nick[v]].snid = user[v].snid
<1>1. \A w \in Online : user[w].snid # 0 =>
        nick[w] \in Names /\ nickserv[nick[w]].snid = user[w].snid
  BY DEF NickInv, UserOK, Holds, RecordOf, NoRecord
<1>2. QED
  BY <1>1 DEF NickInv, Alone, IdsUnique

LEMMA OthersOK ==
  ASSUME NickInv, NEW v \in Online,
         nick'[v] = nick[v], user'[v] = user[v], features' = features,
         vouched[v] \subseteq vouched'[v],
         nick[v] \in Names =>
           /\ nickserv'[nick[v]].snid = nickserv[nick[v]].snid
           /\ nickserv'[nick[v]].suspended = nickserv[nick[v]].suspended
           /\ user[v].snid # 0 =>
                /\ nickserv'[nick[v]].auth = nickserv[nick[v]].auth
                /\ nickserv[nick[v]].online => nickserv'[nick[v]].online,
         IsUnderWay(Guest(nick[v])) => IsUnderWay(Guest(nick[v]))'
  PROVE  UserOK(v)'
<1>1. UserOK(v)
  BY DEF NickInv
<1>2. IdsVouched(v)'
  BY <1>1 DEF UserOK, IdsVouched
<1>3. Holds(v)'
  BY <1>1 DEF UserOK, Holds, RecordOf, NoRecord
<1>4. Timed(v)'
  <2>1. SUFFICES ASSUME nick[v] \in Names, nickserv[nick[v]].snid # 0,
                        ~(user[v].snid # 0 /\ ~nickserv[nick[v]].suspended)
                 PROVE  user[v].timer \/ IsUnderWay(Guest(nick[v]))'
    BY DEF Timed, Claimed, RecordOf
  <2>2. user[v].timer \/ IsUnderWay(Guest(nick[v]))
    BY <1>1, <2>1 DEF UserOK, Timed, Claimed, RecordOf
  <2>3. QED
    BY <2>2
<1>5. QED
  BY <1>2, <1>3, <1>4 DEF UserOK

LEMMA SentKeeps ==
  ASSUME TypeOK, NEW reqs \in Seq(Request), sent' = sent \o reqs,
         NEW r, \E i \in DOMAIN sent : sent[i] = r
  PROVE  \E i \in DOMAIN sent' : sent'[i] = r
<1>1. sent \in Seq(Request)
  BY DEF TypeOK
<1>2. \E i \in DOMAIN (sent \o reqs) : (sent \o reqs)[i] = r
  BY <1>1, AppendKeeps
<1>3. QED
  BY <1>2

LEMMA TailThenKeeps ==
  ASSUME TypeOK, sent # <<>>, NEW reqs \in Seq(Request),
         sent' = Tail(sent) \o reqs, NEW r, r # Head(sent),
         \E i \in DOMAIN sent : sent[i] = r
  PROVE  \E i \in DOMAIN sent' : sent'[i] = r
<1>1. sent \in Seq(Request) /\ Tail(sent) \in Seq(Request)
  BY DEF TypeOK
<1>2. \E i \in DOMAIN Tail(sent) : Tail(sent)[i] = r
  BY <1>1, TailKeeps
<1>3. \E i \in DOMAIN (Tail(sent) \o reqs) : (Tail(sent) \o reqs)[i] = r
  BY <1>1, <1>2, AppendKeeps
<1>4. QED
  BY <1>3

(* A message that ends in ev_ns_new_user for u, with its nick n.           *)
Enters(u, s, n, r, db, left) ==
  /\ s \in Struct /\ n \in Names \union {u} /\ r \in BOOLEAN
  /\ db \in [Names -> Record]
  /\ left \in Seq(Request) /\ Len(left) <= MaxSent
  /\ s.snid = 0
  /\ {s.use_snid, s.req_snid} \subseteq vouched[u] \union {0}
  /\ NewUser(u, s, n, r, db, left)
  /\ where' = [where EXCEPT ![u] = "on"]
  /\ nick' = [nick EXCEPT ![u] = n]
  /\ identified' \in [Users -> BOOLEAN]
  /\ UNCHANGED <<next_snid, features>>
  /\ \A v \in Online \ {u} : nick[v] # n
  /\ Alike(nickserv, db)
  /\ \A v \in Online \ {u} :
       user[v].snid # 0 /\ nick[v] \in Names /\ nickserv[nick[v]].online =>
         db[nick[v]].online
  /\ \/ left = sent
     \/ /\ sent # <<>> /\ left = Tail(sent)
        /\ \A v \in Online \ {u} : Head(sent) # Guest(nick[v])

LEMMA EntersOK ==
  ASSUME NickInv, NEW u \in Users, NEW s, NEW n, NEW r, NEW db, NEW left,
         Enters(u, s, n, r, db, left)
  PROVE  NickInv'
<1> USE DEF Enters
<1>1. TypeOK
  BY DEF NickInv
<1>2. nick'[u] = n /\ where'[u] = "on"
      /\ \A v \in Users \ {u} : nick'[v] = nick[v] /\ where'[v] = where[v]
  BY <1>1 DEF TypeOK
<1>3. /\ user' \in [Users -> Struct]
      /\ \A v \in Users \ {u} : user'[v] = user[v] /\ vouched'[v] = vouched[v]
      /\ nickserv' \in [Names -> Record] /\ Alike(db, nickserv')
      /\ \A m \in Names : db[m].online => nickserv'[m].online
      /\ vouched' \in [Users -> SUBSET (1..MaxSnid)]
      /\ sent' \in Seq(Request) /\ Len(sent') <= MaxSent
      /\ \E reqs \in Seq(Request) : sent' = left \o reqs
      /\ UserOK(u)'
  <2>1. Arrives(u, s, n, r, db, left)
    BY <1>2 DEF Arrives
  <2>2. Known(u, db, left)
    <3> HIDE DEF Enters
    <3> QED
      BY <1>1, <2>1, NewUserOK
  <2>3. QED
    BY <2>2 DEF Known
<1>4. TypeOK'
  <2>1. where' \in [Users -> {"on", "split", "off"}]
        /\ nick' \in [Users -> Nicks \union {NONE}]
    BY <1>1 DEF TypeOK, Nicks
  <2>2. \A v \in Users :
          /\ nick'[v] \in IF where'[v] = "off" THEN {NONE} ELSE Names \union {v}
          /\ where'[v] # "on" => user'[v] = Zeroed
    BY <1>1, <1>2, <1>3 DEF TypeOK
  <2>3. QED
    BY <1>1, <1>3, <2>1, <2>2 DEF TypeOK
<1>5. Online' = Online \union {u}
  BY <1>2 DEF Online
<1>6. Alone'
  BY <1>2, <1>5 DEF NickInv, Alone, Online
<1>7. IdsUnique'
  <2>1. \A m \in Names : nickserv'[m].snid = nickserv[m].snid
    BY <1>3 DEF Alike
  <2>2. QED
    BY <2>1 DEF NickInv, IdsUnique
<1>8. ASSUME NEW v \in Online \ {u} PROVE UserOK(v)'
  <2>1. v \in Users \ {u} /\ v \in Online
    BY DEF Online
  <2>2. nick'[v] = nick[v] /\ user'[v] = user[v] /\ vouched'[v] = vouched[v]
    BY <1>2, <1>3, <2>1
  <2> DEFINE g == Guest(nick[v])
  <2>3. PICK reqs \in Seq(Request) : sent' = left \o reqs
    BY <1>3
  <2>4. (\E i \in DOMAIN sent : sent[i] = g) => \E i \in DOMAIN sent' : sent'[i] = g
    <3>1. CASE left = sent
      <4> HIDE DEF g
      <4> QED
        BY <1>1, <2>3, <3>1, SentKeeps
    <3>2. CASE sent # <<>> /\ left = Tail(sent) /\ g # Head(sent)
      <4> HIDE DEF g
      <4> QED
        BY <1>1, <2>3, <3>2, TailThenKeeps
    <3>3. QED
      BY <2>1, <3>1, <3>2
  <2>5. IsUnderWay(Guest(nick[v])) => IsUnderWay(Guest(nick[v]))'
    BY <2>2, <2>4 DEF IsUnderWay
  <2>6. nick[v] \in Names =>
          /\ nickserv'[nick[v]].snid = nickserv[nick[v]].snid
          /\ nickserv'[nick[v]].suspended = nickserv[nick[v]].suspended
          /\ nickserv'[nick[v]].auth = nickserv[nick[v]].auth
    BY <1>3 DEF Alike
  <2>7. nick[v] \in Names /\ user[v].snid # 0 /\ nickserv[nick[v]].online =>
          nickserv'[nick[v]].online
    BY <1>3, <2>1
  <2>8. QED
    BY <2>1, <2>2, <2>5, <2>6, <2>7, OthersOK
<1>9. QED
  BY <1>3, <1>4, <1>5, <1>6, <1>7, <1>8 DEF NickInv

LEMMA ConnectOK ==
  ASSUME NickInv, NEW u \in Users, NEW n \in Names \union {u}, Connect(u, n)
  PROVE  NickInv'
<1>1. TypeOK
  BY DEF NickInv
<1>2. {Zeroed.use_snid, Zeroed.req_snid} \subseteq vouched[u] \union {0}
      /\ Zeroed.snid = 0
  BY DEF Zeroed
<1>3. FALSE \in BOOLEAN /\ Alike(nickserv, nickserv)
  BY DEF Alike
<1>4. \A v \in Online \ {u} : nick[v] # n
  BY DEF Connect, Bearers
<1>5. Enters(u, Zeroed, n, FALSE, nickserv, sent)
  BY <1>1, <1>2, <1>3, <1>4, StructFacts DEF Enters, TypeOK, Connect
<1>6. QED
  BY <1>5, EntersOK

LEMMA RejoinOK ==
  ASSUME NickInv, NEW u \in Users, Rejoin(u)
  PROVE  NickInv'
<1>1. TypeOK
  BY DEF NickInv
<1>2. {Zeroed.use_snid, Zeroed.req_snid} \subseteq vouched[u] \union {0}
      /\ Zeroed.snid = 0
  BY DEF Zeroed
<1>3. identified[u] \in BOOLEAN /\ Alike(nickserv, nickserv)
  BY <1>1 DEF Alike, TypeOK
<1>4. \A v \in Online \ {u} : nick[v] # nick[u]
  BY DEF Rejoin, Bearers
<1>5. nick[u] \in Names \union {u} /\ nick' = [nick EXCEPT ![u] = nick[u]]
  BY <1>1 DEF Rejoin, TypeOK
<1>6. Enters(u, Zeroed, nick[u], identified[u], nickserv, sent)
  BY <1>1, <1>2, <1>3, <1>4, <1>5, StructFacts DEF Enters, TypeOK, Rejoin
<1>7. QED
  BY <1>6, EntersOK

(* A nick change of the user's own, or one that the network carries out.   *)
LEMMA NickChangeOK ==
  ASSUME NickInv, NEW u \in Online, NEW n \in Names \union {u}, NEW left,
         NickChange(u, n, left), left \in Seq(Request), Len(left) <= MaxSent,
         \A v \in Online \ {u} : nick[v] # n,
         \/ left = sent
         \/ /\ sent # <<>> /\ left = Tail(sent)
            /\ \A v \in Online \ {u} : Head(sent) # Guest(nick[v])
  PROVE  NickInv'
<1> DEFINE s == [OfflineStruct(user[u]) EXCEPT !.timer = FALSE]
           db == OfflineRecord(nickserv, user[u])
<1>1. TypeOK /\ u \in Users /\ where[u] = "on"
  BY DEF NickInv, Online
<1>2. user[u] \in Struct
  BY <1>1 DEF TypeOK
<1>3. /\ s \in Struct /\ s.snid = 0 /\ s.use_snid = user[u].use_snid
      /\ s.req_snid = user[u].req_snid
  BY <1>2, StructFacts DEF OfflineStruct, Struct
<1>4. {s.use_snid, s.req_snid} \subseteq vouched[u] \union {0}
  BY <1>3 DEF NickInv, UserOK, IdsVouched
<1>5. nickserv \in [Names -> Record]
  BY <1>1 DEF TypeOK
<1>6. /\ db \in [Names -> Record] /\ Alike(nickserv, db)
      /\ \A m \in Names : nickserv[m].snid # user[u].snid =>
           db[m].online = nickserv[m].online
  BY <1>2, <1>5, OfflineFacts
<1> HIDE DEF s, db
<1>7. \A v \in Online \ {u} :
        user[v].snid # 0 /\ nick[v] \in Names /\ nickserv[nick[v]].online =>
          db[nick[v]].online
  BY <1>6, HoldersDiffer
<1>8. NewUser(u, s, n, FALSE, db, left) /\ UNCHANGED <<next_snid, features>>
      /\ nick' = [nick EXCEPT ![u] = n] /\ where' = [where EXCEPT ![u] = "on"]
      /\ identified' \in [Users -> BOOLEAN] /\ FALSE \in BOOLEAN
  BY <1>1 DEF NickChange, s, db, TypeOK
<1>9. Enters(u, s, n, FALSE, db, left)
  BY <1>3, <1>4, <1>6, <1>7, <1>8 DEF Enters
<1>10. QED
  BY <1>1, <1>9, EntersOK

LEMMA UserNickOK ==
  ASSUME NickInv, NEW u \in Users, NEW n \in Names \union {u}, UserNick(u, n)
  PROVE  NickInv'
<1>1. \A v \in Online \ {u} : nick[v] # n
  BY DEF UserNick, Bearers
<1>2. sent \in Seq(Request) /\ Len(sent) <= MaxSent
  BY DEF NickInv, TypeOK
<1>3. QED
  BY <1>1, <1>2, NickChangeOK DEF UserNick

-----------------------------------------------------------------------------
(* Users that leave                                                        *)

LEMMA QueueOK ==
  ASSUME TypeOK, NEW v \in Users, nick'[v] = nick[v],
         NEW reqs \in Seq(Request), sent' = sent \o reqs
  PROVE  IsUnderWay(Guest(nick[v])) => IsUnderWay(Guest(nick[v]))'
<1> DEFINE g == Guest(nick[v])
<1>1. (\E i \in DOMAIN sent : sent[i] = g) => \E i \in DOMAIN sent' : sent'[i] = g
  <2> HIDE DEF g
  <2>1. QED
    BY SentKeeps
<1>2. QED
  BY <1>1 DEF IsUnderWay

LEMMA GoneFacts ==
  ASSUME TypeOK, NEW gone \in SUBSET Users, Gone(gone)
  PROVE  /\ where' \in [Users -> {"on", "split", "off"}]
         /\ nick' \in [Users -> Nicks \union {NONE}]
         /\ identified' \in [Users -> BOOLEAN]
         /\ vouched' \in [Users -> SUBSET (1..MaxSnid)]
         /\ \A v \in gone : where'[v] = "off" /\ nick'[v] = NONE
         /\ \A v \in Users \ gone : /\ where'[v] = where[v]
                                    /\ nick'[v] = nick[v]
                                    /\ vouched'[v] = vouched[v]
BY DEF TypeOK, Gone

LEMMA LeavesOK ==
  ASSUME NickInv, NEW u \in Online, Leaves(u),
         UNCHANGED <<next_snid, features, sent>>
  PROVE  NickInv'
<1>1. TypeOK /\ u \in Users
  BY DEF NickInv, Online
<1>2. /\ where' \in [Users -> {"on", "split", "off"}]
      /\ nick' \in [Users -> Nicks \union {NONE}]
      /\ identified' \in [Users -> BOOLEAN]
      /\ vouched' \in [Users -> SUBSET (1..MaxSnid)]
      /\ where'[u] = "off" /\ nick'[u] = NONE
      /\ \A v \in Users \ {u} : /\ where'[v] = where[v]
                                /\ nick'[v] = nick[v]
                                /\ vouched'[v] = vouched[v]
  BY <1>1, GoneFacts DEF Leaves
<1>3. /\ user' \in [Users -> Struct] /\ user'[u] = Zeroed
      /\ \A v \in Users \ {u} : user'[v] = user[v]
  BY <1>1, StructFacts DEF TypeOK, Leaves
<1>4. /\ nickserv' \in [Names -> Record] /\ Alike(nickserv, nickserv')
      /\ \A m \in Names : nickserv[m].snid # user[u].snid =>
           nickserv'[m].online = nickserv[m].online
  <2>1. user[u] \in Struct /\ nickserv \in [Names -> Record]
    BY <1>1 DEF TypeOK
  <2>2. nickserv' = OfflineRecord(nickserv, user[u])
    BY DEF Leaves
  <2>3. QED
    BY <2>1, <2>2, OfflineFacts
<1>5. TypeOK'
  <2>1. \A v \in Users :
          /\ nick'[v] \in IF where'[v] = "off" THEN {NONE} ELSE Names \union {v}
          /\ where'[v] # "on" => user'[v] = Zeroed
    BY <1>1, <1>2, <1>3 DEF TypeOK
  <2>2. QED
    BY <1>1, <1>2, <1>3, <1>4, <2>1 DEF TypeOK
<1>6. Online' = Online \ {u}
  BY <1>2 DEF Online
<1>7. Alone'
  BY <1>2, <1>6 DEF NickInv, Alone, Online
<1>8. IdsUnique'
  BY <1>4 DEF NickInv, IdsUnique, Alike
<1>9. ASSUME NEW v \in Online \ {u} PROVE UserOK(v)'
  <2>1. v \in Users \ {u} /\ v \in Online
    BY DEF Online
  <2>2. IsUnderWay(Guest(nick[v])) => IsUnderWay(Guest(nick[v]))'
    BY <1>2, <2>1 DEF IsUnderWay
  <2>3. user[v].snid # 0 => nickserv[nick[v]].snid # user[u].snid
    BY <2>1, HoldersDiffer
  <2>4. QED
    BY <1>2, <1>3, <1>4, <2>1, <2>2, <2>3, OthersOK DEF Alike
<1>10. QED
  BY <1>5, <1>6, <1>7, <1>8, <1>9 DEF NickInv

LEMMA SplitUserLeavesOK ==
  ASSUME NickInv, NEW u \in Users, SplitUserLeaves(u)
  PROVE  NickInv'
<1>1. TypeOK /\ where[u] = "split"
  BY DEF NickInv, SplitUserLeaves
<1>2. /\ where' \in [Users -> {"on", "split", "off"}]
      /\ nick' \in [Users -> Nicks \union {NONE}]
      /\ identified' \in [Users -> BOOLEAN]
      /\ vouched' \in [Users -> SUBSET (1..MaxSnid)]
      /\ where'[u] = "off" /\ nick'[u] = NONE
      /\ \A v \in Users \ {u} : /\ where'[v] = where[v]
                                /\ nick'[v] = nick[v]
                                /\ vouched'[v] = vouched[v]
  BY <1>1, GoneFacts DEF SplitUserLeaves
<1>3. UNCHANGED <<user, nickserv, next_snid, features, sent>>
  BY DEF SplitUserLeaves
<1>4. TypeOK'
  <2>1. \A v \in Users :
          /\ nick'[v] \in IF where'[v] = "off" THEN {NONE} ELSE Names \union {v}
          /\ where'[v] # "on" => user'[v] = Zeroed
    BY <1>1, <1>2, <1>3 DEF TypeOK
  <2>2. QED
    BY <1>1, <1>2, <1>3, <2>1 DEF TypeOK
<1>5. Online' = Online
  BY <1>1, <1>2 DEF Online
<1>6. Alone' /\ IdsUnique'
  BY <1>1, <1>2, <1>3, <1>5 DEF NickInv, Alone, IdsUnique, Online
<1>7. ASSUME NEW v \in Online PROVE UserOK(v)'
  <2>1. v \in Users \ {u}
    BY <1>1 DEF Online
  <2>2. IsUnderWay(Guest(nick[v])) => IsUnderWay(Guest(nick[v]))'
    BY <1>2, <1>3, <2>1 DEF IsUnderWay
  <2>3. QED
    BY <1>2, <1>3, <2>1, <2>2, OthersOK
<1>8. QED
  BY <1>4, <1>5, <1>6, <1>7 DEF NickInv

LEMMA ServerLeavesOK ==
  ASSUME NickInv, NEW u \in Users, ServerLeaves(u)
  PROVE  NickInv'
<1>1. TypeOK
  BY DEF NickInv
<1>2. /\ where' = [where EXCEPT ![u] = "split"] /\ where[u] = "on"
      /\ user' = [user EXCEPT ![u] = Zeroed]
      /\ vouched' = [vouched EXCEPT ![u] = {}]
      /\ UNCHANGED <<nick, identified, nickserv, next_snid, features, sent>>
  BY DEF ServerLeaves, Online
<1>3. TypeOK'
  BY <1>1, <1>2, StructFacts DEF TypeOK
<1>4. Online' = Online \ {u}
  BY <1>1, <1>2 DEF Online, TypeOK
<1>5. Alone' /\ IdsUnique'
  BY <1>2, <1>4 DEF NickInv, Alone, IdsUnique
<1>6. ASSUME NEW v \in Online \ {u} PROVE UserOK(v)'
  <2>1. v \in Users \ {u} /\ v \in Online
    BY DEF Online
  <2>2. user'[v] = user[v] /\ vouched'[v] = vouched[v]
    BY <1>1, <1>2, <2>1 DEF TypeOK
  <2>3. IsUnderWay(Guest(nick[v])) => IsUnderWay(Guest(nick[v]))'
    BY <1>2 DEF IsUnderWay
  <2>4. QED
    BY <1>2, <2>1, <2>2, <2>3, OthersOK
<1>7. QED
  BY <1>3, <1>4, <1>5, <1>6 DEF NickInv

LEMMA RestartOK ==
  ASSUME NickInv, Restart
  PROVE  NickInv'
<1>1. TypeOK
  BY DEF NickInv
<1>2. Online' = {}
  BY <1>1 DEF Restart, Online, TypeOK
<1>3. /\ nickserv' \in [Names -> Record]
      /\ \A n \in Names : nickserv'[n].snid = nickserv[n].snid
  <2>1. nickserv' = [n \in Names |-> [nickserv[n] EXCEPT !.online = FALSE]]
    BY DEF Restart
  <2>2. nickserv \in [Names -> Record]
    BY <1>1 DEF TypeOK
  <2>3. QED
    BY <2>1, <2>2 DEF Record
<1>4. <<>> \in Seq(Request) /\ Len(<<>>) <= MaxSent
  BY NickServAssumption
<1>5. TypeOK'
  <2>1. \A v \in Users : where'[v] = "off" <=> where[v] = "off"
    BY <1>1 DEF Restart, TypeOK
  <2>2. user' = [v \in Users |-> Zeroed] /\ sent' = <<>>
        /\ vouched' = [v \in Users |-> {}]
        /\ UNCHANGED <<nick, identified, next_snid, features>>
    BY DEF Restart
  <2>3. where' \in [Users -> {"on", "split", "off"}]
    BY <1>1 DEF Restart, TypeOK
  <2>4. QED
    BY <1>1, <1>3, <1>4, <2>1, <2>2, <2>3, StructFacts DEF TypeOK
<1>6. Alone' /\ IdsUnique'
  <2>1. next_snid' = next_snid
    BY DEF Restart
  <2>2. Alone'
    BY <1>2 DEF Alone
  <2>3. IdsUnique'
    BY <1>3, <2>1 DEF NickInv, IdsUnique
  <2>4. QED
    BY <2>2, <2>3
<1>7. QED
  BY <1>2, <1>5, <1>6 DEF NickInv

-----------------------------------------------------------------------------
(* Steps after which every user is where it was, with the nick it had      *)

LEMMA StaysOK ==
  ASSUME NickInv, NEW reqs \in Seq(Request), Send(reqs),
         UNCHANGED <<where, nick, identified, features>>,
         user' \in [Users -> Struct],
         \A v \in Users \ Online : user'[v] = user[v],
         nickserv' \in [Names -> Record],
         next_snid' \in 1..MaxSnid + 1, IdsUnique',
         vouched' \in [Users -> SUBSET (1..MaxSnid)],
         \A v \in Online : UserOK(v)'
  PROVE  NickInv'
<1>1. TypeOK
  BY DEF NickInv
<1>2. sent' \in Seq(Request) /\ Len(sent') <= MaxSent
  BY <1>1, SendFacts DEF Send, TypeOK
<1>3. Online' = Online
  BY DEF Online
<1>4. TypeOK'
  BY <1>1, <1>2 DEF TypeOK, Online
<1>5. Alone'
  BY <1>3 DEF NickInv, Alone
<1>6. QED
  BY <1>3, <1>4, <1>5 DEF NickInv

(* The users of which such a step changes nothing, nor the record.         *)
LEMMA StayOthersOK ==
  ASSUME NickInv, NEW reqs \in Seq(Request), Send(reqs),
         UNCHANGED <<nick, features>>, NEW v \in Online, user'[v] = user[v],
         vouched[v] \subseteq vouched'[v],
         nick[v] \in Names =>
           /\ nickserv'[nick[v]].snid = nickserv[nick[v]].snid
           /\ nickserv'[nick[v]].suspended = nickserv[nick[v]].suspended
           /\ user[v].snid # 0 =>
                /\ nickserv'[nick[v]].auth = nickserv[nick[v]].auth
                /\ nickserv[nick[v]].online => nickserv'[nick[v]].online
  PROVE  UserOK(v)'
<1>1. TypeOK /\ v \in Users
  BY DEF NickInv, Online
<1>2. sent' = sent \o reqs
  BY <1>1, SendFacts DEF Send, TypeOK
<1>3. IsUnderWay(Guest(nick[v])) => IsUnderWay(Guest(nick[v]))'
  BY <1>1, <1>2, QueueOK
<1>4. QED
  BY <1>3, OthersOK

LEMMA SendNone ==
  ASSUME TypeOK, UNCHANGED sent
  PROVE  <<>> \in Seq(Request) /\ Send(<<>>)
<1>1. sent \in Seq(Request) /\ Len(sent) <= MaxSent
  BY DEF TypeOK
<1>2. <<>> \in Seq(Request) /\ sent \o <<>> = sent
  BY <1>1
<1>3. QED
  BY <1>1, <1>2 DEF Send, SendAfter

LEMMA NickIsNick ==
  ASSUME TypeOK, NEW u \in Online
  PROVE  u \in Users /\ nick[u] \in Nicks /\ nick[u] \in Names \union {u}
BY DEF TypeOK, Online, Nicks

LEMMA GuestSeq ==
  ASSUME NEW n \in Nicks
  PROVE  /\ <<Guest(n)>> \in Seq(Request)
         /\ \A m \in {"+r", "-r"} : <<Mode(m, n)>> \in Seq(Request)
         /\ \A m \in Names : <<SvsNick(n, m)>> \in Seq(Request)
<1>1. \A q \in Request : <<q>> \in Seq(Request)
  OBVIOUS
<1>2. QED
  BY <1>1, RequestFacts

(* The timer made the user a guest: from now on a request is under way.    *)
LEMMA TimerOK ==
  ASSUME NickInv, NEW u \in Users, TimerNotIdentified(u)
  PROVE  NickInv'
<1>1. TypeOK
  BY DEF NickInv
<1>2. u \in Online
  BY <1>1 DEF TypeOK, Online, Zeroed, TimerNotIdentified
<1>3. CASE Leaves(u) /\ UNCHANGED <<next_snid, features, sent>>
  BY <1>2, <1>3, LeavesOK
<1>4. CASE /\ user' = [user EXCEPT ![u].timer = FALSE]
           /\ Send(<<Guest(nick[u])>>)
           /\ UNCHANGED <<where, nick, identified, nickserv, next_snid, features,
                          vouched>>
  <2>1. nick[u] \in Nicks /\ <<Guest(nick[u])>> \in Seq(Request)
    BY <1>1, <1>2, NickIsNick, GuestSeq
  <2>2. /\ user' \in [Users -> Struct]
        /\ \A v \in Users \ {u} : user'[v] = user[v]
        /\ user'[u].snid = user[u].snid /\ user'[u].use_snid = user[u].use_snid
        /\ user'[u].req_snid = user[u].req_snid /\ user'[u].auth = user[u].auth
    <3> DEFINE s1 == [user[u] EXCEPT !.timer = FALSE]
    <3>1. user' = [user EXCEPT ![u] = s1] /\ user \in [Users -> Struct]
      BY <1>1, <1>4 DEF TypeOK
    <3>2. /\ s1 \in Struct /\ s1.snid = user[u].snid
          /\ s1.use_snid = user[u].use_snid /\ s1.req_snid = user[u].req_snid
          /\ s1.auth = user[u].auth
      BY <3>1 DEF Struct
    <3> HIDE DEF s1
    <3>3. QED
      BY <3>1, <3>2
  <2>3. IsUnderWay(Guest(nick[u]))'
    <3>1. sent' = sent \o <<Guest(nick[u])>>
      BY <1>1, <1>4, <2>1, SendFacts DEF Send, TypeOK
    <3>2. \E i \in DOMAIN sent' : sent'[i] = Guest(nick[u])
      BY <1>1, <2>1, <3>1, AppendAdds, RequestFacts DEF TypeOK
    <3>3. QED
      BY <1>4, <3>2 DEF IsUnderWay
  <2>4. UserOK(u)
    BY <1>2 DEF NickInv
  <2>5. UserOK(u)'
    BY <1>4, <2>2, <2>3, <2>4 DEF UserOK, IdsVouched, Holds, Timed
  <2>6. \A v \in Online \ {u} : UserOK(v)'
    BY <1>4, <2>1, <2>2, StayOthersOK DEF Online
  <2>7. IdsUnique' /\ next_snid' \in 1..MaxSnid + 1
        /\ nickserv' \in [Names -> Record]
        /\ vouched' \in [Users -> SUBSET (1..MaxSnid)]
    BY <1>1, <1>4 DEF NickInv, IdsUnique, TypeOK
  <2>8. QED
    BY <1>2, <1>4, <2>1, <2>2, <2>5, <2>6, <2>7, StaysOK
<1>5. QED
  BY <1>3, <1>4 DEF TimerNotIdentified

(* update_nick_online_info: the user holds the nick it bears.              *)
LEMMA IdentifiedOK ==
  ASSUME NickInv, NEW u \in Online, nick[u] \in Names,
         nickserv[nick[u]].snid # 0, ~nickserv[nick[u]].suspended,
         Identified(u, nickserv[nick[u]]), UNCHANGED <<next_snid, features>>
  PROVE  NickInv'
<1> DEFINE rec == nickserv[nick[u]]
           s1 == [Recognize(user[u], rec) EXCEPT !.timer = FALSE]
           reqs == PlusR(nick[u], rec.auth)
<1>1. TypeOK /\ u \in Users /\ nick[u] \in Nicks
  BY NickIsNick DEF NickInv
<1>2. nickserv \in [Names -> Record] /\ rec \in Record /\ user[u] \in Struct
  BY <1>1 DEF TypeOK
<1>3. rec.snid \in 1..MaxSnid
  BY <1>2, NickServAssumption DEF Record, Snid
<1>4. /\ s1 \in Struct /\ s1.snid = rec.snid /\ s1.use_snid = rec.snid
      /\ s1.req_snid = user[u].req_snid /\ s1.auth = rec.auth
  BY <1>2 DEF Recognize, Struct, Record
<1>5. /\ nickserv' \in [Names -> Record] /\ Alike(nickserv, nickserv')
      /\ nickserv'[nick[u]].online
      /\ \A n \in Names : nickserv[n].online => nickserv'[n].online
  <2>1. nickserv' = SetOnline(nickserv, rec.snid, TRUE)
    BY DEF Identified
  <2> DEFINE db == SetOnline(nickserv, rec.snid, TRUE)
  <2>2. db \in [Names -> Record]
    BY <1>2 DEF SetOnline, Record
  <2>3. Alike(nickserv, db)
    BY <1>2 DEF SetOnline, Record, Alike
  <2>4. db[nick[u]].online /\ \A n \in Names : nickserv[n].online => db[n].online
    BY <1>2, <1>3 DEF SetOnline, Record
  <2>5. QED
    BY <2>1, <2>2, <2>3, <2>4
<1>6. user' = [user EXCEPT ![u] = s1] /\ Send(reqs)
      /\ UNCHANGED <<where, nick, identified, features>>
      /\ vouched' = [vouched EXCEPT ![u] = @ \union {rec.snid}]
  BY DEF Identified
<1>7. reqs \in Seq(Request)
  BY <1>1, PlusRFacts
<1> HIDE DEF s1, reqs
<1>8. /\ user' \in [Users -> Struct] /\ user'[u] = s1
      /\ \A v \in Users \ {u} : user'[v] = user[v] /\ vouched'[v] = vouched[v]
      /\ vouched' \in [Users -> SUBSET (1..MaxSnid)]
      /\ vouched'[u] = vouched[u] \union {rec.snid}
  BY <1>1, <1>3, <1>4, <1>6 DEF TypeOK
<1>9. UserOK(u)'
  <2>1. IdsVouched(u)'
    BY <1>4, <1>8 DEF NickInv, UserOK, IdsVouched
  <2>2. Holds(u)'
    BY <1>4, <1>5, <1>6, <1>8 DEF Holds, RecordOf, Alike
  <2>3. Timed(u)'
    BY <1>4, <1>5, <1>6, <1>8 DEF Timed, Claimed, RecordOf, Alike
  <2>4. QED
    BY <2>1, <2>2, <2>3 DEF UserOK
<1>10. \A v \in Online \ {u} : UserOK(v)'
  BY <1>5, <1>6, <1>7, <1>8, StayOthersOK DEF Online, Alike
<1>11. IdsUnique' /\ next_snid' \in 1..MaxSnid + 1
  <2>1. \A m \in Names : nickserv'[m].snid = nickserv[m].snid
    BY <1>5 DEF Alike
  <2>2. QED
    BY <1>1, <2>1 DEF NickInv, IdsUnique, TypeOK
<1>12. QED
  BY <1>5, <1>6, <1>7, <1>8, <1>9, <1>10, <1>11, StaysOK

LEMMA IdentifyOK ==
  ASSUME NickInv, NEW u \in Users, NEW right, Identify(u, right)
  PROVE  NickInv'
<1>1. TypeOK /\ u \in Online
  BY DEF NickInv, Identify
<1>2. nickserv \in [Names -> Record]
  BY <1>1 DEF TypeOK
<1>3. /\ RecordOf(nickserv, nick[u]).snid # 0
      /\ ~RecordOf(nickserv, nick[u]).suspended
      /\ UNCHANGED <<next_snid, features>>
      /\ \/ Identified(u, RecordOf(nickserv, nick[u]))
         \/ Leaves(u) /\ UNCHANGED sent
  BY DEF Identify, WrongPassword
<1>4. nick[u] \in Names /\ RecordOf(nickserv, nick[u]) = nickserv[nick[u]]
  BY <1>2, <1>3, RecordOfFacts
<1>5. CASE Identified(u, RecordOf(nickserv, nick[u]))
  BY <1>1, <1>3, <1>4, <1>5, IdentifiedOK
<1>6. CASE Leaves(u) /\ UNCHANGED sent
  BY <1>1, <1>3, <1>6, LeavesOK
<1>7. QED
  BY <1>3, <1>5, <1>6

(* The nick is not the user's own: its bearer, if any, is killed.          *)
LEMMA LoginElsewhereOK ==
  ASSUME NickInv, NEW u \in Online, NEW n \in Names, nick[u] # n,
         nickserv[n].snid # 0, LoginElsewhere(u, n, nickserv[n]),
         UNCHANGED <<next_snid, features>>
  PROVE  NickInv'
<1> DEFINE ku == Bearers(n)
           reqs == <<SvsNick(nick[u], n)>>
           s1 == [user[u] EXCEPT !.req_snid = nickserv[n].snid]
<1>1. TypeOK /\ u \in Users /\ nick[u] \in Nicks
  BY NickIsNick DEF NickInv
<1>2. ku \subseteq Online \ {u} /\ ku \subseteq Users
  BY DEF Bearers, Online
<1>3. user \in [Users -> Struct] /\ nickserv \in [Names -> Record]
  BY <1>1 DEF TypeOK
<1>4. nickserv[n].snid \in 1..MaxSnid
  BY <1>3, NickServAssumption DEF Record, Snid
<1>5. reqs \in Seq(Request) /\ Send(reqs)
  BY <1>1, GuestSeq DEF LoginElsewhere
<1>6. /\ s1 \in Struct /\ s1.snid = user[u].snid /\ s1.use_snid = user[u].use_snid
      /\ s1.req_snid = nickserv[n].snid /\ s1.auth = user[u].auth
      /\ s1.timer = user[u].timer
  BY <1>1, <1>3 DEF Struct, Record
<1>7. /\ where' = [v \in Users |-> IF v \in ku THEN "off" ELSE where[v]]
      /\ nick' = [v \in Users |-> IF v \in ku THEN NONE ELSE nick[v]]
      /\ identified' = [v \in Users |-> v \notin ku /\ identified[v]]
      /\ vouched' = [v \in Users |-> IF v \in ku THEN {}
                       ELSE IF v = u THEN vouched[u] \union {nickserv[n].snid}
                       ELSE vouched[v]]
      /\ user' = [v \in Users |-> IF v \in ku THEN Zeroed
                    ELSE IF v = u THEN s1 ELSE user[v]]
      /\ nickserv' = IF ku = {} THEN nickserv
                     ELSE OfflineRecord(nickserv, user[CHOOSE v \in ku : TRUE])
  BY DEF LoginElsewhere
<1>8. /\ nickserv' \in [Names -> Record] /\ Alike(nickserv, nickserv')
      /\ \A v \in Online \ ku : user[v].snid # 0 /\ nick[v] \in Names =>
           nickserv'[nick[v]].online = nickserv[nick[v]].online
  <2>1. CASE ku = {}
    BY <1>3, <1>7, <2>1 DEF Alike
  <2>2. CASE ku # {}
    <3>1. PICK k \in ku : nickserv' = OfflineRecord(nickserv, user[k])
      BY <1>7, <2>2
    <3>2. k \in Online /\ user[k] \in Struct
      BY <1>2, <1>3
    <3>3. /\ nickserv' \in [Names -> Record] /\ Alike(nickserv, nickserv')
          /\ \A m \in Names : nickserv[m].snid # user[k].snid =>
               nickserv'[m].online = nickserv[m].online
      BY <1>3, <3>1, <3>2, OfflineFacts
    <3>4. QED
      BY <3>2, <3>3, HoldersDiffer
  <2>3. QED
    BY <2>1, <2>2
<1>9. sent' = sent \o reqs /\ sent' \in Seq(Request) /\ Len(sent') <= MaxSent
  BY <1>1, <1>5, SendFacts DEF Send, TypeOK
<1> HIDE DEF s1, reqs, ku
<1>10. TypeOK'
  <2>1. /\ where' \in [Users -> {"on", "split", "off"}]
        /\ nick' \in [Users -> Nicks \union {NONE}]
        /\ identified' \in [Users -> BOOLEAN]
        /\ vouched' \in [Users -> SUBSET (1..MaxSnid)]
        /\ user' \in [Users -> Struct]
    BY <1>1, <1>4, <1>6, <1>7, StructFacts DEF TypeOK
  <2>2. \A v \in Users :
          /\ nick'[v] \in IF where'[v] = "off" THEN {NONE} ELSE Names \union {v}
          /\ where'[v] # "on" => user'[v] = Zeroed
    BY <1>1, <1>7 DEF TypeOK, Online
  <2>3. QED
    BY <1>1, <1>8, <1>9, <2>1, <2>2 DEF TypeOK
<1>11. Online' = Online \ ku
  BY <1>2, <1>7 DEF Online
<1>12. /\ \A v \in Online \ ku : nick'[v] = nick[v]
       /\ \A v \in Online \ (ku \union {u}) :
            user'[v] = user[v] /\ vouched'[v] = vouched[v]
       /\ user'[u] = s1 /\ vouched'[u] = vouched[u] \union {nickserv[n].snid}
       /\ nick'[u] = nick[u]
  BY <1>1, <1>2, <1>7 DEF Online
<1>13. Alone'
  BY <1>11, <1>12 DEF NickInv, Alone
<1>14. IdsUnique'
  <2>1. \A m \in Names : nickserv'[m].snid = nickserv[m].snid
    BY <1>8 DEF Alike
  <2>2. QED
    BY <2>1 DEF NickInv, IdsUnique
<1>15. ASSUME NEW v \in Online \ ku
       PROVE  IsUnderWay(Guest(nick[v])) => IsUnderWay(Guest(nick[v]))'
  <2>1. v \in Users /\ nick'[v] = nick[v]
    BY <1>12 DEF Online
  <2>2. QED
    BY <1>1, <1>5, <1>9, <2>1, QueueOK
<1>16. UserOK(u)'
  <2>1. UserOK(u) /\ u \in Online \ ku
    BY <1>2 DEF NickInv
  <2>2. IdsVouched(u)'
    BY <1>6, <1>12, <2>1 DEF UserOK, IdsVouched
  <2>3. Holds(u)'
    <3>1. CASE user[u].snid = 0
      BY <1>6, <1>12, <3>1 DEF Holds
    <3>2. CASE user[u].snid # 0
      <4>1. /\ nick[u] \in Names /\ nickserv[nick[u]].snid = user[u].snid
            /\ nickserv[nick[u]].online
            /\ "sset" \notin features => user[u].auth = nickserv[nick[u]].auth
        BY <2>1, <3>2 DEF UserOK, Holds, RecordOf, NoRecord
      <4>2. /\ nickserv'[nick[u]].snid = user[u].snid
            /\ nickserv'[nick[u]].online
            /\ "sset" \notin features' => user[u].auth = nickserv'[nick[u]].auth
        BY <1>8, <2>1, <3>2, <4>1 DEF Alike
      <4>3. nick'[u] = nick[u] /\ user'[u].snid = user[u].snid /\ user'[u].auth = user[u].auth
        BY <1>6, <1>12
      <4>4. QED
        BY <4>1, <4>2, <4>3 DEF Holds, RecordOf
    <3>3. QED
      BY <3>1, <3>2
  <2>4. Timed(u)'
    BY <1>6, <1>8, <1>12, <1>15, <2>1 DEF UserOK, Timed, Claimed, RecordOf, Alike
  <2>5. QED
    BY <2>2, <2>3, <2>4 DEF UserOK
<1>17. ASSUME NEW v \in Online \ (ku \union {u}) PROVE UserOK(v)'
  <2>1. v \in Online /\ v \in Online \ ku
    OBVIOUS
  <2>2. QED
    BY <1>8, <1>12, <1>15, <2>1, OthersOK DEF Alike
<1>18. QED
  BY <1>10, <1>11, <1>13, <1>14, <1>16, <1>17 DEF NickInv

LEMMA LoginOK ==
  ASSUME NickInv, NEW u \in Users, NEW n \in Names, NEW right, Login(u, n, right)
  PROVE  NickInv'
<1>1. u \in Online /\ nickserv[n].snid # 0 /\ ~nickserv[n].suspended
      /\ UNCHANGED <<next_snid, features>>
  BY DEF Login
<1>2. CASE nick[u] = n /\ Identified(u, nickserv[n])
  BY <1>1, <1>2, IdentifiedOK
<1>3. CASE nick[u] # n /\ LoginElsewhere(u, n, nickserv[n])
  BY <1>1, <1>3, LoginElsewhereOK
<1>4. CASE WrongPassword(u)
  BY <1>1, <1>4, LeavesOK DEF WrongPassword
<1>5. QED
  BY <1>2, <1>3, <1>4 DEF Login

(* The network carries out a request, on whoever bears the nick.           *)
LEMMA DeliverOK ==
  ASSUME NickInv, Deliver
  PROVE  NickInv'
<1> DEFINE r == Head(sent)
           ChangesMode(u) ==
             /\ r.do \in {"+r", "-r"}
             /\ identified' = [identified EXCEPT ![u] = (r.do = "+r")]
             /\ sent' = Tail(sent)
             /\ UNCHANGED <<where, nick, user, nickserv, next_snid, features,
                            vouched>>
           Fails ==
             /\ \/ Bearers(r.nick) = {}
                \/ r.do = "nick" /\ Bearers(r.to) # {}
             /\ sent' = Tail(sent)
             /\ UNCHANGED <<where, nick, identified, user, nickserv, next_snid,
                            features, vouched>>
<1>1. TypeOK /\ sent \in Seq(Request) /\ Len(sent) <= MaxSent /\ sent # <<>>
  BY DEF NickInv, TypeOK, Deliver
<1>2. r \in Request /\ Tail(sent) \in Seq(Request) /\ Len(Tail(sent)) <= MaxSent
      /\ Tail(sent) \o <<>> = Tail(sent) /\ <<>> \in Seq(Request)
  BY <1>1, NickServAssumption
<1>3. r \in [do : {"guest", "+r", "-r"}, nick : Nicks, to : {NONE}]
               \union [do : {"nick"}, nick : Nicks, to : Names]
  BY <1>2 DEF Request
<1>4. \A u \in Bearers(r.nick) : u \in Online /\ nick[u] = r.nick
  BY DEF Bearers
<1>5. \A u \in Bearers(r.nick) : \A v \in Online \ {u} : nick[v] # r.nick
  BY <1>4 DEF NickInv, Alone
<1>6. \A v \in Online : r = Guest(nick[v]) => r.nick = nick[v] /\ r.do = "guest"
  BY DEF Guest
<1>7. CASE \E u \in Bearers(r.nick) : r.do = "guest" /\ NickChange(u, u, Tail(sent))
  <2>1. PICK u \in Bearers(r.nick) : r.do = "guest" /\ NickChange(u, u, Tail(sent))
    BY <1>7
  <2>2. \A v \in Online \ {u} : nick[v] # u
    <3>1. ASSUME NEW v \in Online \ {u} PROVE nick[v] # u
      <4>1. v \in Users /\ nick[v] \in Names \union {v} /\ u \in Users
        BY <1>1, <1>4, NickIsNick
      <4>2. QED
        BY <4>1, NickServAssumption
    <3>2. QED
      BY <3>1
  <2>3. \A v \in Online \ {u} : Head(sent) # Guest(nick[v])
    BY <1>5, <1>6
  <2>4. QED
    BY <1>1, <1>2, <1>4, <2>1, <2>2, <2>3, NickChangeOK
<1>8. CASE \E u \in Bearers(r.nick) : /\ r.do = "nick" /\ Bearers(r.to) = {}
                                     /\ NickChange(u, r.to, Tail(sent))
  <2>1. PICK u \in Bearers(r.nick) : /\ r.do = "nick" /\ Bearers(r.to) = {}
                                    /\ NickChange(u, r.to, Tail(sent))
    BY <1>8
  <2>2. r.to \in Names
    BY <1>3, <2>1
  <2>3. \A v \in Online \ {u} : nick[v] # r.to /\ Head(sent) # Guest(nick[v])
    BY <1>6, <2>1 DEF Bearers
  <2>4. QED
    BY <1>1, <1>2, <1>4, <2>1, <2>2, <2>3, NickChangeOK
<1>9. CASE (\E u \in Bearers(r.nick) : ChangesMode(u)) \/ Fails
  <2>1. /\ sent' = Tail(sent)
        /\ UNCHANGED <<where, nick, user, nickserv, next_snid, features, vouched>>
        /\ identified' \in [Users -> BOOLEAN]
    BY <1>1, <1>9 DEF TypeOK
  <2>2. \A v \in Online : r # Guest(nick[v])
    BY <1>4, <1>6, <1>9 DEF Bearers
  <2>3. Online' = Online
    BY <2>1 DEF Online
  <2>4. TypeOK'
    BY <1>1, <1>2, <2>1 DEF TypeOK
  <2>5. Alone' /\ IdsUnique'
    BY <2>1, <2>3 DEF NickInv, Alone, IdsUnique
  <2>6. ASSUME NEW v \in Online PROVE UserOK(v)'
    <3> DEFINE g == Guest(nick[v])
    <3>1. (\E i \in DOMAIN sent : sent[i] = g) =>
            \E i \in DOMAIN sent' : sent'[i] = g
      <4>1. g # Head(sent) /\ sent' = Tail(sent) \o <<>>
        BY <1>2, <2>1, <2>2
      <4> HIDE DEF g
      <4>2. QED
        BY <1>1, <1>2, <4>1, TailThenKeeps
    <3>2. IsUnderWay(Guest(nick[v])) => IsUnderWay(Guest(nick[v]))'
      BY <2>1, <3>1 DEF IsUnderWay
    <3>3. QED
      BY <2>1, <3>2, OthersOK
  <2>7. QED
    BY <2>3, <2>4, <2>5, <2>6 DEF NickInv
<1>10. QED
  BY <1>7, <1>8, <1>9 DEF Deliver

LEMMA RegisterOK ==
  ASSUME NickInv, NEW u \in Users, Register(u)
  PROVE  NickInv'
<1> DEFINE reqs == IF NickSecurityCode THEN <<>> ELSE <<Mode("+r", nick[u])>>
           rec == [NoRecord EXCEPT !.snid = next_snid, !.online = TRUE]
           s1 == [user[u] EXCEPT !.snid = next_snid, !.auth = FALSE]
<1>1. TypeOK /\ u \in Online /\ nick[u] \in Names /\ nick[u] \in Nicks
      /\ nickserv[nick[u]].snid = 0
  BY DEF NickInv, Register, Nicks
<1>2. next_snid \in 1..MaxSnid /\ next_snid' = next_snid + 1
      /\ next_snid' \in 1..MaxSnid + 1
  BY <1>1, NickServAssumption DEF Register, TypeOK
<1>3. user \in [Users -> Struct] /\ nickserv \in [Names -> Record]
      /\ vouched \in [Users -> SUBSET (1..MaxSnid)]
  BY <1>1 DEF TypeOK
<1>4. next_snid \in Snid /\ 0 \in Snid
  BY <1>2, NickServAssumption DEF Snid
<1>5. /\ s1 \in Struct /\ s1.snid = next_snid /\ s1.auth = FALSE
      /\ s1.use_snid = user[u].use_snid /\ s1.req_snid = user[u].req_snid
  BY <1>3, <1>4 DEF Struct
<1>6. /\ rec \in Record /\ rec.snid = next_snid /\ rec.online
      /\ ~rec.suspended /\ rec.auth = FALSE
  BY <1>4 DEF Record, NoRecord
<1>7. reqs \in Seq(Request)
  BY <1>1, GuestSeq
<1>8. /\ user' = [user EXCEPT ![u] = s1]
      /\ nickserv' = [nickserv EXCEPT ![nick[u]] = rec]
      /\ vouched' = [vouched EXCEPT ![u] = @ \union {next_snid}]
      /\ Send(reqs) /\ UNCHANGED <<where, nick, identified, features>>
  BY <1>3 DEF Register
<1> HIDE DEF reqs, rec, s1
<1>9. /\ user' \in [Users -> Struct] /\ user'[u] = s1
      /\ \A v \in Users \ {u} : user'[v] = user[v] /\ vouched'[v] = vouched[v]
      /\ vouched' \in [Users -> SUBSET (1..MaxSnid)]
      /\ vouched'[u] = vouched[u] \union {next_snid}
      /\ nickserv' \in [Names -> Record] /\ nickserv'[nick[u]] = rec
      /\ \A m \in Names \ {nick[u]} : nickserv'[m] = nickserv[m]
  BY <1>1, <1>2, <1>3, <1>5, <1>6, <1>8
<1>10. IdsUnique'
  <2>1. \A m \in Names : nickserv[m].snid < next_snid /\ nickserv[m].snid \in Int
    BY <1>3 DEF NickInv, IdsUnique, Record, Snid
  <2>2. QED
    BY <1>1, <1>2, <1>6, <1>9, <2>1 DEF NickInv, IdsUnique
<1>11. UserOK(u)'
  <2>1. UserOK(u)
    BY <1>1 DEF NickInv
  <2>2. IdsVouched(u)'
    BY <1>5, <1>9, <2>1 DEF UserOK, IdsVouched
  <2>3. nick'[u] \in Names /\ nickserv'[nick'[u]] = rec /\ features' = features
    BY <1>1, <1>8, <1>9
  <2>4. Holds(u)'
    BY <1>5, <1>6, <1>9, <2>3 DEF Holds, RecordOf
  <2>5. Timed(u)'
    BY <1>2, <1>5, <1>6, <1>9, <2>3 DEF Timed, Claimed, RecordOf
  <2>6. QED
    BY <2>2, <2>4, <2>5 DEF UserOK
<1>12. ASSUME NEW v \in Online \ {u} PROVE UserOK(v)'
  <2>1. v \in Online /\ v \in Users \ {u} /\ nick[v] # nick[u]
    BY <1>1 DEF NickInv, Alone, Online
  <2>2. QED
    BY <1>7, <1>8, <1>9, <2>1, StayOthersOK
<1>13. QED
  BY <1>1, <1>2, <1>7, <1>8, <1>9, <1>10, <1>11, <1>12, StaysOK DEF Online

-----------------------------------------------------------------------------
(* Commands on records                                                     *)

(* Steps that change no id.                                                *)
LEMMA SameIdsOK ==
  ASSUME NickInv, next_snid' = next_snid,
         \A n \in Names : nickserv'[n].snid = nickserv[n].snid
  PROVE  IdsUnique' /\ next_snid' \in 1..MaxSnid + 1
BY DEF NickInv, TypeOK, IdsUnique

(* Deleting the row of a nick that is registered.                          *)
LEMMA DeletedIdsOK ==
  ASSUME NickInv, next_snid' = next_snid, NEW s \in 1..MaxSnid,
         nickserv' = Deleted(nickserv, s)
  PROVE  /\ IdsUnique' /\ next_snid' \in 1..MaxSnid + 1
         /\ nickserv' \in [Names -> Record]
<1>1. TypeOK /\ nickserv \in [Names -> Record]
  BY DEF NickInv, TypeOK
<1>2. \A n \in Names :
        nickserv'[n] = IF nickserv[n].snid = s THEN NoRecord ELSE nickserv[n]
  BY <1>1, DeletedFacts
<1>3. nickserv' \in [Names -> Record]
  BY <1>1, DeletedFacts
<1>4. next_snid \in 1..MaxSnid + 1 /\ 0 < next_snid
  BY <1>1, NickServAssumption DEF TypeOK
<1>5. \A n \in Names : nickserv'[n].snid \in {0, nickserv[n].snid}
  BY <1>2 DEF NoRecord
<1>6. IdsUnique'
  BY <1>4, <1>5 DEF NickInv, IdsUnique
<1>7. QED
  BY <1>3, <1>4, <1>6

LEMMA HolderFacts ==
  ASSUME NickInv, NEW u \in Online, user[u].snid # 0
  PROVE  /\ u \in Users /\ nick[u] \in Names /\ nick[u] \in Nicks
         /\ nickserv[nick[u]].snid = user[u].snid
         /\ nickserv[nick[u]].online
         /\ "sset" \notin features => user[u].auth = nickserv[nick[u]].auth
         /\ user[u].snid \in 1..MaxSnid
<1>1. TypeOK /\ u \in Users /\ user[u] \in Struct
  BY DEF NickInv, TypeOK, Online
<1>2. user[u].snid \in 1..MaxSnid
  BY <1>1, NickServAssumption DEF Struct, Snid
<1>3. QED
  BY <1>1, <1>2 DEF NickInv, UserOK, Holds, RecordOf, NoRecord, Nicks

LEMMA AuthOK ==
  ASSUME NickInv, NEW u \in Users, Auth(u)
  PROVE  NickInv'
<1> DEFINE snid == user[u].snid
           s1 == [user[u] EXCEPT !.auth = TRUE, !.use_snid = snid]
<1>1. TypeOK /\ u \in Online /\ snid # 0
  BY DEF NickInv, Auth
<1>2. /\ nick[u] \in Names /\ nick[u] \in Nicks /\ nickserv[nick[u]].snid = snid
      /\ snid \in 1..MaxSnid
  BY <1>1, HolderFacts
<1>3. user \in [Users -> Struct] /\ nickserv \in [Names -> Record]
      /\ vouched \in [Users -> SUBSET (1..MaxSnid)]
  BY <1>1 DEF TypeOK
<1>4. /\ s1 \in Struct /\ s1.snid = snid /\ s1.use_snid = snid /\ s1.auth = TRUE
      /\ s1.req_snid = user[u].req_snid
  BY <1>3 DEF Struct
<1>5. <<Mode("+r", nick[u])>> \in Seq(Request)
  BY <1>2, GuestSeq
<1>6. /\ user' = [user EXCEPT ![u] = s1]
      /\ nickserv' = SetAuth(SetOnline(nickserv, snid, TRUE), snid, TRUE)
      /\ Send(<<Mode("+r", nick[u])>>)
      /\ UNCHANGED <<where, nick, identified, next_snid, features, vouched>>
  BY <1>3 DEF Auth
<1>7. /\ nickserv' \in [Names -> Record]
      /\ \A m \in Names : /\ nickserv'[m].snid = nickserv[m].snid
                          /\ nickserv'[m].suspended = nickserv[m].suspended
      /\ \A m \in Names : nickserv[m].snid # snid => nickserv'[m] = nickserv[m]
      /\ nickserv'[nick[u]].online /\ nickserv'[nick[u]].auth = TRUE
  <2> DEFINE db == SetOnline(nickserv, snid, TRUE)
  <2>1. /\ db \in [Names -> Record]
        /\ \A m \in Names : /\ db[m].snid = nickserv[m].snid
                            /\ db[m].suspended = nickserv[m].suspended
        /\ \A m \in Names : nickserv[m].snid # snid => db[m] = nickserv[m]
        /\ db[nick[u]].online
    BY <1>1, <1>2, <1>3 DEF SetOnline, Record
  <2>2. nickserv' = SetAuth(db, snid, TRUE)
    BY <1>6
  <2> HIDE DEF db
  <2>3. \A m \in Names :
          nickserv'[m] = IF db[m].snid = snid THEN [db[m] EXCEPT !.auth = TRUE]
                         ELSE db[m]
    BY <2>2 DEF SetAuth
  <2>4. nickserv' \in [Names -> Record]
    <3>1. \A m \in Names : nickserv'[m] \in Record
      BY <2>1, <2>3 DEF Record
    <3>2. nickserv' = [m \in Names |-> nickserv'[m]]
      BY <2>2 DEF SetAuth
    <3>3. QED
      BY <3>1, <3>2
  <2>5. \A m \in Names : /\ nickserv'[m].snid = db[m].snid
                          /\ nickserv'[m].suspended = db[m].suspended
                          /\ nickserv'[m].online = db[m].online
    BY <2>1, <2>3 DEF Record
  <2>6. \A m \in Names : nickserv[m].snid # snid => nickserv'[m] = nickserv[m]
    BY <2>1, <2>3
  <2>7. db[nick[u]].snid = snid /\ db[nick[u]] \in Record
    BY <1>2, <2>1
  <2>8. nickserv'[nick[u]].auth = TRUE
    BY <1>2, <2>3, <2>7 DEF Record
  <2>9. QED
    BY <1>2, <2>1, <2>4, <2>5, <2>6, <2>8
<1> HIDE DEF s1
<1>8. /\ user' \in [Users -> Struct] /\ user'[u] = s1
      /\ \A v \in Users \ {u} : user'[v] = user[v]
  BY <1>3, <1>4, <1>6
<1>9. UserOK(u)'
  <2>1. UserOK(u)
    BY <1>1 DEF NickInv
  <2>2. IdsVouched(u)'
    BY <1>4, <1>6, <1>8, <2>1 DEF UserOK, IdsVouched
  <2>3. nick'[u] \in Names /\ nick'[u] = nick[u]
    BY <1>2, <1>6
  <2>4. Holds(u)'
    BY <1>2, <1>4, <1>7, <1>8, <2>3 DEF Holds, RecordOf
  <2>5. user'[u].timer = user[u].timer
    BY <1>3, <1>8 DEF s1, Struct
  <2>6. IsUnderWay(Guest(nick[u])) => IsUnderWay(Guest(nick[u]))'
    <3>1. sent' = sent \o <<Mode("+r", nick[u])>>
      BY <1>1, <1>5, <1>6, SendFacts DEF Send, TypeOK
    <3>2. QED
      BY <1>1, <1>5, <2>3, <3>1, QueueOK
  <2>7. Timed(u)'
    BY <1>2, <1>4, <1>7, <1>8, <2>1, <2>3, <2>5, <2>6
    DEF UserOK, Timed, Claimed, RecordOf
  <2>8. QED
    BY <2>2, <2>4, <2>7 DEF UserOK
<1>10. ASSUME NEW v \in Online \ {u} PROVE UserOK(v)'
  <2>1. v \in Online /\ v \in Users \ {u}
    BY DEF Online
  <2>2. nick[v] \in Names => nickserv[nick[v]].snid # snid
    BY <1>1, <1>2, <2>1 DEF NickInv, Alone, IdsUnique
  <2>3. QED
    BY <1>5, <1>6, <1>7, <1>8, <2>1, <2>2, StayOthersOK
<1>11. IdsUnique' /\ next_snid' \in 1..MaxSnid + 1
  BY <1>6, <1>7, SameIdsOK
<1>12. QED
  BY <1>1, <1>3, <1>5, <1>6, <1>7, <1>8, <1>9, <1>10, <1>11, StaysOK DEF Online

(* Unless administrators set the options of others, the nick of the        *)
(* command is the user's own.                                              *)
LEMMA SetEmailOK ==
  ASSUME NickInv, NEW u \in Users, NEW n \in Names, SetEmail(u, n)
  PROVE  NickInv'
<1> DEFINE reqs == IF NickSecurityCode THEN <<Mode("-r", nick[u])>> ELSE <<>>
           s1 == [user[u] EXCEPT !.auth = FALSE]
<1>1. TypeOK /\ u \in Online /\ user[u].snid # 0 /\ nickserv[n].snid # 0
      /\ (nickserv[n].snid = user[u].snid \/ "sset" \in features)
  BY DEF NickInv, SetEmail, MaySet
<1>2. nick[u] \in Names /\ nick[u] \in Nicks /\ nickserv[nick[u]].snid = user[u].snid
  BY <1>1, HolderFacts
<1>3. user \in [Users -> Struct] /\ nickserv \in [Names -> Record]
      /\ vouched \in [Users -> SUBSET (1..MaxSnid)]
  BY <1>1 DEF TypeOK
<1>4. "sset" \notin features => n = nick[u]
  BY <1>1, <1>2 DEF NickInv, IdsUnique
<1>5. /\ s1 \in Struct /\ s1.snid = user[u].snid /\ s1.use_snid = user[u].use_snid
      /\ s1.req_snid = user[u].req_snid /\ s1.auth = FALSE
      /\ s1.timer = user[u].timer
  BY <1>3 DEF Struct
<1>6. reqs \in Seq(Request)
  BY <1>2, GuestSeq
<1>7. /\ user' = [user EXCEPT ![u] = s1] /\ Send(reqs)
      /\ nickserv' = SetAuth(nickserv, nickserv[n].snid, FALSE)
      /\ UNCHANGED <<where, nick, identified, next_snid, features, vouched>>
  BY <1>3 DEF SetEmail
<1>8. /\ nickserv' \in [Names -> Record]
      /\ \A m \in Names : /\ nickserv'[m].snid = nickserv[m].snid
                          /\ nickserv'[m].suspended = nickserv[m].suspended
                          /\ nickserv'[m].online = nickserv[m].online
      /\ nickserv'[n].auth = FALSE
      /\ \A m \in Names \ {n} : nickserv'[m].auth = nickserv[m].auth
  <2>1. \A m \in Names \ {n} : nickserv[m].snid # nickserv[n].snid
    BY <1>1 DEF NickInv, IdsUnique
  <2>2. QED
    BY <1>3, <1>7, <2>1 DEF SetAuth, Record
<1> HIDE DEF s1, reqs
<1>9. /\ user' \in [Users -> Struct] /\ user'[u] = s1
      /\ \A v \in Users \ {u} : user'[v] = user[v]
  BY <1>3, <1>5, <1>7
<1>10. ASSUME NEW v \in Online
       PROVE  IsUnderWay(Guest(nick[v])) => IsUnderWay(Guest(nick[v]))'
  <2>1. sent' = sent \o reqs
    BY <1>1, <1>6, <1>7, SendFacts DEF Send, TypeOK
  <2>2. v \in Users /\ nick'[v] = nick[v]
    BY <1>7 DEF Online
  <2>3. QED
    BY <1>1, <1>6, <2>1, <2>2, QueueOK
<1>11. ASSUME NEW v \in Online PROVE UserOK(v)'
  <2>1. /\ v \in Users /\ nick'[v] = nick[v] /\ vouched'[v] = vouched[v]
        /\ user'[v].snid = user[v].snid /\ user'[v].use_snid = user[v].use_snid
        /\ user'[v].req_snid = user[v].req_snid /\ user'[v].timer = user[v].timer
    BY <1>5, <1>7, <1>9 DEF Online
  <2>2. UserOK(v)
    BY DEF NickInv
  <2>3. IdsVouched(v)'
    BY <2>1, <2>2 DEF UserOK, IdsVouched
  <2>4. ASSUME user[v].snid # 0, "sset" \notin features
        PROVE  user'[v].auth = nickserv'[nick[v]].auth
    <3>1. nick[v] \in Names /\ user[v].auth = nickserv[nick[v]].auth
      BY <2>4, HolderFacts
    <3>2. v = u \/ nick[v] # n
      BY <1>1, <1>4, <2>4 DEF NickInv, Alone
    <3>3. QED
      BY <1>4, <1>5, <1>8, <1>9, <2>1, <2>4, <3>1, <3>2
  <2>5. Holds(v)'
    <3>1. ASSUME user[v].snid # 0
          PROVE  /\ nick[v] \in Names /\ nickserv'[nick[v]].online
                 /\ nickserv'[nick[v]].snid = user[v].snid
      BY <1>8, <3>1, HolderFacts
    <3>2. features' = features
      BY <1>7
    <3>3. QED
      BY <2>1, <2>4, <3>1, <3>2 DEF Holds, RecordOf
  <2>6. Timed(v)'
    BY <1>8, <1>10, <2>1, <2>2 DEF UserOK, Timed, Claimed, RecordOf
  <2>7. QED
    BY <2>3, <2>5, <2>6 DEF UserOK
<1>12. IdsUnique' /\ next_snid' \in 1..MaxSnid + 1
  BY <1>7, <1>8, SameIdsOK
<1>13. QED
  BY <1>1, <1>3, <1>6, <1>7, <1>8, <1>9, <1>11, <1>12, StaysOK DEF Online

(* Steps that change what a record says besides its id, its suspension,    *)
(* its authentication and its status.                                      *)
LEMMA SetProtectedOK ==
  ASSUME NickInv, NEW u \in Users, NEW n \in Names, NEW b \in BOOLEAN,
         SetProtected(u, n, b)
  PROVE  NickInv'
<1>1. TypeOK /\ nickserv \in [Names -> Record]
  BY DEF NickInv, TypeOK
<1>2. /\ nickserv' = [nickserv EXCEPT ![n].protected = b]
      /\ UNCHANGED <<where, nick, identified, user, next_snid, features, sent,
                     vouched>>
  BY DEF SetProtected
<1>3. /\ nickserv' \in [Names -> Record]
      /\ \A m \in Names : /\ nickserv'[m].snid = nickserv[m].snid
                          /\ nickserv'[m].suspended = nickserv[m].suspended
                          /\ nickserv'[m].auth = nickserv[m].auth
                          /\ nickserv'[m].online = nickserv[m].online
  BY <1>1, <1>2 DEF Record
<1>4. <<>> \in Seq(Request) /\ Send(<<>>)
  BY <1>1, <1>2, SendNone
<1>5. \A v \in Online : UserOK(v)'
  BY <1>2, <1>3, <1>4, StayOthersOK
<1>6. IdsUnique' /\ next_snid' \in 1..MaxSnid + 1
  BY <1>2, <1>3, SameIdsOK
<1>7. QED
  BY <1>1, <1>2, <1>3, <1>4, <1>5, <1>6, StaysOK DEF TypeOK

LEMMA SetPasswordOK ==
  ASSUME NickInv, NEW u \in Users, SetPassword(u)
  PROVE  NickInv'
<1> DEFINE reqs == PlusR(nick[u], user[u].auth)
<1>1. TypeOK /\ u \in Online
  BY DEF NickInv, SetPassword
<1>2. /\ Send(reqs)
      /\ UNCHANGED <<where, nick, identified, user, nickserv, next_snid,
                     features, vouched>>
  BY DEF SetPassword
<1>3. reqs \in Seq(Request)
  BY <1>1, NickIsNick, PlusRFacts
<1> HIDE DEF reqs
<1>4. \A v \in Online : UserOK(v)'
  BY <1>2, <1>3, StayOthersOK
<1>5. IdsUnique' /\ next_snid' \in 1..MaxSnid + 1
  BY <1>2, SameIdsOK
<1>6. QED
  BY <1>1, <1>2, <1>3, <1>4, <1>5, StaysOK DEF TypeOK

(* The row of a nick is deleted: its bearer, if it was identified, is no   *)
(* longer; nobody else had the id.                                         *)
LEMMA DeleteOK ==
  ASSUME NickInv, NEW n \in Names, nickserv[n].snid # 0,
         nickserv' = Deleted(nickserv, nickserv[n].snid),
         user' \in [Users -> Struct],
         \A v \in Users \ IdentifiedBearers(n) : user'[v] = user[v],
         \A v \in IdentifiedBearers(n) :
           /\ user'[v].snid = 0
           /\ user'[v].use_snid = user[v].use_snid
           /\ user'[v].req_snid = user[v].req_snid,
         NEW reqs \in Seq(Request), Send(reqs),
         UNCHANGED <<where, nick, identified, next_snid, features, vouched>>
  PROVE  NickInv'
<1>1. TypeOK /\ nickserv \in [Names -> Record]
  BY DEF NickInv, TypeOK
<1>2. nickserv[n].snid \in 1..MaxSnid
  BY <1>1, NickServAssumption DEF Record, Snid
<1>3. /\ IdsUnique' /\ next_snid' \in 1..MaxSnid + 1
      /\ nickserv' \in [Names -> Record]
  BY <1>2, DeletedIdsOK
<1>4. nickserv'[n].snid = 0 /\ \A m \in Names \ {n} : nickserv'[m] = nickserv[m]
  <2>1. \A m \in Names \ {n} : nickserv[m].snid # nickserv[n].snid
    BY DEF NickInv, IdsUnique
  <2>2. \A m \in Names : nickserv'[m] = IF nickserv[m].snid = nickserv[n].snid
                                        THEN NoRecord ELSE nickserv[m]
    BY <1>1, DeletedFacts
  <2>3. QED
    BY <2>1, <2>2 DEF NoRecord
<1>5. ASSUME NEW v \in Online, nick[v] = n PROVE UserOK(v)'
  <2>1. v \in Users /\ nick'[v] = n /\ vouched'[v] = vouched[v]
    BY <1>5 DEF Online
  <2>2. /\ user'[v].snid = 0
        /\ user'[v].use_snid = user[v].use_snid
        /\ user'[v].req_snid = user[v].req_snid
    BY <1>5, <2>1 DEF IdentifiedBearers, Bearers
  <2>3. UserOK(v)
    BY DEF NickInv
  <2>4. IdsVouched(v)'
    BY <2>1, <2>2, <2>3 DEF UserOK, IdsVouched
  <2>5. Holds(v)'
    BY <2>2 DEF Holds
  <2>6. Timed(v)'
    BY <1>4, <2>1 DEF Timed, RecordOf
  <2>7. QED
    BY <2>4, <2>5, <2>6 DEF UserOK
<1>6. ASSUME NEW v \in Online, nick[v] # n PROVE UserOK(v)'
  <2>1. user'[v] = user[v]
    BY <1>6 DEF IdentifiedBearers, Bearers, Online
  <2>2. nick[v] \in Names => nickserv'[nick[v]] = nickserv[nick[v]]
    BY <1>4, <1>6
  <2>3. QED
    BY <2>1, <2>2, StayOthersOK
<1>7. \A v \in Users \ Online : user'[v] = user[v]
  BY DEF IdentifiedBearers, Bearers
<1>8. vouched' \in [Users -> SUBSET (1..MaxSnid)]
  BY <1>1 DEF TypeOK
<1>9. QED
  BY <1>3, <1>5, <1>6, <1>7, <1>8, StaysOK

(* A user that is identified for the nick it drops bears it, alone.        *)
LEMMA DropOK ==
  ASSUME NickInv, NEW u \in Users, Drop(u)
  PROVE  NickInv'
<1> DEFINE n == nick[u]
           reqs == <<Mode("-r", n)>>
<1>1. TypeOK /\ u \in Online /\ user[u].snid # 0
  BY DEF NickInv, Drop
<1>2. n \in Names /\ n \in Nicks /\ nickserv[n].snid = user[u].snid
  BY <1>1, HolderFacts
<1>3. reqs \in Seq(Request)
  BY <1>2, GuestSeq
<1>4. /\ nickserv' = Deleted(nickserv, nickserv[n].snid)
      /\ user' = [user EXCEPT ![u] = OfflineStruct(@)]
      /\ Send(reqs)
      /\ UNCHANGED <<where, nick, identified, next_snid, features, vouched>>
  BY <1>2 DEF Drop
<1>5. IdentifiedBearers(n) = {u}
  BY <1>1 DEF IdentifiedBearers, Bearers, NickInv, Alone
<1>6. user \in [Users -> Struct] /\ OfflineStruct(user[u]) \in Struct
  BY <1>1, StructFacts DEF TypeOK
<1>7. /\ user' \in [Users -> Struct] /\ user'[u] = OfflineStruct(user[u])
      /\ \A v \in Users \ {u} : user'[v] = user[v]
  BY <1>4, <1>6
<1>8. /\ OfflineStruct(user[u]).snid = 0
      /\ OfflineStruct(user[u]).use_snid = user[u].use_snid
      /\ OfflineStruct(user[u]).req_snid = user[u].req_snid
  BY <1>6 DEF OfflineStruct, Struct
<1> HIDE DEF n, reqs
<1>9. QED
  BY <1>1, <1>2, <1>3, <1>4, <1>5, <1>7, <1>8, DeleteOK

LEMMA NoticeSeq ==
  ASSUME NickInv, NEW n \in Names, NEW who
  PROVE  /\ (IF who = {} THEN <<>> ELSE <<Mode("-r", n)>>) \in Seq(Request)
         /\ (IF who = {} THEN <<>> ELSE <<Guest(n)>>) \in Seq(Request)
BY GuestSeq DEF Nicks

LEMMA SdropOK ==
  ASSUME NickInv, NEW n \in Names, Sdrop(n)
  PROVE  NickInv'
<1> DEFINE reqs == IF IdentifiedBearers(n) = {} THEN <<>> ELSE <<Mode("-r", n)>>
<1>1. user \in [Users -> Struct]
  BY DEF NickInv, TypeOK
<1>2. reqs \in Seq(Request)
  BY NoticeSeq
<1>3. /\ nickserv[n].snid # 0
      /\ nickserv' = Deleted(nickserv, nickserv[n].snid)
      /\ user' = [u \in Users |-> IF u \in IdentifiedBearers(n)
                                  THEN OfflineStruct(user[u]) ELSE user[u]]
      /\ Send(reqs)
      /\ UNCHANGED <<where, nick, identified, next_snid, features, vouched>>
  BY DEF Sdrop
<1>4. IdentifiedBearers(n) \subseteq Users
  BY DEF IdentifiedBearers, Bearers, Online
<1>5. \A s \in Struct : /\ OfflineStruct(s) \in Struct
                        /\ OfflineStruct(s).snid = 0
                        /\ OfflineStruct(s).use_snid = s.use_snid
                        /\ OfflineStruct(s).req_snid = s.req_snid
  BY StructFacts DEF OfflineStruct, Struct
<1>6. /\ user' \in [Users -> Struct]
      /\ \A v \in Users \ IdentifiedBearers(n) : user'[v] = user[v]
      /\ \A v \in IdentifiedBearers(n) :
           /\ user'[v].snid = 0
           /\ user'[v].use_snid = user[v].use_snid
           /\ user'[v].req_snid = user[v].req_snid
  BY <1>1, <1>3, <1>4, <1>5
<1> HIDE DEF reqs
<1>7. QED
  BY <1>2, <1>3, <1>6, DeleteOK

LEMMA ExpireOK ==
  ASSUME NickInv, NEW n \in Names, Expire(n)
  PROVE  NickInv'
<1> DEFINE reqs == IF IdentifiedBearers(n) = {} THEN <<>> ELSE <<Mode("-r", n)>>
           cleared(s) == [s EXCEPT !.snid = 0]
<1>1. user \in [Users -> Struct]
  BY DEF NickInv, TypeOK
<1>2. reqs \in Seq(Request)
  BY NoticeSeq
<1>3. /\ nickserv[n].snid # 0
      /\ nickserv' = Deleted(nickserv, nickserv[n].snid)
      /\ user' = [u \in Users |-> IF u \in IdentifiedBearers(n)
                                  THEN cleared(user[u]) ELSE user[u]]
      /\ Send(reqs)
      /\ UNCHANGED <<where, nick, identified, next_snid, features, vouched>>
  BY DEF Expire, MayExpire
<1>4. IdentifiedBearers(n) \subseteq Users
  BY DEF IdentifiedBearers, Bearers, Online
<1>5. \A s \in Struct : /\ cleared(s) \in Struct
                        /\ cleared(s).snid = 0
                        /\ cleared(s).use_snid = s.use_snid
                        /\ cleared(s).req_snid = s.req_snid
  BY NickServAssumption DEF Struct, Snid
<1> HIDE DEF reqs, cleared
<1>6. /\ user' \in [Users -> Struct]
      /\ \A v \in Users \ IdentifiedBearers(n) : user'[v] = user[v]
      /\ \A v \in IdentifiedBearers(n) :
           /\ user'[v].snid = 0
           /\ user'[v].use_snid = user[v].use_snid
           /\ user'[v].req_snid = user[v].req_snid
  BY <1>1, <1>3, <1>4, <1>5
<1>7. QED
  BY <1>2, <1>3, <1>6, DeleteOK

(* A suspension evicts the bearer, identified or not: the request that     *)
(* makes it a guest is under way.                                          *)
LEMMA SuspendOK ==
  ASSUME NickInv, NEW n \in Names, Suspend(n)
  PROVE  NickInv'
<1> DEFINE reqs == IF Evicted(n) = {} THEN <<>> ELSE <<Guest(n)>>
<1>1. TypeOK /\ nickserv \in [Names -> Record] /\ sent \in Seq(Request)
  BY DEF NickInv, TypeOK
<1>2. reqs \in Seq(Request)
  BY NoticeSeq
<1>3. /\ nickserv' = [nickserv EXCEPT ![n].suspended = TRUE]
      /\ Send(reqs)
      /\ UNCHANGED <<where, nick, identified, user, next_snid, features, vouched>>
  BY DEF Suspend, SetSuspended
<1>4. /\ nickserv' \in [Names -> Record]
      /\ \A m \in Names : /\ nickserv'[m].snid = nickserv[m].snid
                          /\ nickserv'[m].auth = nickserv[m].auth
                          /\ nickserv'[m].online = nickserv[m].online
      /\ \A m \in Names \ {n} : nickserv'[m].suspended = nickserv[m].suspended
  BY <1>1, <1>3 DEF Record
<1>5. ASSUME NEW v \in Online, nick[v] = n PROVE UserOK(v)'
  <2>1. UserOK(v) /\ v \in Users
    BY DEF NickInv, Online
  <2>2. reqs = <<Guest(n)>>
    BY <1>5 DEF Evicted, Bearers
  <2>3. Guest(n) \in Request
    BY RequestFacts DEF Nicks
  <2>4. IsUnderWay(Guest(n))'
    <3>1. sent' = sent \o <<Guest(n)>>
      BY <1>1, <1>2, <1>3, <2>2, SendFacts DEF Send
    <3>2. QED
      BY <1>1, <2>3, <3>1, AppendAdds DEF IsUnderWay
  <2>5. IdsVouched(v)'
    BY <1>3, <2>1 DEF UserOK, IdsVouched
  <2>6. Holds(v)'
    BY <1>3, <1>4, <1>5, <2>1 DEF UserOK, Holds, RecordOf
  <2>7. Timed(v)'
    BY <1>3, <1>5, <2>4 DEF Timed
  <2>8. QED
    BY <2>5, <2>6, <2>7 DEF UserOK
<1> HIDE DEF reqs
<1>6. ASSUME NEW v \in Online, nick[v] # n PROVE UserOK(v)'
  BY <1>2, <1>3, <1>4, <1>6, StayOthersOK
<1>7. IdsUnique' /\ next_snid' \in 1..MaxSnid + 1
  BY <1>3, <1>4, SameIdsOK
<1>8. QED
  BY <1>1, <1>2, <1>3, <1>4, <1>5, <1>6, <1>7, StaysOK DEF TypeOK

(* Whoever is not identified for the nick was already due to lose it.      *)
LEMMA UnsuspendOK ==
  ASSUME NickInv, NEW n \in Names, Unsuspend(n)
  PROVE  NickInv'
<1>1. TypeOK /\ nickserv \in [Names -> Record]
  BY DEF NickInv, TypeOK
<1>2. /\ nickserv' = [nickserv EXCEPT ![n].suspended = FALSE]
      /\ UNCHANGED <<where, nick, identified, user, next_snid, features, sent,
                     vouched>>
  BY DEF Unsuspend, SetSuspended
<1>3. /\ nickserv' \in [Names -> Record]
      /\ \A m \in Names : /\ nickserv'[m].snid = nickserv[m].snid
                          /\ nickserv'[m].auth = nickserv[m].auth
                          /\ nickserv'[m].online = nickserv[m].online
      /\ \A m \in Names \ {n} : nickserv'[m].suspended = nickserv[m].suspended
  BY <1>1, <1>2 DEF Record
<1>4. <<>> \in Seq(Request) /\ Send(<<>>)
  BY <1>1, <1>2, SendNone
<1>5. ASSUME NEW v \in Online, nick[v] = n PROVE UserOK(v)'
  <2>1. UserOK(v) /\ nickserv[n].suspended
    BY DEF NickInv, Unsuspend
  <2>2. IsUnderWay(Guest(n)) => IsUnderWay(Guest(n))'
    BY <1>2 DEF IsUnderWay
  <2>3. IdsVouched(v)'
    BY <1>2, <2>1 DEF UserOK, IdsVouched
  <2>4. Holds(v)'
    BY <1>2, <1>3, <1>5, <2>1 DEF UserOK, Holds, RecordOf
  <2>5. Timed(v)'
    BY <1>2, <1>3, <1>5, <2>1, <2>2 DEF UserOK, Timed, Claimed, RecordOf
  <2>6. QED
    BY <2>3, <2>4, <2>5 DEF UserOK
<1>6. ASSUME NEW v \in Online, nick[v] # n PROVE UserOK(v)'
  BY <1>2, <1>3, <1>4, <1>6, StayOthersOK
<1>7. IdsUnique' /\ next_snid' \in 1..MaxSnid + 1
  BY <1>2, <1>3, SameIdsOK
<1>8. QED
  BY <1>1, <1>2, <1>3, <1>4, <1>5, <1>6, <1>7, StaysOK DEF TypeOK

-----------------------------------------------------------------------------
(* The specification                                                       *)

LEMMA InitOK == Init => NickInv
<1> SUFFICES ASSUME Init PROVE NickInv
  OBVIOUS
<1>1. Online = {}
  BY DEF Init, Online
<1>2. NoRecord \in Record /\ NoRecord.snid = 0 /\ 0 < 1
  BY NickServAssumption DEF NoRecord, Record, Snid
<1>3. 1 \in 1..MaxSnid + 1 /\ <<>> \in Seq(Request) /\ Len(<<>>) <= MaxSent
  BY NickServAssumption
<1>4. TypeOK
  BY <1>2, <1>3, StructFacts DEF Init, TypeOK
<1>5. IdsUnique
  BY <1>2 DEF Init, IdsUnique
<1>6. QED
  BY <1>1, <1>4, <1>5 DEF NickInv, Alone

LEMMA StutterOK ==
  ASSUME NickInv, UNCHANGED vars
  PROVE  NickInv'
<1>1. TypeOK' /\ Alone' /\ IdsUnique' /\ Online' = Online
  BY DEF NickInv, vars, TypeOK, Alone, IdsUnique, Online
<1>2. ASSUME NEW v \in Online PROVE UserOK(v)'
  <2>1. UserOK(v)
    BY DEF NickInv
  <2>2. IdsVouched(v)' /\ Holds(v)' /\ Timed(v)'
    BY <2>1 DEF vars, UserOK, IdsVouched, Holds, Timed, Claimed, IsUnderWay
  <2>3. QED
    BY <2>2 DEF UserOK
<1>3. QED
  BY <1>1, <1>2 DEF NickInv

LEMMA StepOK == NickInv /\ [Next]_vars => NickInv'
<1> SUFFICES ASSUME NickInv, [Next]_vars PROVE NickInv'
  OBVIOUS
<1>1. ASSUME NEW u \in Users, NEW n \in Names \union {u},
             Connect(u, n) \/ UserNick(u, n)
      PROVE  NickInv'
  BY <1>1, ConnectOK, UserNickOK
<1>2. ASSUME NEW u \in Users, Rejoin(u) \/ TimerNotIdentified(u)
      PROVE  NickInv'
  BY <1>2, RejoinOK, TimerOK
<1>3. ASSUME NEW u \in Users,
             UserLeaves(u) \/ SplitUserLeaves(u) \/ ServerLeaves(u)
      PROVE  NickInv'
  <2>1. ASSUME UserLeaves(u) PROVE NickInv'
    BY <2>1, LeavesOK DEF UserLeaves
  <2>2. QED
    BY <1>3, <2>1, SplitUserLeavesOK, ServerLeavesOK
<1>4. ASSUME NEW u \in Users, NEW right \in BOOLEAN, Identify(u, right)
      PROVE  NickInv'
  BY <1>4, IdentifyOK
<1>5. ASSUME NEW u \in Users, NEW right \in BOOLEAN, NEW n \in Names,
             Login(u, n, right)
      PROVE  NickInv'
  BY <1>5, LoginOK
<1>6. ASSUME NEW u \in Users,
             Register(u) \/ Auth(u) \/ SetPassword(u) \/ Drop(u)
      PROVE  NickInv'
  BY <1>6, RegisterOK, AuthOK, SetPasswordOK, DropOK
<1>7. ASSUME NEW u \in Users, NEW n \in Names, SetEmail(u, n)
      PROVE  NickInv'
  BY <1>7, SetEmailOK
<1>8. ASSUME NEW u \in Users, NEW n \in Names, NEW b \in BOOLEAN,
             SetProtected(u, n, b)
      PROVE  NickInv'
  BY <1>8, SetProtectedOK
<1>9. ASSUME NEW n \in Names,
             Sdrop(n) \/ Expire(n) \/ Suspend(n) \/ Unsuspend(n)
      PROVE  NickInv'
  BY <1>9, SdropOK, ExpireOK, SuspendOK, UnsuspendOK
<1>10. CASE Deliver
  BY <1>10, DeliverOK
<1>11. CASE Restart
  BY <1>11, RestartOK
<1>12. CASE UNCHANGED vars
  BY <1>12, StutterOK
<1>13. QED
  BY <1>1, <1>2, <1>3, <1>4, <1>5, <1>6, <1>7, <1>8, <1>9, <1>10, <1>11, <1>12
  DEF Next

(* The inductive invariant of NickServ: users that services know bear      *)
(* different nicks, ids are handed out once, and each user's struct, its   *)
(* record and what the network is asked to do agree (nickserv.c, ns_*.c).  *)
THEOREM NickInvariant == Spec => []NickInv
<1>1. QED
  BY InitOK, StepOK, PTL DEF Spec

(* Structs, records and requests keep their types, and only users that     *)
(* services know have a struct with anything in it (irc_Malloc, m_quit).   *)
THEOREM NickTyped == Spec => []TypeOK
<1>1. NickInv => TypeOK
  BY DEF NickInv
<1>2. QED
  BY <1>1, NickInvariant, PTL

(* Who services take for identified bears the nick of the record and has   *)
(* given its password, registered it or come with +r (u->snid).            *)
THEOREM HolderAlwaysOwnsNick == Spec => []HolderOwnsNick
<1>1. NickInv => HolderOwnsNick
  BY DEF NickInv, UserOK, Holds, IdsVouched, HolderOwnsNick
<1>2. QED
  BY <1>1, NickInvariant, PTL

(* ev_ns_expire never finds the record of an identified user offline.      *)
THEOREM HeldAlwaysOnline == Spec => []HeldIsOnline
<1>1. NickInv => HeldIsOnline
  BY DEF NickInv, UserOK, Holds, HeldIsOnline
<1>2. QED
  BY <1>1, NickInvariant, PTL

(* Whoever bears a registered nick without a right to it has a timer       *)
(* (timer_ns_not_identifed) or is about to be made a guest.                *)
THEOREM StrangerAlwaysTimed == Spec => []StrangerIsTimed
<1>1. NickInv => StrangerIsTimed
  BY DEF NickInv, UserOK, Timed, RecordOf, StrangerIsTimed
<1>2. QED
  BY <1>1, NickInvariant, PTL

(* NFL_AUTHENTIC of an identified user is that of its record, unless       *)
(* administrators set options of others (ns_sset).                         *)
THEOREM AuthAlwaysFollows == Spec => []AuthFollowsRecord
<1>1. NickInv => AuthFollowsRecord
  BY DEF NickInv, UserOK, Holds, AuthFollowsRecord
<1>2. QED
  BY <1>1, NickInvariant, PTL

=============================================================================
