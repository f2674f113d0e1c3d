-------------------------------- MODULE Memos --------------------------------
(***************************************************************************)
(* MemoServ (modules/memoserv.c, ms_send.c, ms_read.c, ms_save.c,          *)
(* ms_del.c, ms_cancel.c, ms_set.c): the tables memoserv and               *)
(* memoserv_options. Nothing is kept in memory; a memo is known to its     *)
(* owner by an id that is counted up from the highest there is.            *)
(*                                                                         *)
(* Left out: texts, listings, notices of new memos and their mails, and    *)
(* the bits FLAG_SET changes in the flags of the user.                     *)
(***************************************************************************)
EXTENDS Nicks

CONSTANTS
  MaxMemos,        \* MaxMemosPerUser
  Limits,          \* values of SSET MAXMEMOS
  DefaultOptions,  \* subset of MemoOptions, {"notify"} if not set
  ExpireTime,      \* of memos, 0 for never
  Owners,          \* bound: the nicks that memos are sent to
  MaxId            \* bound: the highest memo id

MemoOptions == {"autosave", "nomemos", "notify", "forward"}

ASSUME MemosAssumption ==
  /\ MaxMemos \in Nat /\ Limits \subseteq Nat /\ MaxId \in Nat
  /\ DefaultOptions \subseteq MemoOptions
  /\ ExpireTime \in Nat /\ Owners \subseteq Nicks

VARIABLES
  memoserv,          \* rows [owner, id, sender, flags, t_send]
  memoserv_options   \* the row of a nick, or NoOptions

memovars == <<memoserv, memoserv_options>>

NoOptions == [maxmemos |-> -1, flags |-> {}]

MemoFlags == {"unread", "saved"}

MemosTypeOK ==
  /\ memoserv \subseteq [owner : Nicks, id : 1..MaxId, sender : Nicks \union {NONE},
                         flags : SUBSET MemoFlags, t_send : Nat]
  /\ memoserv_options \in [Nicks -> [maxmemos : Nat \union {-1}, flags : SUBSET MemoOptions]]
  \* the keys
  /\ \A m, q \in memoserv : m.owner = q.owner /\ m.id = q.id => m = q
  /\ \A m \in memoserv : m.owner \in registered /\ m.sender \in registered \union {NONE}
  /\ \A n \in Nicks : memoserv_options[n] # NoOptions => n \in registered

MemosInit ==
  /\ memoserv = {}
  /\ memoserv_options = [n \in Nicks |-> NoOptions]

MemosOf(n) == {m \in memoserv : m.owner = n}

memos_count(n) == Cardinality(MemosOf(n))

-----------------------------------------------------------------------------
(* memoserv_get_options: the defaults are stored when there is no row.     *)
OptionsOf(n) ==
  IF memoserv_options[n] = NoOptions
  THEN [maxmemos |-> MaxMemos, flags |-> DefaultOptions]
  ELSE memoserv_options[n]

OptionsStored(n) == [memoserv_options EXCEPT ![n] = OptionsOf(n)]

(* insert_memo: MAX(id) + 1                                                *)
CountedId(n) == memos_count(n) + 1

NextId(n) ==
  IF MemosOf(n) = {} THEN 1
  ELSE (CHOOSE m \in MemosOf(n) : \A q \in MemosOf(n) : q.id <= m.id).id + 1

(* ms_send saves the memo when any option is set: flags && MOFL_AUTOSAVE.  *)
NewFlags(flags) == {"unread"} \union (IF flags # {} THEN {"saved"} ELSE {})

Send(s, n) ==
  /\ Identified(s) /\ HasSnid(n)
  /\ memoserv_options' = OptionsStored(n)
  /\ IF "nomemos" \in OptionsOf(n).flags
        \/ memos_count(n) >= OptionsOf(n).maxmemos
     THEN UNCHANGED memoserv
     ELSE /\ NextId(n) <= MaxId
          /\ memoserv' = memoserv \union
               {[owner |-> n, id |-> NextId(n), sender |-> s,
                 flags |-> NewFlags(OptionsOf(n).flags), t_send |-> irc_CurrentTime]}

(* ms_read of one memo, or of all *)
Read(s, ids) ==
  /\ Identified(s)
  /\ memoserv' = {IF m.owner = s /\ m.id \in ids
                  THEN [m EXCEPT !.flags = @ \ {"unread"}] ELSE m : m \in memoserv}
  /\ UNCHANGED memoserv_options

Save(s, id) ==
  /\ Identified(s)
  /\ \E m \in MemosOf(s) : m.id = id
  /\ memoserv' = {IF m.owner = s /\ m.id = id
                  THEN [m EXCEPT !.flags = @ \union {"saved"}] ELSE m : m \in memoserv}
  /\ UNCHANGED memoserv_options

(* ms_del of one memo, or of all *)
Del(s, ids) ==
  /\ Identified(s)
  /\ memoserv' = {m \in memoserv : ~(m.owner = s /\ m.id \in ids)}
  /\ UNCHANGED memoserv_options

Cancel(s, n) ==
  /\ Identified(s) /\ HasSnid(n)
  /\ memoserv' = {m \in memoserv : ~(m.owner = n /\ m.sender = s /\ "unread" \in m.flags)}
  /\ UNCHANGED memoserv_options

(* FLAG_SET *)
SetOption(n, option, on) ==
  /\ Identified(n)
  /\ memoserv_options' =
       [memoserv_options EXCEPT ![n] =
          [OptionsOf(n) EXCEPT !.flags = IF on THEN @ \union {option} ELSE @ \ {option}]]
  /\ UNCHANGED memoserv

(* SSET MAXMEMOS, by an administrator *)
SsetMaxMemos(n, limit) ==
  /\ HasSnid(n)
  /\ memoserv_options' = [memoserv_options EXCEPT ![n] = [OptionsOf(n) EXCEPT !.maxmemos = limit]]
  /\ UNCHANGED memoserv

(* ev_ms_expire *)
MayExpire(m) == "saved" \notin m.flags /\ m.t_send < irc_CurrentTime - ExpireTime

MemosExpire ==
  /\ ExpireTime # 0
  /\ memoserv' = {m \in memoserv : ~MayExpire(m)}
  /\ UNCHANGED memoserv_options

(* The foreign keys: CASCADE for the owner, SET NULL for the sender.       *)
MemosNickDropped(n) ==
  /\ memoserv' = {IF m.sender = n THEN [m EXCEPT !.sender = NONE] ELSE m :
                    m \in {q \in memoserv : q.owner # n}}
  /\ memoserv_options' = [memoserv_options EXCEPT ![n] = NoOptions]

MemosNext ==
  \/ \E s \in Nicks, n \in Owners : Send(s, n) \/ Cancel(s, n)
  \/ \E s \in Owners :
       \/ \E ids \in {1..MaxId} \union {{i} : i \in 1..MaxId} : Read(s, ids) \/ Del(s, ids)
       \/ \E id \in 1..MaxId : Save(s, id)
       \/ \E option \in {"autosave", "nomemos"}, on \in BOOLEAN : SetOption(s, option, on)
       \/ \E limit \in Limits : SsetMaxMemos(s, limit)

=============================================================================
