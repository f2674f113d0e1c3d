-------------------------------- MODULE DBMem --------------------------------
(***************************************************************************)
(* DBMem (src/mysql.c): a MySQL table with a copy of its rows in memory,   *)
(* kept by os_uevent.c and sessionlimit.c. The callers look rows up in     *)
(* memory only; every change is first executed on the table and is made in *)
(* memory when the statement reports affected rows.                        *)
(*                                                                         *)
(* A sequence stands for data[0 .. row_count-1]. Every caller finds a row  *)
(* in the same call that uses row_curr, so the cursor is not kept. Keys    *)
(* are compared without case by strcasecmp and by the table alike, a key   *)
(* here is a name up to case.                                              *)
(*                                                                         *)
(* The loops of dbmem_load and dbmem_expire take one step per row; nothing *)
(* else runs until they are done.                                          *)
(***************************************************************************)
EXTENDS Integers, Sequences, FiniteSets

CONSTANTS
  Keys,         \* values of the key column
  Owners,       \* owner_snid of the exceptions
  Values,       \* what the other columns tell apart (a limit, an event type)
  NONE,
  alloc_units,  \* second argument of dbmem_init
  Duration,     \* of the rows that expire
  MaxNow        \* bound: the clock stops here

ASSUME DBMemAssumption ==
  /\ NONE \notin Owners
  /\ alloc_units \in Nat \ {0}
  /\ Duration \in Nat \ {0} /\ MaxNow \in Nat

VARIABLES
  table,           \* the rows of the table
  data,            \* the rows in memory
  row_max,         \* allocated length of data
  loading,         \* dbmem_load: the rows still to fetch, {} when it is done
  scan,            \* dbmem_expire: its position i, 0 when it does not run
  irc_CurrentTime

dbmem == <<table, data, row_max, loading, scan>>

dbvars == <<table, data, row_max, loading, scan, irc_CurrentTime>>

(* expires is t_when + duration, 0 for a row that never does.              *)
Row == [key : Keys, owner : Owners \union {NONE}, value : Values, expires : Nat]

Rows(s) == {s[i] : i \in 1..Len(s)}

KeysOf(R) == {r.key : r \in R}

(* The primary key of the table *)
UniqueKeys(R) == \A r, q \in R : r.key = q.key => r = q

TypeOK ==
  /\ table \subseteq Row /\ UniqueKeys(table)
  /\ data \in Seq(Row)
  /\ row_max \in Nat
  /\ loading \subseteq Row
  /\ scan \in Nat
  /\ irc_CurrentTime \in Nat

(* The module that owns the table is free to run a command or handler. *)
Ready == loading = {} /\ scan = 0

(* The database holds any rows when the module is loaded. *)
InitialRows ==
  {R \in SUBSET [key : Keys, owner : Owners \union {NONE}, value : Values,
                 expires : {0}] : UniqueKeys(R)}

Init ==
  /\ table \in InitialRows
  /\ data = <<>>
  /\ row_max = alloc_units
  /\ loading = table
  /\ scan = 0
  /\ irc_CurrentTime = 1

-----------------------------------------------------------------------------
(* dbmem_load: when data is full, it grows, and count starts over from     *)
(* dbm->row_count, which is set only at the end.                           *)
StoreRow(s, r) == IF Len(s) >= row_max THEN <<r>> ELSE Append(s, r)

Grown(s) == IF Len(s) >= row_max THEN row_max + alloc_units ELSE row_max

Load ==
  \E r \in loading :
    /\ data' = StoreRow(data, r)
    /\ row_max' = Grown(data)
    /\ loading' = loading \ {r}
    /\ UNCHANGED <<table, scan, irc_CurrentTime>>

(* dbmem_insert, after the caller has found no row with the key (an id of  *)
(* auto_increment is always new). The INSERT fails on a duplicate key.     *)
KeyTaken(k, R) == k \in KeysOf(R)

Insert(r) ==
  /\ Ready
  /\ ~KeyTaken(r.key, Rows(data))
  /\ row_max' = Grown(data)
  /\ IF KeyTaken(r.key, table)
     THEN UNCHANGED <<table, data>>
     ELSE /\ table' = table \union {r}
          /\ data' = Append(data, r)
  /\ UNCHANGED <<loading, scan, irc_CurrentTime>>

(* dbmem_find_exact on the key column, 0 for NULL *)
Found(k) ==
  IF k \in KeysOf(Rows(data))
  THEN CHOOSE i \in 1..Len(data) :
         data[i].key = k /\ \A j \in 1..i-1 : data[j].key # k
  ELSE 0

(* Removal of data[i]: the last row takes its place. *)
NotSwapped(s, i) == SubSeq(s, 1, Len(s) - 1)

WithoutRow(s, i) == [j \in 1..Len(s)-1 |-> IF j = i THEN s[Len(s)] ELSE s[j]]

(* DELETE FROM table WHERE key: no affected rows is an error. *)
RowsInTable(k) == {r \in table : r.key = k}

(* dbmem_find_exact, dbmem_delete_current *)
Delete(k) ==
  /\ Ready
  /\ Found(k) # 0
  /\ RowsInTable(k) # {}
  /\ table' = table \ RowsInTable(k)
  /\ data' = WithoutRow(data, Found(k))
  /\ UNCHANGED <<row_max, loading, scan, irc_CurrentTime>>

(* dbmem_replace_key of the row found for k; the caller has made sure that *)
(* no row in memory has the new key.                                       *)
Rekeyed(k, new) == {[r EXCEPT !.key = new] : r \in RowsInTable(k)}

ReplaceKey(k, new) ==
  /\ Ready
  /\ Found(k) # 0 /\ Found(new) = 0
  /\ RowsInTable(k) # {} /\ RowsInTable(new) = {}
  /\ table' = (table \ RowsInTable(k)) \union Rekeyed(k, new)
  /\ data' = [data EXCEPT ![Found(k)].key = new]
  /\ UNCHANGED <<row_max, loading, scan, irc_CurrentTime>>

Expired(r) == r.expires # 0 /\ r.expires < irc_CurrentTime

(* dbmem_expire: start the loop *)
ExpireStart ==
  /\ Ready
  /\ scan' = 1
  /\ UNCHANGED <<table, data, row_max, loading, irc_CurrentTime>>

(* One turn of the loop at data[i]. The row that takes the place of an     *)
(* expired one is not looked at in this pass; the first row that the table *)
(* does not have ends the pass (return -1).                                *)
KeptForEver(r) == FALSE

ExpiresNow(r) == Expired(r)

ExpireStep ==
  /\ scan # 0
  /\ \/ /\ scan > Len(data)
        /\ scan' = 0
        /\ UNCHANGED <<table, data>>
     \/ /\ scan <= Len(data)
        /\ ~ExpiresNow(data[scan])
        /\ scan' = scan + 1
        /\ UNCHANGED <<table, data>>
     \/ /\ scan <= Len(data)
        /\ ExpiresNow(data[scan])
        /\ RowsInTable(data[scan].key) # {}
        /\ table' = table \ RowsInTable(data[scan].key)
        /\ data' = WithoutRow(data, scan)
        /\ scan' = scan + 1
     \/ /\ scan <= Len(data)
        /\ ExpiresNow(data[scan])
        /\ RowsInTable(data[scan].key) = {}
        /\ scan' = 0
        /\ UNCHANGED <<table, data>>
  /\ UNCHANGED <<row_max, loading, irc_CurrentTime>>

(* The foreign key of session_exceptions (sessionlimit.sql): when a nick   *)
(* is deleted from nickserv, its rows go, in the table only.               *)
OwnerDropped(o) ==
  /\ Ready
  /\ \E r \in table : r.owner = o
  /\ table' = {r \in table : r.owner # o}
  /\ UNCHANGED <<data, row_max, loading, scan, irc_CurrentTime>>

(* The module is unloaded and loaded again, or services restart. *)
Reload ==
  /\ Ready
  /\ data' = <<>>
  /\ row_max' = alloc_units
  /\ loading' = table
  /\ UNCHANGED <<table, scan, irc_CurrentTime>>

Tick ==
  /\ Ready
  /\ irc_CurrentTime < MaxNow
  /\ irc_CurrentTime' = irc_CurrentTime + 1
  /\ UNCHANGED dbmem

(* What the owner of a new row chooses; uevents and exceptions of the      *)
(* import have no owner.                                                   *)
NewRows ==
  [key : Keys, owner : Owners \union {NONE}, value : Values,
   expires : {0, irc_CurrentTime + Duration}]

Next ==
  \/ Load
  \/ \E r \in NewRows : Insert(r)
  \/ \E k \in Keys : Delete(k)
  \/ \E k, new \in Keys : ReplaceKey(k, new)
  \/ ExpireStart
  \/ ExpireStep
  \/ Reload
  \/ Tick
  \/ \E o \in Owners : OwnerDropped(o)

(* A loop runs to its end, and the expire module starts the pass again and *)
(* again, however often commands run in between.                           *)
Fairness ==
  WF_dbvars(Load) /\ WF_dbvars(ExpireStep) /\ SF_dbvars(ExpireStart)

Spec == Init /\ [][Next]_dbvars /\ Fairness

-----------------------------------------------------------------------------
(* Memory never holds two rows with one key, although uniqueness is only   *)
(* checked in one of the two copies at a time.                             *)
KeysUnique ==
  \A i, j \in 1..Len(data) : data[i].key = data[j].key => i = j

(* A row that only memory has belonged to an owner that was dropped.       *)
MemoryInTable == \A r \in Rows(data) : r \in table \/ r.owner # NONE

(* mysql.c:746 "keep a set of data both on the db and memory synchronized":*)
(* every row of the table is in memory, and every row of memory is in the  *)
(* table or has lost its owner.                                            *)
Synchronized == Ready => table \subseteq Rows(data) /\ MemoryInTable

(* mysql.c:1055 "dbmem_expire - delete items which havexpired": as long as *)
(* no row is dropped from under memory, every row that has expired leaves  *)
(* it, whatever the swap skips.                                            *)
ExpiredRowsLeave ==
  [](Rows(data) \subseteq table) =>
    \A k \in Keys :
      (Ready /\ \E r \in Rows(data) : r.key = k /\ Expired(r))
        ~> (Ready /\ ~\E r \in Rows(data) : r.key = k /\ Expired(r))

(* A step of the expire loop deletes expired rows and no others, though    *)
(* the row under its position changes while it runs.                       *)
OnlyExpiredRowsExpire ==
  [][scan # 0 => \A r \in table \ table' : Expired(r)]_dbvars

(* The promise of the header, as a specification: loads and the position   *)
(* of the expire loop are not seen, rows still to load are there already.  *)
(* It is kept by tables that fit the first allocation.                     *)
Cached ==
  INSTANCE CachedTable WITH
    rows <- Rows(data) \union loading,
    now <- irc_CurrentTime,
    expiring <- scan # 0

ImplementsCachedTable == Cached!Spec

=============================================================================
