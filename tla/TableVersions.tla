----------------------------- MODULE TableVersions -----------------------------
(***************************************************************************)
(* The versions of the tables of a module: sql_check_inst_upgrade, called  *)
(* by mod_load, installs them from chanserv.sql or upgrades them, version  *)
(* by version, from chanserv.2.sql, chanserv.3.sql and chanserv.4.sql with *)
(* what sql_upgrade does before. The statements are not in a transaction:  *)
(* the process may stop, or one of them fail, between any two.             *)
(*                                                                         *)
(* chanserv stands for all modules; its founders and successors refer to   *)
(* the nicks of nickserv, of which some were deleted before there were     *)
(* foreign keys. Left out: tables that are newer than the module, which is *)
(* then not loaded, and db_mysql_query's exit when it cannot reconnect.    *)
(***************************************************************************)
EXTENDS Integers, Sequences, FiniteSets

CONSTANTS
  Scids,
  Snids,         \* nicks of nickserv
  LostSnids,     \* nicks that were deleted, but not everywhere
  MaxStops       \* bound: starts that are cut short

ASSUME TableVersionsAssumption ==
  /\ (Scids \union Snids \union LostSnids) \subseteq Nat \ {0}
  /\ Snids \intersect LostSnids = {}
  /\ MaxStops \in Nat

DB_VERSION == 4

VARIABLES
  ircsvs_tables, \* the versions recorded for chanserv
  chanserv,      \* rows [scid, founder, successor, suspended]; no nick is 0, and NULL from version 3
  columns,       \* [tmp, converted, nullable]: times are being converted, and were so often;
                 \* founder and successor may be NULL
  keys,          \* foreign keys of chanserv
  chanserv_suspensions, \* the channels it has, or NoTable
  todo,          \* what sql_check_inst_upgrade has left to do: [version, do]
  checked,       \* it has looked up the version in this start
  misread,       \* history: its SELECT has failed once
  stops,         \* starts that were cut short
  registered     \* history: the channels of the first start

tablevars == <<ircsvs_tables, chanserv, columns, keys, chanserv_suspensions, todo, checked,
               misread, stops, registered>>

NULL == -1

NoTable == {NULL}

Rows(nicks) ==
  [founder : nicks, successor : nicks, suspended : BOOLEAN]

ForeignKeys == {"founder", "successor"}

(* Tables as an older version of the module has left them                  *)
TablesInit(upgrading) ==
  \E v \in IF upgrading THEN 0..DB_VERSION ELSE {DB_VERSION} :
  \E used \in IF upgrading /\ v > 0 THEN SUBSET Scids ELSE {{}} :
  \E rows \in [used -> IF v < 3 THEN Rows(Snids \union LostSnids \union {0})
                       ELSE Rows(Snids \union {NULL})] :
    /\ ircsvs_tables = {v} \ {0}
    /\ chanserv = {[scid |-> s, founder |-> rows[s].founder, successor |-> rows[s].successor,
                    suspended |-> rows[s].suspended] : s \in used}
    /\ columns = [tmp |-> FALSE, converted |-> IF v < 2 THEN 0 ELSE 1, nullable |-> v >= 3]
    /\ keys = IF v < 3 THEN {} ELSE ForeignKeys
    /\ chanserv_suspensions = IF v < 4 THEN NoTable ELSE {s \in used : rows[s].suspended}
    /\ todo = <<>>
    /\ checked = ~upgrading
    /\ misread = FALSE
    /\ stops = 0
    /\ registered = chanserv

-----------------------------------------------------------------------------
(* What is to be done                                                      *)

Do(v, names) == [k \in DOMAIN names |-> [version |-> v, do |-> names[k]]]

(* sql_upgrade before the statements of version 3                          *)
FoundersFirst(v) ==
  IF v = 3 THEN Do(v, <<"lost_founders", "lost_successors">>) ELSE <<>>

Pre(v) ==
  IF v = 3 THEN Do(v, <<"lost_successors", "lost_founders">>) ELSE <<>>

(* mysql_from_file                                                         *)
Script(v) ==
  Do(v, CASE v = 2 -> <<"add_columns", "change_columns">>
          [] v = 3 -> <<"nullable", "founder", "successor">>
          [] v = 4 -> <<"create_suspensions", "import_suspensions">>)

Installation == Do(DB_VERSION, <<"drop", "create", "create_suspensions", "record">>)

Upgrade(v) == Pre(v) \o Script(v) \o Do(v, <<"record">>)

current_version == IF ircsvs_tables = {} THEN 0
                   ELSE CHOOSE v \in ircsvs_tables : \A w \in ircsvs_tables : w <= v

Plan(current) ==
  LET upgrade(v) == IF v > current THEN Upgrade(v) ELSE <<>>
  IN  IF current = 0 THEN Installation ELSE upgrade(2) \o upgrade(3) \o upgrade(4)

(* A SELECT that fails reads as version 0.                                 *)
Checks ==
  /\ ~checked /\ checked' = TRUE
  /\ \E read \in {current_version, 0} :
       /\ todo' = Plan(read)
       /\ misread' = (misread \/ read # current_version)
  /\ UNCHANGED <<ircsvs_tables, chanserv, columns, keys, chanserv_suspensions, stops, registered>>

-----------------------------------------------------------------------------
(* The statements                                                          *)

(* A column or a constraint cannot be added twice, and no row may refer to *)
(* what is not there.                                                      *)
Accepted(do) ==
  CASE do = "add_columns"    -> ~columns.tmp
    [] do = "change_columns" -> columns.tmp
    [] do = "founder"   -> "founder" \notin keys /\ \A r \in chanserv : r.founder \in Snids \union {NULL}
    [] do = "successor" -> "successor" \notin keys /\ \A r \in chanserv : r.successor \in Snids \union {NULL}
    [] OTHER -> TRUE

(* A successor that is lost is set to NULL, which MySQL stores as 0 while  *)
(* the column is NOT NULL.                                                 *)
NoNick == IF columns.nullable THEN NULL ELSE 0

LostSuccessors ==
  {IF r.successor \in LostSnids THEN [r EXCEPT !.successor = NoNick] ELSE r : r \in chanserv}

(* A channel whose founder is lost goes to its successor or is deleted.    *)
LostFounders ==
  {IF r.founder \in LostSnids /\ r.successor # NULL
   THEN [r EXCEPT !.founder = r.successor, !.successor = NoNick] ELSE r :
     r \in {q \in chanserv : ~(q.founder \in LostSnids /\ q.successor = 0)}}

Nullable ==
  {[r EXCEPT !.founder = IF @ = 0 THEN NULL ELSE @, !.successor = IF @ = 0 THEN NULL ELSE @] :
     r \in chanserv}

RowsAfter(do) ==
  CASE do = "lost_successors" -> LostSuccessors
    [] do = "lost_founders"   -> LostFounders
    [] do = "nullable"        -> Nullable
    [] do = "drop"            -> {}
    [] OTHER -> chanserv

KeysAfter(do) ==
  IF do = "create" THEN ForeignKeys
  ELSE IF do = "drop" THEN {}
  ELSE keys \union ({do} \intersect ForeignKeys)

SuspensionsAfter(do) ==
  CASE do = "create_suspensions" -> {}
    [] do = "import_suspensions" -> {r.scid : r \in {q \in chanserv : q.suspended}}
    [] OTHER -> chanserv_suspensions

ColumnsAfter(do) ==
  CASE do = "add_columns" -> [columns EXCEPT !.tmp = TRUE]
    [] do = "change_columns" -> [columns EXCEPT !.tmp = FALSE, !.converted = @ + 1]
    [] do = "nullable" -> [columns EXCEPT !.nullable = TRUE]
    [] do = "create" -> [tmp |-> FALSE, converted |-> 1, nullable |-> TRUE]
    [] OTHER -> columns

(* sql_execute, which repeats an INSERT when the connection is lost: a     *)
(* version recorded twice is recorded.                                     *)
Recorded(v) == ircsvs_tables \union {v}

Statement ==
  /\ todo # <<>> /\ Accepted(Head(todo).do)
  /\ LET do == Head(todo).do IN
     /\ chanserv' = RowsAfter(do)
     /\ keys' = KeysAfter(do)
     /\ columns' = ColumnsAfter(do)
     /\ chanserv_suspensions' = SuspensionsAfter(do)
     /\ ircsvs_tables' = IF do = "record" THEN Recorded(Head(todo).version) ELSE ircsvs_tables
  /\ todo' = Tail(todo)
  /\ UNCHANGED <<checked, misread, stops, registered>>

(* The process ends, because a statement is refused, fails or is not       *)
(* answered, or for another reason, and is started again.                  *)
StartAgain ==
  /\ todo # <<>>
  /\ \/ ~Accepted(Head(todo).do) /\ UNCHANGED stops
     \/ stops < MaxStops /\ stops' = stops + 1
  /\ todo' = <<>> /\ checked' = FALSE
  /\ UNCHANGED <<ircsvs_tables, chanserv, columns, keys, chanserv_suspensions, misread, registered>>

TablesReady == checked /\ todo = <<>>

TablesNext == Checks \/ Statement \/ StartAgain

-----------------------------------------------------------------------------
(* What the tables of a recorded version have                              *)
Brought(v) ==
  /\ v >= 2 => ~columns.tmp /\ columns.converted >= 1
  /\ v >= 3 => keys = ForeignKeys
  /\ v >= 4 => chanserv_suspensions = {r.scid : r \in {q \in chanserv : q.suspended}}

(* The channel is there, with its founder if that has not been deleted and *)
(* else, once that is looked after, with its successor                     *)
RowKept(r) ==
  LET founders == CASE r.founder \in LostSnids -> {r.founder, r.successor}
                    [] r.founder = 0 -> {0, NULL}
                    [] OTHER -> {r.founder}
  IN  \/ \E q \in chanserv : q.scid = r.scid /\ q.founder \in founders
      \/ r.founder \in LostSnids /\ r.successor \notin Snids

(* mysql.c:627 "check, install or upgrade tables for a module": whatever   *)
(* nicks were lost and wherever earlier starts were cut short, a version   *)
(* is recorded when its tables have all it brings, and no channel is lost  *)
(* that has a founder or a successor, as long as no SELECT of the version  *)
(* has failed; and if no start was cut short no statement is refused and   *)
(* no time converted twice.                                                *)
UpgradesFit ==
  /\ \A v \in ircsvs_tables : misread \/ Brought(v)
  /\ misread \/ \A r \in registered : RowKept(r)
  /\ stops = 0 /\ ~misread =>
       /\ columns.converted <= 1
       /\ todo # <<>> => Accepted(Head(todo).do)

=============================================================================
