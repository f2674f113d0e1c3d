------------------------------- MODULE UEvents -------------------------------
(***************************************************************************)
(* The user events of OperServ (modules/os_uevent.c): rows of a DBMem      *)
(* (user_events) that name an event and an action, and an index from every *)
(* event to the positions of its rows in memory, which the handlers of the *)
(* network use without looking at the rows of other events.                *)
(*                                                                         *)
(* The keys are the ids the table hands out, the value of a row is its     *)
(* event, and no row has an owner. Positions start from 1 here.            *)
(***************************************************************************)
EXTENDS DBMem

CONSTANT MaxIndex  \* 1023, the rows of one event that event_index holds

EventTypes == Values

ASSUME UEventsAssumption == MaxIndex \in Nat \ {0}

VARIABLE event_index  \* the positions of every event, event_index_size long

uvars == <<dbvars, event_index>>

-----------------------------------------------------------------------------
(* build_event_index: the sizes are set to 0, then every row is added to   *)
(* the index of its event, until a row finds its index full.               *)
OfEvent(rows, e, n) == {i \in 1..n : rows[i].value = e}

FindsItFull(rows, i) == Cardinality(OfEvent(rows, rows[i].value, i)) > MaxIndex

RowsPlaced(rows) ==
  IF \E i \in 1..Len(rows) : FindsItFull(rows, i)
  THEN (CHOOSE i \in 1..Len(rows) :
          FindsItFull(rows, i) /\ \A j \in 1..i-1 : ~FindsItFull(rows, j)) - 1
  ELSE Len(rows)

(* The elements of S in increasing order *)
Ascending(S) ==
  [k \in 1..Cardinality(S) |->
     CHOOSE i \in S : Cardinality({j \in S : j <= i}) = k]

IndexUpToLast(rows) ==
  [e \in EventTypes |-> Ascending(OfEvent(rows, e, RowsPlaced(rows) - 1))]

Indexed(rows) ==
  [e \in EventTypes |-> Ascending(OfEvent(rows, e, RowsPlaced(rows)))]

UEventsInit ==
  /\ Init
  /\ event_index = [e \in EventTypes |-> <<>>]

(* mod_load: the index is built when dbmem_load is done.                   *)
UEventsLoad ==
  /\ Load
  /\ event_index' = IF loading' = {} THEN Indexed(data')
                    ELSE event_index

(* os_uevent_add, os_uevent_del: the index is built again when the table   *)
(* could be changed.                                                       *)
UEventAdd(r) ==
  /\ Insert(r)
  /\ event_index' = IF KeyTaken(r.key, table) THEN event_index
                    ELSE Indexed(data')

UEventDel(id) == Delete(id) /\ event_index' = Indexed(data')

(* ev_uevents_expire, from the expire module and from OS UEVENT LIST       *)
UEventsExpire ==
  \/ ExpireStart /\ UNCHANGED event_index
  \/ /\ ExpireStep
     /\ event_index' = IF scan' = 0 THEN Indexed(data')
                       ELSE event_index

(* mod_unload, mod_load. The index of the new module is empty until the    *)
(* rows are loaded.                                                        *)
UEventsReload ==
  /\ Reload
  /\ event_index' = [e \in EventTypes |-> <<>>]

UEventsNext ==
  \/ UEventsLoad
  \/ \E r \in NewRows : UEventAdd(r)
  \/ \E id \in Keys : UEventDel(id)
  \/ UEventsExpire
  \/ UEventsReload
  \/ Tick /\ UNCHANGED event_index

(* A loop runs to its end, and the expire module starts it again and again,*)
(* however often commands run in between.                                  *)
UEventsSpec ==
  /\ UEventsInit /\ [][UEventsNext]_uvars
  /\ WF_uvars(UEventsLoad)
  /\ WF_uvars(UEventsExpire /\ scan # 0)
  /\ SF_uvars(UEventsExpire /\ Ready)

-----------------------------------------------------------------------------
(* os_uevent.c:80 "The event index was added to avoid a full scan of the   *)
(* event table": the index leads from every event to rows of that event,   *)
(* whatever rows were moved by deletions and expiry, and while it has room *)
(* for all of them, to exactly those the table has.                        *)
IndexedRows(e) == {data[event_index[e][i]] : i \in DOMAIN event_index[e]}

RowsOf(e) == {r \in table : r.value = e}

EventsInForce ==
  Ready =>
    /\ \A e \in EventTypes :
         /\ \A i \in DOMAIN event_index[e] : event_index[e][i] <= Len(data)
         /\ IndexedRows(e) \subseteq RowsOf(e)
         /\ Cardinality(IndexedRows(e)) = Len(event_index[e])
    /\ (\A e \in EventTypes : Cardinality(RowsOf(e)) <= MaxIndex)
         => \A e \in EventTypes : IndexedRows(e) = RowsOf(e)

=============================================================================
