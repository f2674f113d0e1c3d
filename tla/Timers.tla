------------------------------- MODULE Timers -------------------------------
(***************************************************************************)
(* The timer lists of libircservice (libircservice/src/timer.c).           *)
(*                                                                         *)
(* timer.c keeps one list of timers of users and one of timers of          *)
(* channels; the two halves of the file are the same code, so one module   *)
(* stands for both and its Owners are the IRC_User (or IRC_Chan) structs.  *)
(* An owner can be freed and its address handed out again by malloc while  *)
(* the list still holds nodes of the previous owner, so an element of      *)
(* Owners is an address, alive while a struct lives there.                 *)
(*                                                                         *)
(* The list is a set of nodes; ids grow with every addition and the code   *)
(* adds at the head, so the list order is descending id.                   *)
(***************************************************************************)
EXTENDS Integers, FiniteSets

CONSTANTS
  Owners,          \* addresses of IRC_User (IRC_Chan) structs
  TIMER_INTERVAL,  \* timer.c:5
  Delay,           \* the ttime argument of the additions
  Cancellable,     \* the owners whose timers are also cancelled before the
                   \* owner is freed (some users, no channel)
  Start,           \* irc_CurrentTime when services start
  LastAdd,         \* bound: no timer is added later
  MaxNow,          \* bound: the clock stops here
  MaxAdds,         \* bound: number of timers ever added
  MaxDrift         \* bound: no cancellation below a count of -MaxDrift

ASSUME TimersAssumption ==
  /\ TIMER_INTERVAL \in Nat /\ Delay \in Nat
  /\ Cancellable \subseteq Owners
  /\ Start \in Nat /\ LastAdd \in Nat /\ MaxNow \in Nat /\ MaxAdds \in Nat
  /\ MaxDrift \in Nat

VARIABLES
  timers_list,      \* u_timers_list / c_timers_list
  timer_count,      \* the timer_count field of each struct
  alive,            \* the addresses that hold a struct
  added,            \* number of timers added so far, the source of ids
  irc_CurrentTime,
  last_run,         \* static variable of check_u_timer_events
  freed_passed      \* history: the freed owners handlers were called with

vars == <<timers_list, timer_count, alive, added, irc_CurrentTime, last_run,
          freed_passed>>

Node == [id : Nat, owner : Owners, trigger_time : Nat, deleted : BOOLEAN]

TypeOK ==
  /\ timers_list \subseteq Node
  /\ timer_count \in [Owners -> Int]
  /\ alive \subseteq Owners
  /\ added \in Nat
  /\ irc_CurrentTime \in Nat
  /\ last_run \in Nat
  /\ freed_passed \subseteq Owners

Init ==
  /\ timers_list = {}
  /\ timer_count = [o \in Owners |-> 0]
  /\ alive = {}
  /\ added = 0
  /\ irc_CurrentTime = Start
  /\ last_run = 0
  /\ freed_passed = {}

NewNode(o) == [id |-> added + 1, owner |-> o,
               trigger_time |-> irc_CurrentTime + Delay, deleted |-> FALSE]

MayAdd == added < MaxAdds /\ irc_CurrentTime <= LastAdd

(* irc_CreateUser, irc_CreateChan: the struct is zeroed. *)
Create(o) ==
  /\ o \notin alive
  /\ alive' = alive \union {o}
  /\ timer_count' = [timer_count EXCEPT ![o] = 0]
  /\ UNCHANGED <<timers_list, added, irc_CurrentTime, last_run, freed_passed>>

AddTimer(o) ==
  /\ MayAdd
  /\ o \in alive
  /\ timers_list' = timers_list \union {NewNode(o)}
  /\ timer_count' = [timer_count EXCEPT ![o] = @ + 1]
  /\ added' = added + 1
  /\ UNCHANGED <<alive, irc_CurrentTime, last_run, freed_passed>>

NodesOf(o) == {n \in timers_list : n.owner = o}

(* The list after irc_Cancel*TimerEvents(o): every node of the owner is    *)
(* marked, those that were marked before and wait to be freed included.    *)
Cancelled(o) ==
  IF timer_count[o] = 0
  THEN timers_list
  ELSE {[n EXCEPT !.deleted = @ \/ n.owner = o] : n \in timers_list}

CountAfterCancel(o) ==
  IF timer_count[o] = 0 THEN 0 ELSE timer_count[o] - Cardinality(NodesOf(o))

CancelTimers(o) ==
  /\ o \in Cancellable \intersect alive
  /\ timer_count[o] > -MaxDrift
  /\ timers_list' = Cancelled(o)
  /\ timer_count' = [timer_count EXCEPT ![o] = CountAfterCancel(o)]
  /\ UNCHANGED <<alive, added, irc_CurrentTime, last_run, freed_passed>>

(* remove_remote_user, remove_local_user, del_user_from_chan for the last  *)
(* member: cancel the timers, free the struct.                             *)
Destroy(o) ==
  /\ o \in alive
  /\ timers_list' = Cancelled(o)
  /\ alive' = alive \ {o}
  /\ UNCHANGED <<timer_count, added, irc_CurrentTime, last_run, freed_passed>>

Due(n) == ~n.deleted /\ irc_CurrentTime > n.trigger_time

(* What the pass finds marked when it reaches node n: marked before it     *)
(* began, or by a handler in Killers that freed the owner earlier in it.   *)
MarkedByKill(n, Killers) ==
  \E k \in Killers : k.owner = n.owner /\ timer_count[k.owner] # 0

MarkedBefore(n, Killers) == n.deleted

MarkedWhenReached(n, Killers) ==
  \/ n.deleted
  \/ MarkedByKill(n, {k \in Killers : k.id > n.id})

(* The nodes whose handler the pass calls, and the owners that are gone    *)
(* when it is, or that an earlier handler of the pass has freed.           *)
Fired(Killers) ==
  {n \in timers_list : Due(n) /\ ~MarkedWhenReached(n, Killers)}

PassesFreed(Killers) ==
  {n.owner : n \in {m \in Fired(Killers) :
    \/ m.owner \notin alive
    \/ \E k \in Killers : k.owner = m.owner /\ k.id > m.id}}

(* timer.c:49: the time of this pass is not stored, the difference is.     *)
LastRunAfter == irc_CurrentTime - last_run

(* One effective pass of check_u_timer_events. The handlers of Killers     *)
(* free their owner (irc_Kill, irc_ChanPart by the last member); the       *)
(* handler of the node in Again, if any, adds a timer (timer_os_sysstats). *)
CheckTimers ==
  /\ irc_CurrentTime - last_run > TIMER_INTERVAL
  /\ last_run' = LastRunAfter
  /\ \E Killers \in SUBSET {n \in timers_list : Due(n) /\ n.owner \in alive} :
     \E Again \in {{}} \union
          {{n} : n \in {m \in timers_list : Due(m) /\ m.owner \in alive}} :
       LET kept == {n \in timers_list : ~MarkedWhenReached(n, Killers)} IN
       /\ \A n \in Again : /\ MayAdd
                           /\ \A k \in Killers : k.owner # n.owner
       /\ timers_list' =
            {[n EXCEPT !.deleted = Due(n) \/ MarkedByKill(n, Killers)] : n \in kept}
              \union {NewNode(n.owner) : n \in Again}
       /\ timer_count' = [o \in Owners |->
            timer_count[o] + Cardinality({n \in Again : n.owner = o})]
       /\ added' = added + Cardinality(Again)
       /\ alive' = alive \ {k.owner : k \in Killers}
       /\ freed_passed' = freed_passed \union PassesFreed(Killers)
       /\ UNCHANGED irc_CurrentTime

(* The main loop makes its first pass in its first turn, before a line     *)
(* from the daemon moves irc_CurrentTime.                                  *)
Tick ==
  /\ last_run # 0
  /\ irc_CurrentTime' \in irc_CurrentTime + 1 .. MaxNow
  /\ UNCHANGED <<timers_list, timer_count, alive, added, last_run, freed_passed>>

Next ==
  \/ \E o \in Owners :
       Create(o) \/ AddTimer(o) \/ CancelTimers(o) \/ Destroy(o)
  \/ CheckTimers
  \/ Tick

(* irc_DoEvents calls the pass in every turn of the main loop and the      *)
(* clock goes on; nothing forces an owner or a timer to appear.            *)
Spec == Init /\ [][Next]_vars /\ WF_vars(CheckTimers) /\ WF_vars(Tick)

-----------------------------------------------------------------------------
(* A handler is only ever called with a struct that is still there, also   *)
(* when the handler of an earlier node of the same pass freed the owner.   *)
NoHandlerOnFreedOwner == freed_passed \subseteq Cancellable

(* No timer that can still fire refers to a freed struct: otherwise        *)
(* check_u_timer_events hands freed memory to the handler. Owners whose    *)
(* timers were cancelled before may break it, since a second cancellation  *)
(* takes the same nodes off the count again.                               *)
NoTimerOfFreedOwner ==
  \A n \in timers_list : ~n.deleted => n.owner \in alive \union Cancellable

=============================================================================
