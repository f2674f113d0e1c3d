------------------------------- MODULE Modules -------------------------------
(***************************************************************************)
(* Loading and unloading of modules (src/modules.c, src/modevents.c and    *)
(* modules/os_module.c). A module takes addresses of functions of others   *)
(* when it is loaded, and hangs handlers of its own on lists that outlive  *)
(* it; unloading has to leave neither behind, for the code is unmapped.    *)
(*                                                                         *)
(* Eleven modules stand for all: four services and those that call each    *)
(* other. Left out: the core modules everybody attaches to (mysql, dbconf, *)
(* irc), module versions, the limit of 128 modules, and handlers that know *)
(* nothing of users (e_expire).                                            *)
(***************************************************************************)
EXTENDS Integers, Sequences, SequencesExt, FiniteSets

CONSTANTS
  Reloaded,    \* bound: sets of modules that are unloaded in a behaviour
  MaxHandles   \* bound: times that one module is opened

(* MOD_REQUIRES, events ("e_") with functions, in the order they are       *)
(* attached                                                                *)
Requires ==
  [nickserv     |-> <<>>,
   ns_group     |-> <<"nickserv_suser", "e_nick_identify">>,
   chanserv     |-> <<"e_nick_delete">>,
   cs_role      |-> <<"chanserv_suser", "e_regchan_join", "e_nick_identify">>,
   cs_akick     |-> <<"role_with_permission", "chanserv_suser", "e_regchan_join">>,
   operserv     |-> <<"is_soper", "is_sadmin">>,
   botserv      |-> <<"chanserv_suser">>,
   bs_g_kick    |-> <<"botserv_suser", "chanserv_suser", "role_with_permission">>,
   os_module    |-> <<"operserv_suser", "is_sroot">>,
   os_uevent    |-> <<"operserv_suser", "is_sadmin", "e_nick_identify">>,
   sessionlimit |-> <<"operserv_suser", "is_soper", "is_sadmin">>]

Modules == DOMAIN Requires

ASSUME ModulesAssumption == Reloaded \subseteq SUBSET Modules /\ MaxHandles \in Nat \ {0}

Events == {"e_nick_identify", "e_nick_delete", "e_regchan_join"}

(* MOD_PROVIDES *)
Provides(m) ==
  CASE m = "nickserv" -> {"nickserv_suser", "e_nick_identify", "e_nick_delete"}
    [] m = "ns_group" -> {"is_sadmin", "is_sroot", "is_soper"}
    [] m = "chanserv" -> {"chanserv_suser", "e_regchan_join"}
    [] m = "cs_role"  -> {"role_with_permission"}
    [] m = "operserv" -> {"operserv_suser"}
    [] m = "botserv"  -> {"botserv_suser"}
    [] OTHER -> {}

Functions == (UNION {Provides(m) : m \in Modules}) \ Events

(* The .modules file of a module, "" for that of the program               *)
ModulesFile(m) ==
  CASE m = ""         -> <<"nickserv", "chanserv", "operserv", "botserv">>
    [] m = "nickserv" -> <<"ns_group">>
    [] m = "chanserv" -> <<"cs_role", "cs_akick">>
    [] m = "operserv" -> <<"os_module", "os_uevent", "sessionlimit">>
    [] m = "botserv"  -> <<"bs_g_kick">>
    [] OTHER -> <<>>

(* The lists a module hangs on in mod_load: those of libircservice and the *)
(* actions of module events                                                *)
IrcLists ==
  {"ET_NEW_SERVER", "ET_NEW_USER", "ET_KILL", "ET_CHAN_JOIN", "ET_CHAN_PART", "ET_CHAN_TOPIC"}

Lists == IrcLists \union Events

Adds(m) ==
  CASE m = "nickserv"     -> {"ET_NEW_USER", "ET_KILL"}
    [] m = "ns_group"     -> {"e_nick_identify"}
    [] m = "chanserv"     -> {"ET_CHAN_JOIN", "ET_CHAN_PART", "ET_CHAN_TOPIC", "e_nick_delete"}
    [] m = "cs_role"      -> {"e_nick_identify", "e_regchan_join"}
    [] m = "cs_akick"     -> {"e_regchan_join"}
    [] m = "operserv"     -> {"ET_NEW_USER"}
    [] m = "botserv"      -> {"ET_NEW_SERVER"}
    [] m = "os_uevent"    -> {"ET_NEW_USER", "ET_CHAN_JOIN", "e_nick_identify"}
    [] m = "sessionlimit" -> {"ET_NEW_USER", "ET_KILL"}
    [] OTHER -> {}

(* mod_unload takes the module off them again, but two forget one.         *)
Leaves(m) ==
  CASE m = "chanserv" -> {"ET_CHAN_TOPIC"}
    [] m = "botserv"  -> {"ET_NEW_SERVER"}
    [] OTHER -> {}

(* The services: their users are created by mod_load and quit by mod_unload*)
Services == {"nickserv", "chanserv", "operserv", "botserv"}

(* The commands of a module: some have a handler, the others are only      *)
(* topics of HELP. Numbers stand for names, in their order.                *)
Commands(m) ==
  CASE m = "ns_group"     -> {[to |-> "nickserv", cmd |-> 1, answers |-> TRUE]}
    [] m = "cs_akick"     -> {[to |-> "chanserv", cmd |-> 1, answers |-> TRUE]}
    [] m = "cs_role"      -> {[to |-> "chanserv", cmd |-> 0, answers |-> FALSE],
                              [to |-> "chanserv", cmd |-> 2, answers |-> TRUE]}
    [] m = "os_module"    -> {[to |-> "operserv", cmd |-> 1, answers |-> TRUE]}
    [] m = "sessionlimit" -> {[to |-> "operserv", cmd |-> 2, answers |-> TRUE]}
    [] m = "os_uevent"    -> {[to |-> "operserv", cmd |-> 3, answers |-> TRUE],
                              [to |-> "operserv", cmd |-> 4, answers |-> FALSE]}
    [] OTHER -> {}

(* mod_unload deletes the commands, but that of sessionlimit does not.     *)
KeepsCommands(m) == m = "sessionlimit"

(* The modules with a trigger for messages to any channel                  *)
Triggers(m) == m = "bs_g_kick"

VARIABLES
  phase,          \* "starting", "running" or "exited"
  pending,        \* what is left to read of .modules files, the innermost first
  handles,        \* times that dlopen has mapped a module
  svs_modules,    \* the loaded modules
  provides_list,  \* functions that can be attached to
  modattach,      \* of every function the modules attached to it
  events_table,   \* registered events
  handlers,       \* of every list the modules on it, the last added first
  cmds,           \* of every service the list that HELP shows: [cmd, owner]
  msglist,        \* of its user the handlers, the first asked first: [msg, owner]
  chan_msg_events, \* the handlers for messages to channels
  reloads         \* a member of Reloaded

cmdvars == <<cmds, msglist, chan_msg_events>>

modvars == <<reloads, cmdvars, phase, pending, handles, svs_modules, provides_list, modattach,
             events_table, handlers>>

ModulesInit ==
  /\ phase = "starting"
  /\ pending = ModulesFile("")
  /\ handles = [m \in Modules |-> 0]
  /\ svs_modules = {}
  /\ provides_list = {}
  /\ modattach = [f \in Functions |-> <<>>]
  /\ events_table = {}
  /\ handlers = [l \in Lists |-> <<>>]
  /\ cmds = [s \in Services |-> <<>>]
  /\ msglist = [s \in Services |-> <<>>]
  /\ chan_msg_events = <<>>
  /\ reloads \in Reloaded

-----------------------------------------------------------------------------
(* Commands (src/suser.c and the message handlers of event.c)              *)

AnyMsg == 99

KickTrigger == 5

(* irc_AddUMsgEvent: the handler of any message goes to the end            *)
AddUMsgEvent(list, h) == IF h.msg = AnyMsg THEN Append(list, h) ELSE <<h>> \o list

(* irc_DelUMsgEvent: the first of them                                     *)
DelUMsgEvent(list, h) == RemoveFirst(list, h)

(* irc_AddChanGMsgEvent, irc_DelChanGMsgEvent: likewise for messages to any*)
(* channel                                                                 *)
AddChanGMsgEvent(h) == AddUMsgEvent(chan_msg_events, h)

DelChanGMsgEvent(h) == DelUMsgEvent(chan_msg_events, h)

(* suser_add_cmd: where the list goes on with a command that is not before *)
(* the new one                                                             *)
After(list, c) ==
  CHOOSE i \in DOMAIN list :
    /\ i = Len(list) \/ c.cmd <= list[i + 1].cmd
    /\ \A j \in 1..i-1 : c.cmd > list[j + 1].cmd

Listed(list, c) ==
  IF list = <<>> THEN <<c>>
  ELSE LET i == After(list, c)
       IN  IF i = 1 /\ c.cmd < list[1].cmd THEN <<c>> \o list ELSE InsertAt(list, i + 1, c)

CommandsTo(m, s) == SetToSeq({c \in Commands(m) : c.to = s})

Entry(m, c) == [cmd |-> c.cmd, owner |-> m]

HandlerOf(m, c) == [msg |-> c.cmd, owner |-> m]

(* mod_load: a service creates its user; the others add commands and       *)
(* triggers.                                                               *)
CommandsAdded(m) ==
  /\ cmds' = [s \in Services |->
       FoldLeft(LAMBDA list, c : Listed(list, Entry(m, c)), cmds[s], CommandsTo(m, s))]
  /\ msglist' = [s \in Services |->
       IF s = m THEN AddUMsgEvent(<<>>, [msg |-> AnyMsg, owner |-> m])
       ELSE FoldLeft(LAMBDA list, c : IF c.answers THEN AddUMsgEvent(list, HandlerOf(m, c)) ELSE list,
                     msglist[s], CommandsTo(m, s))]
  /\ chan_msg_events' =
       IF Triggers(m) THEN AddChanGMsgEvent([msg |-> KickTrigger, owner |-> m])
       ELSE chan_msg_events

(* delete_user_msg_events, when the local user of a service quits          *)
NoMsgEvents == <<>>

(* Their loops that take off all that is of a module                       *)
Without(list, gone) ==
  LET left[i \in 0..Len(list)] ==
        IF i = 0 THEN <<>>
        ELSE IF list[i] \in gone THEN left[i-1] ELSE Append(left[i-1], list[i])
  IN  left[Len(list)]

(* suser_del_mod_cmds and irc_QuitLocalUser of mod_unload                  *)
CommandsDeleted(m) ==
  /\ cmds' = [s \in Services |->
       IF s = m THEN <<>>
       ELSE IF KeepsCommands(m) THEN cmds[s]
       ELSE Without(cmds[s], {e \in ToSet(cmds[s]) : e.owner = m})]
  /\ msglist' = [s \in Services |->
       IF s = m THEN NoMsgEvents
       ELSE IF KeepsCommands(m) THEN msglist[s]
       ELSE FoldLeft(LAMBDA list, c : DelUMsgEvent(list, HandlerOf(m, c)),
                     msglist[s], CommandsTo(m, s))]
  /\ chan_msg_events' =
       IF Triggers(m) THEN DelChanGMsgEvent([msg |-> KickTrigger, owner |-> m])
       ELSE chan_msg_events

(* check_user_msg_events: the first handler of the message, or the last    *)
(* for any message, or none                                                *)
HandlersFor(list, msg) ==
  LET exact == SelectInSeq(list, LAMBDA h : h.msg = msg)
      any   == SelectLastInSeq(list, LAMBDA h : h.msg = AnyMsg)
  IN  IF exact # 0 THEN <<list[exact]>>
      ELSE IF any # 0 THEN <<list[any]>> ELSE <<>>

(* check_chan_gmsg_events *)
ChanHandlersFor(msg) == HandlersFor(chan_msg_events, msg)

-----------------------------------------------------------------------------
(* Loading                                                                 *)

Mapped(m) == handles[m] > 0

(* The first requirement that is not met, or one past the last             *)
Unmet(m) ==
  LET found(k) == Requires[m][k] \in provides_list \union events_table
  IN  CHOOSE k \in 1..Len(Requires[m]) + 1 :
        (k <= Len(Requires[m]) => ~found(k)) /\ \A j \in 1..k-1 : found(j)

(* register_requires: attached to what comes before it                     *)
Attached(m) ==
  [f \in Functions |->
     IF \E k \in 1..Unmet(m) - 1 : Requires[m][k] = f
     THEN Append(modattach[f], m) ELSE modattach[f]]

(* register_provides, mod_register_event                                   *)
ProvidesRegistered(m) == provides_list \union (Provides(m) \ Events)

EventsRegistered(m) == events_table \union (Provides(m) \intersect Events)

(* irc_AddEvent and mod_add_event_action of mod_load                       *)
AddEvent(list, m) == <<m>> \o list

AddEventAction(list, m) == <<m>> \o list

HandlersAdded(m) ==
  [l \in Lists |-> IF l \notin Adds(m) THEN handlers[l]
                   ELSE IF l \in Events THEN AddEventAction(handlers[l], m)
                   ELSE AddEvent(handlers[l], m)]

(* A failure leaves the handle open.                                       *)
HandleOpen(m) == [handles EXCEPT ![m] = @ + 1]

(* A failure ends the reading of all files, that of the program its start. *)
Fails(m) ==
  /\ pending' = <<>>
  /\ phase' = IF phase = "starting" THEN "exited" ELSE phase
  /\ handles' = HandleOpen(m)
  /\ UNCHANGED <<reloads, cmdvars, svs_modules, provides_list, events_table, handlers>>

(* A function or event was not found, or mod_load found its tables, log or *)
(* settings unfit, which it does before it hangs on any list.              *)
LoadFails(m) ==
  /\ Fails(m)
  /\ modattach' = Attached(m)

(* Children are loaded when the module is.                                 *)
LoadSucceeds(m) ==
  /\ Unmet(m) = Len(Requires[m]) + 1
  /\ handles' = [handles EXCEPT ![m] = @ + 1]
  /\ modattach' = Attached(m)
  /\ svs_modules' = svs_modules \union {m}
  /\ provides_list' = ProvidesRegistered(m)
  /\ events_table' = EventsRegistered(m)
  /\ handlers' = HandlersAdded(m)
  /\ pending' = ModulesFile(m) \o Tail(pending)
  /\ CommandsAdded(m)
  /\ UNCHANGED <<reloads, phase>>

(* module_load of the next module of the files, which is not loaded: files *)
(* name a module once, and LOAD asks first.                                *)
LoadNext ==
  /\ pending # <<>>
  /\ handles[Head(pending)] < MaxHandles
  /\ LET m == Head(pending) IN LoadFails(m) \/ LoadSucceeds(m)

Started ==
  /\ phase = "starting" /\ pending = <<>>
  /\ phase' = "running"
  /\ UNCHANGED <<reloads, cmdvars, pending, handles, svs_modules, provides_list, modattach,
                 events_table, handlers>>

(* OperServ MODULE *)
MayCommand ==
  /\ phase = "running" /\ pending = <<>>
  /\ HandlersFor(msglist["operserv"], 1) = <<[msg |-> 1, owner |-> "os_module"]>>

ModuleLoad(m) ==
  /\ MayCommand
  /\ m \notin svs_modules
  /\ pending' = <<m>>
  /\ UNCHANGED <<reloads, cmdvars, phase, handles, svs_modules, provides_list, modattach,
                 events_table, handlers>>

-----------------------------------------------------------------------------
(* Unloading                                                               *)

(* check_for_functions *)
InUse(m) == \E f \in Provides(m) \ Events : modattach[f] # <<>>

(* module_delall_attach puts the last module in the place of one it takes  *)
(* off, and does not look at it again.                                     *)
DetachedNotSwapped(s, m) == IF Contains(s, m) THEN Front(s) ELSE s

Detached(s, m) ==
  LET after[i \in 0..Len(s)] ==
        IF i = 0 THEN s
        ELSE LET t == after[i-1]
             IN  IF i <= Len(t) /\ t[i] = m
                 THEN SubSeq(ReplaceAt(t, i, t[Len(t)]), 1, Len(t) - 1)
                 ELSE t
  IN  after[Len(s)]

(* irc_DelEvent of mod_unload takes one off, mod_del_all_mod_events all.   *)
DelEvent(list, m) == RemoveFirst(list, m)

NoEventActionsDeleted(list, m) == list

EventActionsDeleted(list, m) == Without(list, {m})

HandlersWithout(m) ==
  [l \in Lists |-> IF l \in Events THEN EventActionsDeleted(handlers[l], m)
                   ELSE IF l \in Adds(m) \ Leaves(m) THEN DelEvent(handlers[l], m)
                   ELSE handlers[l]]

ModuleUnload(m) ==
  /\ MayCommand
  /\ m \in svs_modules /\ m # "os_module"
  /\ ~InUse(m)
  /\ svs_modules' = svs_modules \ {m}
  /\ provides_list' = provides_list \ Provides(m)
  /\ modattach' = [f \in Functions |->
                     IF f \in Provides(m) THEN <<>> ELSE Detached(modattach[f], m)]
  /\ handlers' = HandlersWithout(m)
  /\ handles' = [handles EXCEPT ![m] = @ - 1]
  /\ CommandsDeleted(m)
  /\ UNCHANGED <<reloads, phase, pending, events_table>>

ModulesNext ==
  \/ LoadNext \/ Started
  \/ \E m \in Modules : ModuleLoad(m)
  \/ \E m \in reloads : ModuleUnload(m)

-----------------------------------------------------------------------------
(* Whatever failed to load and however often it was tried: the addresses a *)
(* loaded module has taken are in modules that are loaded, which know that *)
(* it is attached to them and so will not be unloaded; and an entry of     *)
(* modattach points to the mod_info of a module that is still mapped,      *)
(* though failed loads leave entries behind and module_delall_attach       *)
(* overlooks some: check_for_functions reads the name there.               *)
AttachmentsSound ==
  /\ \A m \in svs_modules : \A f \in ToSet(Requires[m]) \ Events :
       f \in provides_list /\ Contains(modattach[f], m)
  /\ \A f \in Functions : \A m \in ToSet(modattach[f]) : Mapped(m)

(* In whatever order modules were loaded again: a loaded module is called  *)
(* once for an event and answers to its commands and triggers, which HELP  *)
(* lists in their order and without those of modules that are gone.        *)
LoadedAnswer ==
  /\ \A m \in svs_modules :
       /\ \A l \in Adds(m) \ Leaves(m) :
            Cardinality({i \in DOMAIN handlers[l] : handlers[l][i] = m}) = 1
       /\ \A c \in Commands(m) :
            /\ Contains(cmds[c.to], Entry(m, c))
            /\ c.answers => HandlersFor(msglist[c.to], c.cmd) = <<HandlerOf(m, c)>>
       /\ Triggers(m) => ChanHandlersFor(KickTrigger) # <<>>
  /\ \A s \in Services : \A i, j \in DOMAIN cmds[s] :
       /\ cmds[s][i].owner \in svs_modules
       /\ i < j => cmds[s][i].cmd < cmds[s][j].cmd

(* os_module.c:137 "it's safe to unload the module now": neither an event  *)
(* nor a command leads to code that is not mapped.                         *)
SafeToUnload ==
  /\ \A l \in Lists : \A m \in ToSet(handlers[l]) : Mapped(m)
  /\ \A s \in Services : \A h \in ToSet(msglist[s]) : Mapped(h.owner)

=============================================================================
