------------------------------ MODULE Dispatch ------------------------------
(***************************************************************************)
(* Events (libircservice/src/event.c, src/modevents.c) called through the  *)
(* lists that Modules keeps. A handler raises further events while its own *)
(* is under way; each kind of event has one flag that says whether to call *)
(* no more handlers, for all the events of that kind that are under way.   *)
(*                                                                         *)
(* A behaviour follows one user that connects or joins a channel at a time,*)
(* through the calls that are under way: `stack` holds what is left to do, *)
(* the innermost first. Handlers are known by what they do to the user, to *)
(* its membership and to the flags.                                        *)
(*                                                                         *)
(* Left out: user events of OperServ that kill on ON_LOGIN or kill before  *)
(* another event that matches (nothing stops their callers), channels freed*)
(* with the last member (see IrcNetwork), among them one whose message was *)
(* on its way when the local user left: m_privmsg goes on with it after the*)
(* handlers of all channels (initconn.c:325).                              *)
(***************************************************************************)
EXTENDS Modules

VARIABLES
  stack,              \* what is left to do: [do, list, rest]
  was_aborted,        \* of event.c
  event_was_aborted,  \* of modevents.c
  alive,              \* the user exists
  member              \* it has an IRC_ChanNode on the channel

vars == <<modvars, stack, was_aborted, event_was_aborted, alive, member>>

Init ==
  /\ ModulesInit
  /\ stack = <<>>
  /\ was_aborted = FALSE /\ event_was_aborted = FALSE
  /\ alive = FALSE /\ member = FALSE

Do(deed) == <<[do |-> deed, list |-> "", rest |-> <<>>]>>

Raise(list) == <<[do |-> "raise", list |-> list, rest |-> <<>>]>>

Call(list, rest) == <<[do |-> "call", list |-> list, rest |-> rest]>>

-----------------------------------------------------------------------------
(* What handlers do                                                        *)

(* del_user_from_chan *)
Parts == Raise("ET_CHAN_PART") \o Do("part")

(* irc_Kill *)
Killed == Raise("ET_KILL") \o (IF member THEN Parts ELSE <<>>) \o Do("free")

(* The user is gone, so the event is aborted, when the kill has raised and *)
(* ended events of its own.                                                *)
AbortThenKill == Do("abort") \o Killed

KillThenAbort == Killed \o Do("abort")

KickThenAbort == Parts \o Do("mod_abort")

Handler(m, list) ==
  CASE m = "sessionlimit" /\ list = "ET_NEW_USER" ->
         {Do("user"), Do("user") \o KillThenAbort}
    [] m = "os_uevent" /\ list = "ET_NEW_USER" ->
         {Do("user"), Do("user") \o KillThenAbort}
    [] m = "os_uevent" /\ list = "ET_CHAN_JOIN" ->
         {Do("node"), Do("node") \o KillThenAbort}
    [] m = "nickserv" /\ list = "ET_NEW_USER" ->
         {Do("user"), Do("user") \o Raise("e_nick_identify") \o Do("user")}
    [] m = "chanserv" /\ list = "ET_CHAN_JOIN" ->
         {Do("node"), Do("node") \o Raise("e_regchan_join")}
    [] m \in {"cs_akick", "cs_role"} /\ list = "e_regchan_join" ->
         {Do("node"), Do("node") \o KickThenAbort}
    [] OTHER -> {Do("user")}

-----------------------------------------------------------------------------
(* The calls                                                               *)

Idle == phase = "running" /\ pending = <<>> /\ stack = <<>>

(* m_nick: the modes of the user are set if the event was not aborted.     *)
NewUser ==
  /\ Idle /\ ~alive
  /\ alive' = TRUE
  /\ stack' = Raise("ET_NEW_USER") \o Do("umode")
  /\ UNCHANGED <<modvars, was_aborted, event_was_aborted, member>>

(* m_sjoin of a user *)
Join ==
  /\ Idle /\ alive /\ ~member
  /\ member' = TRUE
  /\ stack' = Raise("ET_CHAN_JOIN")
  /\ UNCHANGED <<modvars, was_aborted, event_was_aborted, alive>>

(* m_kill, m_quit *)
UserLeaves ==
  /\ Idle /\ alive
  /\ stack' = Killed
  /\ UNCHANGED <<modvars, was_aborted, event_was_aborted, alive, member>>

Command(hs) ==
  [i \in DOMAIN hs |-> [do |-> "command", list |-> "", rest |-> <<hs[i].owner>>]]

(* m_privmsg: a message of the user to a service                           *)
Message(s, msg) ==
  /\ Idle /\ alive
  /\ s \in svs_modules
  /\ stack' = Command(HandlersFor(msglist[s], msg))
  /\ UNCHANGED <<modvars, was_aborted, event_was_aborted, alive, member>>

(* ... to the channel; no module hangs on the list of a single channel.    *)
ChanMessage ==
  /\ Idle /\ alive
  /\ stack' = Command(ChanHandlersFor(KickTrigger))
  /\ UNCHANGED <<modvars, was_aborted, event_was_aborted, alive, member>>

Top == Head(stack)

Below == Tail(stack)

Aborted(list) == IF list \in Events THEN event_was_aborted ELSE was_aborted

(* irc_CallEvent, mod_do_event: the flag is reset                          *)
RaiseEvent ==
  /\ Top.do = "raise"
  /\ stack' = Call(Top.list, handlers[Top.list]) \o Below
  /\ IF Top.list \in Events
     THEN event_was_aborted' = FALSE /\ UNCHANGED was_aborted
     ELSE was_aborted' = FALSE /\ UNCHANGED event_was_aborted
  /\ UNCHANGED <<alive, member>>

(* Their loops *)
CallHandler ==
  /\ Top.do = "call"
  /\ IF Top.rest = <<>> \/ Aborted(Top.list) THEN stack' = Below
     ELSE \E deeds \in Handler(Head(Top.rest), Top.list) :
            stack' = deeds \o Call(Top.list, Tail(Top.rest)) \o Below
  /\ UNCHANGED <<was_aborted, event_was_aborted, alive, member>>

(* The handler of a message: bs_g_kick without a target kicks its sender.  *)
RunCommand ==
  /\ Top.do = "command"
  /\ \/ stack' = Do("user") \o Below
     \/ /\ Triggers(Head(Top.rest)) /\ member
        /\ stack' = Parts \o Do("user") \o Below
  /\ UNCHANGED <<was_aborted, event_was_aborted, alive, member>>

(* irc_AbortThisEvent, mod_abort_event *)
Abort ==
  /\ Top.do \in {"abort", "mod_abort"}
  /\ was_aborted' = (was_aborted \/ Top.do = "abort")
  /\ event_was_aborted' = (event_was_aborted \/ Top.do = "mod_abort")
  /\ stack' = Below
  /\ UNCHANGED <<alive, member>>

(* Uses of the user and its node, and their end                            *)
Touch ==
  /\ Top.do \in {"user", "node", "umode"}
  /\ stack' = Below
  /\ UNCHANGED <<was_aborted, event_was_aborted, alive, member>>

Part ==
  /\ Top.do = "part"
  /\ member' = FALSE
  /\ stack' = Below
  /\ UNCHANGED <<was_aborted, event_was_aborted, alive>>

Free ==
  /\ Top.do = "free"
  /\ alive' = FALSE
  /\ stack' = Below
  /\ UNCHANGED <<was_aborted, event_was_aborted, member>>

Step ==
  /\ stack # <<>>
  /\ RaiseEvent \/ CallHandler \/ RunCommand \/ Abort \/ Touch \/ Part \/ Free
  /\ UNCHANGED modvars

Next ==
  \/ stack = <<>> /\ ModulesNext
       /\ UNCHANGED <<stack, was_aborted, event_was_aborted, alive, member>>
  \/ NewUser \/ Join \/ UserLeaves \/ ChanMessage
  \/ \E s \in Services : \E msg \in 0..4 : Message(s, msg)
  \/ Step

Spec == Init /\ [][Next]_vars

-----------------------------------------------------------------------------
(* event.c:46 "used from event handlers to abort processing of further     *)
(* events ... usefull if we destroy the data target of the event": however *)
(* calls nest and whatever was reloaded in between, a handler is mapped    *)
(* when it is called, it is called with a user and a node that exist, and  *)
(* its caller touches the user only if no handler has killed it.           *)
CalledWithLiveData ==
  stack # <<>> =>
    /\ Top.do = "user" => alive
    /\ Top.do = "node" => member
    /\ Top.do = "umode" => alive \/ was_aborted
    /\ Top.do = "command" => Mapped(Head(Top.rest))
    /\ Top.do = "call" /\ Top.rest # <<>> /\ ~Aborted(Top.list) => Mapped(Head(Top.rest))

=============================================================================
