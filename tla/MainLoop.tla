------------------------------- MODULE MainLoop -------------------------------
(***************************************************************************)
(* The main loop (irc_FullConnect, irc_LoopWhileConnected): turns of       *)
(* irc_DoEvents, each of which runs the timers and then reads the socket.  *)
(*                                                                         *)
(* irc_CurrentTime, which the timers go by, only moves when a line is      *)
(* parsed; the timers of a silent daemon wait until it speaks or until     *)
(* IRC_READ_TIMEOUT ends the process.                                      *)
(***************************************************************************)
EXTENDS Timers, Connection, TableVersions

(* The clock is a Unix time: the first pass is made in the first turn.     *)
ASSUME MainLoopAssumption == Start > TIMER_INTERVAL

VARIABLE
  turn   \* what irc_DoEvents does next, "timers" or "buffer"

timervars == <<timers_list, timer_count, alive, added, last_run, freed_passed>>

mainvars == <<vars, connvars, tablevars, turn>>

BufferFirst == "buffer"

FirstOfTurn == "timers"

MainInit ==
  /\ Init
  /\ ConnectionInit(Start)
  /\ TablesInit("tables" \in features)
  /\ turn = FirstOfTurn

(* Modules are loaded, once their tables are as they expect them, and      *)
(* connect to the daemon.                                                  *)
Startup ==
  /\ phase = "loading"
  /\ \/ TablesNext /\ UNCHANGED connvars
     \/ TablesReady /\ (Connects \/ ConnectFails) /\ UNCHANGED tablevars
  /\ UNCHANGED <<vars, turn>>

(* check_u_timer_events, check_c_timer_events                              *)
TimersTurn ==
  /\ Connected
  /\ turn = "timers" /\ turn' = "buffer"
  /\ CheckTimers \/ (irc_CurrentTime - last_run <= TIMER_INTERVAL /\ UNCHANGED vars)
  /\ UNCHANGED <<connvars, tablevars>>

BufferTurn ==
  /\ Connected
  /\ turn = "buffer" /\ turn' = "timers"
  /\ CheckBuffer
  /\ irc_CurrentTime' = IF unread' # unread THEN now ELSE irc_CurrentTime
  /\ UNCHANGED <<timervars, tablevars>>

(* What the handlers of lines do, at the time of the line: users and       *)
(* channels come and go and timers are added and cancelled.                *)
Handlers ==
  /\ "timers" \in features
  /\ Connected /\ turn = "timers" /\ irc_CurrentTime = now
  /\ \E o \in Owners : Create(o) \/ AddTimer(o) \/ CancelTimers(o) \/ Destroy(o)
  /\ UNCHANGED <<connvars, tablevars, turn>>

Clock ==
  /\ "time" \in features
  /\ Connected
  /\ now < MaxNow
  /\ now' = now + 1
  /\ UNCHANGED <<vars, phase, last_irc_read, wirevars, livevars, daemonvars,
                 already_loaded, slinevars, features, tablevars, turn>>

Network ==
  /\ "tables" \notin features
  /\ LocalStep \/ SlineStep \/ DaemonStep \/ Sigpipe
  /\ UNCHANGED <<vars, tablevars, turn>>

MainNext == Startup \/ TimersTurn \/ BufferTurn \/ Handlers \/ Clock \/ Network

(* A half of a turn; one of the two above can be taken whenever this can.  *)
Turn == Connected /\ turn' \in {"timers", "buffer"} \ {turn}

(* The loop never waits for anything but the next turn, and the clock goes *)
(* on. The daemon need not send anything.                                  *)
MainSpec ==
  /\ MainInit /\ [][MainNext]_mainvars
  /\ WF_turn(Turn) /\ WF_mainvars(Clock)

-----------------------------------------------------------------------------
(* The loop drives the timers of Timers: its turns are their passes, and   *)
(* the lines of the daemon their clock.                                    *)
ImplementsTimers == Init /\ [][Next]_vars

(* Every timer leaves the list, fired or cancelled, or the loop ends, even *)
(* when the daemon sends nothing and irc_CurrentTime stands still.         *)
FiresOrEnds ==
  \A i \in 1..MaxAdds :
    (\E n \in timers_list : n.id = i) ~>
      (phase = "ended" \/ ~(\E n \in timers_list : n.id = i))

=============================================================================
