------------------------------ MODULE Connection ------------------------------
(***************************************************************************)
(* The connection to the IRC daemon: how it comes up (modules/irc.c and    *)
(* libircservice/src/initconn.c), how what is read becomes lines (ircdio.c,*)
(* sockutil.c, irc_parse.c), and what the daemon is told of local users.   *)
(*                                                                         *)
(* A line is a command and one parameter, two tokens; a read may end       *)
(* between any two of them, or between the CR and the LF that follow. What *)
(* is written reaches the daemon at once, what the daemon sends waits in   *)
(* the socket, so a KILL crosses anything that services write.             *)
(*                                                                         *)
(* The first server that introduces itself brings in what is kept in the   *)
(* database: the bots, with the channels they are on, and the S-lines.     *)
(*                                                                         *)
(* Left out: a socket whose send buffer is full. sockprintf then adds the  *)
(* -1 of write to its position (sockutil.c:118), so a byte is sent twice,  *)
(* or one from before the buffer is sent. ev_cs_new_server, which joins and*)
(* leaves the registered channels that are empty.                          *)
(***************************************************************************)
EXTENDS HashTable

CONSTANTS
  Locals,        \* nicks of local users
  Chans,         \* channels they join
  Hashings,      \* sets of nicks and channels of the first bucket, the rest falls in the second
  Bots,          \* local users of the table botserv, one at least
  BotChan,       \* the channel of botserv_chans
  Masks,         \* letters and masks of S-lines
  MaxSlines,     \* bound: S-lines ever added
  BufferSize,    \* what the input buffer holds, INBUFFER_SIZE - 2
  IRC_READ_TIMEOUT,
  Scenarios,     \* bound: sets of what happens in a behaviour
  MaxLines       \* bound: lines in flight, when reads may cut them or they may be KILLs

ASSUME ConnectionAssumption ==
  /\ BufferSize \in Nat /\ IRC_READ_TIMEOUT \in Nat
  /\ MaxLines \in Nat /\ MaxSlines \in Nat
  /\ Bots \in (SUBSET Locals) \ {{}} /\ BotChan \in Chans
  /\ IsFiniteSet(Bots) /\ Locals \intersect {"CR", "LF"} = {}
  /\ Scenarios \subseteq
       SUBSET {"timers", "time", "fragments", "locals", "channels", "kills", "closes", "servers",
                "tables"}

VARIABLES
  phase,         \* "loading", "netjoin" (irc_FullConnect), "loop" or "ended"
  now,           \* time(NULL)
  last_irc_read,
  stream,        \* bytes that wait in the socket
  buffer,        \* ircd_buffer_in: the bytes up to seekpos
  unread,        \* history: the lines sent but not parsed
  garbled,       \* history: irc_parse was handed something else
  closed,        \* the daemon has closed the connection
  localuserTable,
  channelTable,
  firsts,        \* a member of Hashings
  chanlist,      \* pairs of a local user and a channel it is on
  known,         \* what the daemon knows of locals
  known_on,      \* and of chanlist
  already_loaded,\* the first server was introduced
  os_sline,      \* rows [id, mask]
  next_sline,    \* its auto_increment
  slines,        \* the S-lines of the daemon
  features       \* a member of Scenarios

livevars == <<localuserTable, channelTable, firsts, chanlist>>

daemonvars == <<known, known_on>>

slinevars == <<os_sline, next_sline, slines>>

wirevars == <<stream, buffer, unread, garbled, closed>>

connvars == <<phase, now, last_irc_read, wirevars, livevars, daemonvars,
              already_loaded, slinevars, features>>

Connected == phase \in {"netjoin", "loop"}

Commands == {<<"PONG", "services">>, <<"PING", "daemon">>, <<"SERVER", "hub">>, <<"SERVER", "leaf">>}

Kill(u) == <<"KILL", u>>

(* Local users and channels, as their tables have them                     *)
Bucket(name) == IF name \in firsts THEN 0 ELSE 1

irc_FindLocalUser(u) == FoundIn(localuserTable, Bucket(u), u)

irc_FindChan(c) == FoundIn(channelTable, Bucket(c), c)

locals == {u \in Locals : irc_FindLocalUser(u)}

BotsOfTable == IF "servers" \in features THEN Bots ELSE {}

OnWire(line) == line \o <<"CR", "LF">>

Bytes(lines) == FlattenSeq([i \in DOMAIN lines |-> OnWire(lines[i])])

ConnectionInit(start) ==
  /\ features \in Scenarios
  /\ phase = "loading"
  /\ now = start /\ last_irc_read = start
  /\ stream = <<>> /\ buffer = <<>> /\ unread = <<>>
  /\ garbled = FALSE /\ closed = FALSE
  /\ localuserTable = EmptyTable({0, 1}) /\ channelTable = EmptyTable({0, 1})
  /\ firsts \in IF "channels" \in features THEN Hashings ELSE {Locals \union Chans}
  /\ chanlist = {}
  /\ known = {} /\ known_on = {}
  /\ already_loaded = FALSE
  /\ os_sline \in {{}} \union {{[id |-> 1, mask |-> m]} : m \in IF "servers" \in features THEN Masks ELSE {}}
  /\ next_sline = Cardinality(os_sline) + 1
  /\ slines = {}

-----------------------------------------------------------------------------
(* What the daemon is told                                                 *)

(* Nothing is written while is_connected is 0.                             *)
Listens == Connected /\ ~closed

(* irc_IntroduceUser of the users in U: NICK, and NJOIN for the channels in*)
(* `on` that they are on.                                                  *)
NJoins(U, on) == {p \in on : p[1] \in U}

Introduced(U, on) ==
  /\ known' = known \union U
  /\ known_on' = known_on \union NJoins(U, on)

-----------------------------------------------------------------------------
(* Local users                                                             *)

(* irc_CreateLocalUser                                                     *)
CreateLocal(u) ==
  /\ ~irc_FindLocalUser(u)
  /\ u \in BotsOfTable => already_loaded
  /\ localuserTable' = AddedTo(localuserTable, Bucket(u), u)
  /\ UNCHANGED <<channelTable, chanlist>>
  /\ IF Listens THEN Introduced({u}, chanlist) ELSE UNCHANGED daemonvars

(* irc_FindChan finds the channel, or a new one is made for the first member*)
MembersWith(U, c) == {p \in chanlist : irc_FindChan(c) \/ p[2] # c} \union (U \X {c})

ChannelsWith(c) == IF irc_FindChan(c) THEN channelTable ELSE AddedTo(channelTable, Bucket(c), c)

(* irc_ChanJoin: the daemon ignores the SJOIN of a nick it does not know.  *)
JoinLocal(u, c) ==
  /\ "channels" \in features \/ c = BotChan
  /\ irc_FindLocalUser(u) /\ <<u, c>> \notin chanlist
  /\ chanlist' = MembersWith({u}, c)
  /\ channelTable' = ChannelsWith(c)
  /\ known_on' = IF Listens /\ u \in known THEN known_on \union {<<u, c>>} ELSE known_on
  /\ UNCHANGED <<localuserTable, known>>

(* del_user_from_chan: a channel goes with its last member.                *)
Left(pairs) ==
  /\ chanlist' = chanlist \ pairs
  /\ LET empty == {c \in Chans : irc_FindChan(c) /\ \A p \in chanlist' : p[2] # c}
     IN  channelTable' = FoldSet(LAMBDA c, t : DeletedFrom(t, Bucket(c), c), channelTable, empty)

(* irc_ChanPart                                                            *)
PartLocal(u, c) ==
  /\ <<u, c>> \in chanlist
  /\ Left({<<u, c>>})
  /\ known_on' = IF Listens THEN known_on \ {<<u, c>>} ELSE known_on
  /\ UNCHANGED <<localuserTable, known>>

PairsOf(u) == {p \in Locals \X Chans : p[1] = u}

(* irc_QuitLocalUser, when a module is unloaded or a bot is dropped        *)
QuitLocal(u) ==
  /\ phase = "loop"
  /\ irc_FindLocalUser(u)
  /\ localuserTable' = DeletedFrom(localuserTable, Bucket(u), u)
  /\ Left(PairsOf(u))
  /\ IF Listens
     THEN known' = known \ {u} /\ known_on' = known_on \ PairsOf(u)
     ELSE UNCHANGED daemonvars

LocalStep ==
  /\ "locals" \in features
  /\ phase # "ended"
  /\ \E u \in Locals : \/ CreateLocal(u) \/ QuitLocal(u)
                       \/ \E c \in Chans : JoinLocal(u, c) \/ PartLocal(u, c)
  /\ UNCHANGED <<phase, now, last_irc_read, wirevars, firsts, already_loaded, slinevars, features>>

(* The bots are created and introduced, and join their channels, in        *)
(* ev_bs_new_server.                                                       *)
BotsLoaded ==
  FoldSet(LAMBDA u, t : AddedTo(t, Bucket(u), u), localuserTable, BotsOfTable)

-----------------------------------------------------------------------------
(* The daemon                                                              *)

InFlight == IF features \intersect {"fragments", "kills"} # {} THEN MaxLines ELSE 1

Sends(line) ==
  /\ Listens
  /\ Len(unread) < InFlight
  /\ stream' = stream \o OnWire(line)
  /\ unread' = Append(unread, line)
  /\ UNCHANGED <<phase, now, last_irc_read, buffer, garbled, closed, livevars,
                 already_loaded, slinevars, features>>

(* SERVER of its own before all else, PING, or the answer to that of       *)
(* irc_StartConnect                                                        *)
Introduces(name) == Contains(unread, <<"SERVER", name>>) \/ already_loaded

DaemonSends ==
  /\ \E line \in Commands :
       /\ line[1] = "SERVER" => "servers" \in features
       /\ "servers" \in features => (line = <<"SERVER", "hub">> <=> ~Introduces("hub"))
       /\ line[1] = "PONG" => phase = "netjoin" /\ ~Contains(unread, line)
       /\ Sends(line)
  /\ UNCHANGED daemonvars

(* A user or the daemon kills a local user.                                *)
DaemonKills(u) ==
  /\ "kills" \in features
  /\ u \in known
  /\ Sends(Kill(u))
  /\ known' = known \ {u}
  /\ known_on' = known_on \ PairsOf(u)

DaemonCloses ==
  /\ "closes" \in features
  /\ Listens
  /\ closed' = TRUE
  /\ UNCHANGED <<phase, now, last_irc_read, stream, buffer, unread, garbled,
                 livevars, daemonvars, already_loaded, slinevars, features>>

DaemonStep == DaemonSends \/ DaemonCloses \/ \E u \in Locals : DaemonKills(u)

-----------------------------------------------------------------------------
(* Connecting                                                              *)

Ends ==
  /\ phase' = "ended"
  /\ UNCHANGED <<now, last_irc_read, wirevars, livevars, daemonvars,
                 already_loaded, slinevars, features>>

(* irc_StartConnect: is_connected and server_sent are set.                 *)
Starts == phase' = "netjoin" /\ last_irc_read' = now

(* The local users that modules have created so far are introduced.        *)
Connects ==
  /\ phase = "loading"
  /\ Starts
  /\ UNCHANGED livevars
  /\ Introduced(Walked(localuserTable), chanlist)
  /\ UNCHANGED <<now, wirevars, already_loaded, slinevars, features>>

(* sock_conn fails and the process exits.                                  *)
ConnectFails == phase = "loading" /\ Ends

(* The write to a closed connection raises SIGPIPE: setup_signals puts it  *)
(* in sa_mask, which does not ignore it.                                   *)
Sigpipe == "closes" \in features /\ Connected /\ closed /\ Ends

-----------------------------------------------------------------------------
(* check_ircd_buffer                                                       *)

CRs(b) == {0} \union {i \in DOMAIN b : b[i] = "CR"}

(* The bytes between two CRs, less the LF before them                      *)
LineBetween(b, from, to) ==
  LET s == SubSeq(b, from + 1, to - 1)
  IN  IF s # <<>> /\ Head(s) = "LF" THEN Tail(s) ELSE s

(* Where line k of the buffer ends, and line k + 1 begins                  *)
EndOf(b, k) == CHOOSE i \in CRs(b) : Cardinality({j \in CRs(b) : j < i}) = k

(* The lines of the buffer and what memmove keeps of it                    *)
LinesIn(b) ==
  [k \in 1..Cardinality(CRs(b)) - 1 |-> LineBetween(b, EndOf(b, k - 1), EndOf(b, k))]

NothingKept(b) == <<>>

Kept(b) == SubSeq(b, Max(CRs(b)) + 1, Len(b))

(* m_pong, m_ping (its answer is left out): lines without the parameter    *)
(* are ignored.                                                            *)
Ponged(lines) == \E line \in ToSet(lines) : Len(line) > 1 /\ line[1] = "PONG"

(* m_kill of a local user introduces it again, one that has quit is unknown *)
Killed(lines) == {u \in locals : Contains(lines, Kill(u))}

(* m_server: a server other than the first changes nothing here.           *)
FirstServer(lines) ==
  ~already_loaded /\ \E line \in ToSet(lines) : Len(line) > 1 /\ line[1] = "SERVER"

(* ev_os_new_server *)
SlinesSent == slines \union {r.mask : r \in os_sline}

(* irc_parse and the raw handlers of what it is handed                     *)
Parsed(lines) ==
  /\ phase' = IF Ponged(lines) THEN "loop" ELSE phase
  /\ already_loaded' = (already_loaded \/ FirstServer(lines))
  /\ \/ /\ FirstServer(lines)
        /\ localuserTable' = BotsLoaded
        /\ chanlist' = MembersWith(BotsOfTable, BotChan)
        /\ channelTable' = ChannelsWith(BotChan)
        /\ IF closed THEN UNCHANGED <<daemonvars, slines>>
           ELSE /\ Introduced(BotsOfTable \union Killed(lines), MembersWith(BotsOfTable, BotChan))
                /\ slines' = SlinesSent
     \/ /\ ~FirstServer(lines)
        /\ UNCHANGED <<localuserTable, channelTable, chanlist, slines>>
        /\ IF closed THEN UNCHANGED daemonvars ELSE Introduced(Killed(lines), chanlist)

MayRead ==
  LET most == Min({BufferSize - Len(buffer), Len(stream)})
  IN  IF "fragments" \in features THEN 1..most ELSE {most} \ {0}

(* sockbuf_read returns k bytes.                                           *)
Reads(k) ==
  LET b     == buffer \o SubSeq(stream, 1, k)
      lines == LinesIn(b)
      rest  == Min({Len(lines), Len(unread)})
  IN  /\ stream' = SubSeq(stream, k + 1, Len(stream))
      /\ buffer' = Kept(b)
      /\ unread' = SubSeq(unread, rest + 1, Len(unread))
      /\ garbled' = (garbled \/ lines # SubSeq(unread, 1, Len(lines)))
      /\ last_irc_read' = now
      /\ Parsed(lines)
      /\ UNCHANGED <<now, closed, firsts, os_sline, next_sline, features>>

NeverTimedOut == FALSE

TimedOut == now - last_irc_read > IRC_READ_TIMEOUT

(* End of file, unless the buffer has no room for it                       *)
AtEnd == closed /\ stream = <<>> /\ Len(buffer) < BufferSize

(* There is nothing to read, or no room.                                   *)
NothingRead == MayRead = {} /\ ~AtEnd /\ UNCHANGED connvars

CheckBuffer ==
  \/ (TimedOut \/ AtEnd) /\ Ends
  \/ ~TimedOut /\ (NothingRead \/ \E k \in MayRead : Reads(k))

-----------------------------------------------------------------------------
(* SLINE ADD and DEL (modules/os_sline.c), by operators, who are there once*)
(* their server is                                                         *)

SlineStored(m) ==
  /\ already_loaded /\ next_sline <= MaxSlines
  /\ os_sline' = os_sline \union {[id |-> next_sline, mask |-> m]}
  /\ next_sline' = next_sline + 1
  /\ slines' = IF Listens THEN slines \union {m} ELSE slines

NoneFound(m) == {}

find_sline(m) == {r \in os_sline : r.mask = m}

SlineAdd(m) == find_sline(m) = {} /\ SlineStored(m)

SlineDel(r) ==
  /\ already_loaded
  /\ os_sline' = os_sline \ {r}
  /\ slines' = IF Listens THEN slines \ {r.mask} ELSE slines
  /\ UNCHANGED next_sline

SlineStep ==
  /\ "servers" \in features /\ phase # "ended"
  /\ (\E m \in Masks : SlineAdd(m)) \/ (\E r \in os_sline : SlineDel(r))
  /\ UNCHANGED <<phase, now, last_irc_read, wirevars, livevars, daemonvars, already_loaded, features>>

-----------------------------------------------------------------------------
(* However the reads cut what the daemon sends: irc_parse is handed its    *)
(* lines, each once, whole and in order, and no byte is lost or read twice *)
(* when the rest of a line is moved to the start of the buffer.            *)
LinesIntact ==
  /\ ~garbled
  /\ buffer \o stream \in {Bytes(unread), <<"LF">> \o Bytes(unread)}

(* initconn.c:160 "lets introduce our local clients": whichever were there *)
(* before the connection, come later or with the first server, share a     *)
(* bucket, leave again or are killed while they do, the daemon knows the   *)
(* local users and the channels they are on, as far as no KILL is on its   *)
(* way that will introduce them again.                                     *)
DaemonFollows ==
  Listens => \A u \in Locals : ~Contains(unread, Kill(u)) =>
    /\ u \in known <=> u \in locals
    /\ known_on \intersect PairsOf(u) = chanlist \intersect PairsOf(u)

(* os_sline.c:110 "avoid duplicates": what DEL by number takes away is not *)
(* still in force by another row, so the S-lines of the daemon are those   *)
(* of the table, once they were sent.                                      *)
SlinesFollow ==
  Listens /\ already_loaded => slines = {r.mask : r \in os_sline}

=============================================================================
