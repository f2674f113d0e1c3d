# TAPS IRC Services in TLA+

Models, model-checking runs and machine-checked proofs about TAPS (a set of IRC
services: NickServ, ChanServ, OperServ, MemoServ, BotServ) in C. The source is
the only reference: every definition names, in `PROJECT.json` under `map`, the
lines it stands for. Paths below are those of the repository.

## 1. The system

TAPS is one process with one thread. `src/ircsvs.c` loads modules, connects to
an IRC daemon and then calls `irc_DoEvents` for ever: it runs the timers that
are due, reads lines from the daemon and calls one handler per line. Everything
happens inside those calls: a handler changes the mirror of the network, raises
events, the event handlers of modules execute SQL statements, send messages and
change the mirror again. There are no locks and no other threads; what makes the
program hard is that **handlers nest**. A loop that holds a pointer calls
handlers that may free what it points to, two copies of the same fact are
changed by different functions, and the network and the database change without
telling everybody.

| Component | Code | State | Operations | What is hard | What makes it correct |
|---|---|---|---|---|---|
| Main loop and connection | `src/ircsvs.c`, `modules/irc.c`, `libircservice/src/{initconn,ircdio,sockutil,irc_parse,send}.c` | phase of the connection, input buffer, clocks | start, connect, turn, read, end | reads end anywhere; a silent daemon stops the clock; kills cross commands | lines arrive whole, the daemon and services agree on local users, timers fire or the wait ends |
| Timers | `libircservice/src/timer.c` | two lists of nodes, a count per owner | add, cancel, pass | handlers free owners during the pass; cancelled nodes stay until the next pass | no handler is called with a freed owner |
| Hash tables | `libircservice/src/hash.c` | chains of users and channels | add, delete, find, walk | one chain rewritten while others are walked | what was added is found until deleted |
| Network mirror | `libircservice/src/{user,server,channel,umode}.c` | servers, users and channels, two membership lists, counters, pointers | SERVER, SQUIT, NICK, QUIT, KILL, SJOIN, PART, KICK, creation and removal of local users | membership stored twice; counters adjusted at each end; join handlers inside the loop of `m_sjoin` | the lists agree, nobody dangling is listed, counters exact |
| Channel modes | `libircservice/src/cmode.c`, `modules/cs_*.c` | modes, statuses and bans of channels, mode lock | MODE, lock, OP, VOICE, KICK, UNBAN, CLEAR | lines that cross; handlers that answer before the change they answer is made | lock, ops and bans agree once every line is read |
| Events and modules | `libircservice/src/event.c`, `src/{modules,modevents,suser}.c` | handler lists, abort flags, attached functions, commands | load, unload, attach, raise, abort | nested events share a flag; loads fail half way; modules unload in any order | nobody is called that is gone, handlers get live users |
| DBMem | `src/mysql.c` 740-1115 | a table and its rows in memory | load, insert, delete, rename, expire | two copies changed one after the other; swaps under a running loop | memory implements the table |
| Versions of tables | `src/mysql.c` 570-722, `modules/sql/` | a version per module, the shape of its tables | install, upgrade | no transaction, restarts from the middle | a recorded version has all it brings |
| Session limits | `modules/sessionlimit.c` | a record per host, exceptions in a DBMem | new user, quit, kill, commands, expiry | the kill of a new user comes back into the module | counts are connections, limits are those in force |
| User events | `modules/os_uevent.c` | an index by event into a DBMem | add, delete, expire, four events | positions move with deletions; actions kill the user | every index entry is a row of its event |
| NickServ | `modules/nickserv.c`, `modules/ns_*.c` | `snid`, `req_snid`, flags and timers of users; records in the database | identify, register, login, drop, suspend, nick changes | forced nick changes answered later; caches of users online | whoever is identified has a record and gave its password |
| Tables of nicks | `modules/{ns_group,ns_buddy,cs_ajoin,memoserv}.c`, `modules/ms_*.c` | groups, buddies, joins, memos; the groups of users in memory | commands, identification, drop, expiry | the cache beside the database; pairs of rows; masters that go | cached groups are memberships, friendships have two sides |
| ChanServ | `modules/chanserv.c`, `src/chanrecord.c`, `modules/cs_*.c` | rows, records shared by reference count, akicks | open, close, register, drop, suspend | who closes a record that several handlers change | a record is open while its channel has users, and is that of its row |
| Roles | `modules/cs_role.c` | roles with masters, one assignment per nick | create, drop, set, add, accept, reject | walks that only end if there is no cycle; statements that fail half way | no cycle, no permission without acceptance |
| BotServ | `modules/botserv.c`, `modules/bs_*.c` | bots as local users, bot of each channel | create, assign, drop, triggers | bots come and go with channels | a bot is where it is assigned |
| Languages, configuration, logs, masks | the rest of `src/` and `libircservice/src/` | tables | | I/O and pure functions | |

How they interact: `libircservice` calls modules only through events
(`ET_NEW_USER`, `ET_CHAN_JOIN`, ...), message handlers and timers; modules call
`libircservice` directly (`irc_Kill`, `irc_ChanJoin`, ...), which raises events
again. Modules share structures through pointers kept in users and channels
(`extra[]`, `sdata`, `snid`) and call one another through symbols that the
module loader attaches.

## 2. Modules

| Module | Models | Extends |
|---|---|---|
| `Timers` | the timer lists | |
| `HashTable` | chains of a hash table, as operators | |
| `Connection` | the connection, its buffer, and the local users, bots and S-lines the daemon is told of | `HashTable` |
| `TableVersions` | installation and upgrade of the tables of a module | |
| `MainLoop` | the start and the turns of `irc_DoEvents` | `Timers`, `Connection`, `TableVersions` |
| `IrcNetwork` | the network mirror, with the channel guard and the kill of a join handler as its nested callers | |
| `ChanModes` | the modes of a channel on the daemon and in the mirror | |
| `Modules` | loading, unloading and attachment of modules, their commands and events | |
| `Dispatch` | the calls of handlers, nested and aborted | `Modules` |
| `CachedTable` | what the owner of a DBMem relies on | |
| `DBMem` | the cached table; `ImplementsCachedTable` maps it to `CachedTable` | |
| `Sessions` | the session limits, with the DBMem of their exceptions | `DBMem` |
| `UEvents` | the user events, with their DBMem and its index | `DBMem` |
| `NickServ` | who is identified for which nick, with the network that carries out requests late | |
| `Nicks` | what other tables see of NickServ | |
| `NickGroups`, `Memos`, `NickLists` | groups; memos; buddies and joins | `Nicks` |
| `NickTables` | these together | `NickGroups`, `Memos`, `NickLists` |
| `ChanServ` | registered channels in the database and in memory, their ban lists and bots | |
| `ChanRoles` | the roles of one channel | |
| `MCChanServ`, `MCChanRoles` | symmetry, for TLC | |
| `MainLoop_proofs` | theorems about `Timers`, the loop, S-lines, lines, local users and table versions | `MainLoop` |
| `DBMem_proofs` | theorems about `DBMem`, `Sessions` and `UEvents` | `Sessions`, `UEvents` |
| `ChanRoles_proofs` | theorems about `ChanRoles` and `ChanModes` | `ChanRoles`, `ChanModes` |
| `IrcNetwork_proofs`, `NickServ_proofs`, `NickTables_proofs`, `ChanServ_proofs`, `Dispatch_proofs` | theorems | the module |

### Timers

`timer.c` holds the same code twice, for users and for channels; one module
stands for both. A node is a record with a growing `id`: the code adds at the
head, so the order of the list is descending `id` and the list can be a set.
Owners are addresses, because a struct that is freed may come back at the same
address. `CheckTimers` is one pass; its handlers may free their owner (`Killers`,
e.g. `irc_Kill`) or add another timer (`Again`, as `timer_os_sysstats` does), and
`MarkedWhenReached` says what the pass finds on a later node after that.
`last_run` is assigned a difference of times, as in the code. The owners in
`Cancellable` are users, whose timers any command may cancel while they live; the
others are channels and users whose timers are cancelled only when the struct is
freed. Only the count of the former can drift, and the two are checked side by
side in one list. Left out: the tag and the handler of a node, which decide nothing.

### Connection, HashTable, MainLoop

A turn of `irc_DoEvents` is two steps, the timers and the buffer, and the process
starts with its tables (`TableVersions`) and `irc_StartConnect`. `irc_CurrentTime` is set by
`check_ircd_buffer` for each line it parses and nowhere else, so timers stand still
while the daemon is silent, until `IRC_READ_TIMEOUT` ends the loop: services do not
connect again. SIGPIPE is not ignored (`setup_signals` sets `sa_mask`, not the
handler), so a write after the daemon has closed ends the process too.

Input is a sequence of tokens, a command, its parameter, CR and LF; a read returns any
prefix of what is under way and the buffer keeps what has no CR yet. Output is what the
daemon has heard (`DaemonFollows` compares it with what services believe). `m_kill` of a
local user introduces it again, with its channels, whatever services sent before the
KILL was read. The local users and channels are chains of a hash table; `Hashings` says which
of them share a bucket. The first SERVER line loads the bots and sends the S-lines.
`Scenarios` lists what happens in a behaviour, so that the parts that do not affect each
other are not multiplied.

Left out: a KICK of a local user that the daemon reports (`m_kick`), a remote user that takes the nick of a local one (`user.c` 236-242,
the local user is introduced again) or has it when a local one is created (465-474, it is killed), a full send buffer (on EAGAIN `sockprintf` adds the -1 of `write` to its position,
`sockutil.c` 118, and repeats a byte), the rehash that a SIGHUP does inside the signal
handler (`ircsvs.c` 297), and the joins and parts of `ev_cs_new_server`.

### TableVersions

`sql_check_inst_upgrade` as a list of statements still to do, from the version that is
recorded to that of the code; `chanserv` stands for all modules since its upgrades are the
longest (`chanserv.2.sql` to `chanserv.4.sql`, and the removal of lost nicks before the foreign
keys of version 3). The process may end at any statement (`StartAgain`) and then starts over.
`misread` is a SELECT of the version that fails and reads as 0. A statement stands for its file or, where
`sql_upgrade` executes it once per row, for all rows: a start cut short among them is left out; the next one selects the rows that remain.

### IrcNetwork

An action is a whole message or command. The exception is `m_sjoin`: its loop
takes one step per nick (`SjoinNick`, `SjoinAkick`, `SjoinKill`,
`SjoinUnknown`) while everything else waits (`Idle`), because the handlers that
each nick calls change what the loop holds. `userlist` of a channel and
`chanlist` of a user are two sets changed by separate operators, as
`add_user_to_chan`, `add_chan_to_user`, `del_user_from_chan` and
`del_chan_from_user` are separate functions. `fault` records what would make the
process fail: an assertion (`assert`), use of a channel that was freed
(`freed_channel`), a second list node of one member (`duplicate`); a behaviour
ends there. `SjoinAkick` stands for the handlers of `cs_akick.c` and `cs_role.c`, which
are the same: when the banned user is the only one counted, ChanServ joins, kicks
it and stays until a timer of 30 seconds. A local user joins by itself only where
the code lets it: services join the log channel when they are loaded, and bots
join a channel when it has no local user.

Assumed of the network: no SJOIN introduces a current member, and without
`crossing` it names no user the services have killed. Left out: peak counters,
topics, time stamps, hosts, modes other than +S, the exit of the
process on a SQUIT of its own name.

### ChanModes

One registered channel twice: `real` on the daemon, `mirror` in services, and a queue of
lines each way (`up`, `down`). Services change the mirror when they send, the daemon the channel
when it reads. `ChannelMode` is `channel_mode` with the order it has: the handlers of "+o" and
"-o" (`cs_role.c`, `chanserv.c`) answer first, each answer is a line of its own and applied, then
the change itself, then the lock. `crossed` marks behaviours in which a KICK of services and
a join cross: services may then forget a channel that lives on, and nothing that
`LockConverges` says can hold. A channel is created by a user, with the flags of `Creation` or
without, as the daemon chooses, or by the bot with them: `irc_ChanJoin` sends "SJOIN ... +nt" and leaves the mirror without n and t.
`unseen` is a history variable of the flags that services may never be told of: those of
the bot's SJOIN, and those of the lock that a line still to be read puts on in the mirror while the daemon
has a CLEAR MODES to read (`Overtaken`); without this exception TLC
finds a channel of the bot with lock -t and +t in five states. A flag leaves it when an op changes it, when a line of
services puts it on, or when the channel empties. `LockConverges` sets aside these flags and no others.

Left out: key and limit as such (a letter with a parameter stands for both), several nicks in a
SJOIN, changes of the lock, lines with too few parameters (`cmode.c` 150 returns after the letters
before), INVITE, which changes nothing, half ops, which the default build has not; the stealth
mode of users (`cs_role.c` 773) and channels that are suspended or restricted (817-850), whose joins end in a ban and
a KICK (`IrcNetwork` and `ChanServ` have them; here `KickCommand` is the KICK), so also the "+b" of services themselves; a bot
that joins a channel in use; flags that the SJOIN of a split brings to a channel in use. `ev_cs_deop` reads an
uninitialized record when the channel is not registered; the channel is registered here.

### Modules and Dispatch

Eleven modules stand for all: four services and those that call each other. `Modules` has the
attachments of each function (`modattach`), its handlers in the lists of events (`events_table`,
`handlers`), the commands and helps of each service, and loads that stop half way. `Dispatch` runs the
events of one user with a stack of what is left to do, so that a kill inside a handler
raises `ET_KILL` or `ET_CHAN_PART` and clears or sets the abort flags of the outer call. There are two
kinds of events with a flag each: `irc_CallEvent` (`was_aborted`) and `mod_do_event`.

What `Dispatch.cfg` does not reload, because the code cannot: `chanserv` (its join handler
would come before that of `os_uevent`, whose node of the member an akick may have freed,
and `mod_abort_event` does not stop `irc_CallEvent`), `botserv` (leaves its handler of
`ET_NEW_SERVER` each time), `sessionlimit` (run `Dispatch_unload`). `operserv`, `nickserv` and
`ns_group` can never be unloaded since `os_module` is attached to them. A failed load keeps its
attachments and its handle. `cs_ajoin` and `os_sysuptime` have no `mod_unload`, which
`module_unload` calls unseen; `ns_blist` and `ns_buddy` leave their commands. Left out: `MAX_MODULES`,
a `dlopen` that fails (it keeps no handle and attaches nothing), the handlers of `e_nick_register`, the "-o" handler
that `chanserv` leaves behind (`chanserv.c` 177, and `chanserv` is not reloaded), handlers of a single channel, the
loop over user events that goes on after one of them has killed the user (`os_uevent.c` 441-501: the events
that match after it use what was freed) and events of `ON_LOGIN` that kill (nothing stops their callers). In the
model a user event that kills is the last that matches, and it is not one of `ON_LOGIN`.

### CachedTable and DBMem

A sequence is `data[0 .. row_count-1]`, a set of rows is the table. The loops of
`dbmem_load` and `dbmem_expire` take one step per row; commands run only between
them (`Ready`). Each change makes the statement first and the change in memory
after it, on the condition the code has. A statement that fails for any other
reason changes neither and is a stutter. `row_curr` is not kept, since each caller
finds the row in the call that uses it. `OwnerDropped` is the foreign key of
`session_exceptions`: MySQL deletes the rows of a dropped nick and services are
not told, so memory is allowed rows that lost their owner (`MemoryInTable`).
`CachedTable` is one set of rows that commands change and an expiry pass thins out;
`DBMem` implements it (`Cached`) with the rows of memory and those still to load. Left
out: exhaustion of memory, the types of the columns, an INSERT whose answer is lost with
the connection, which `db_mysql_query` (`mysql.c` 118) executes twice.

### Sessions and UEvents

Both extend `DBMem`. For `Sessions` keys are hosts and values limits. A count
of 0 stands for no record, as `del_from_session` frees the record at 0; the hash
chains are not kept. `NewUser` is the whole handler with the kill that comes back
into `ev_sessionlimit_kill`; a glined user stays online until the network
reports it gone. What the code cannot keep exact (splits, reloads, expiry, dropped
owners) happens only in the behaviours whose `features` say so, and a property that
fails under one of them names it in its premise. For `UEvents` values are events,
and `event_index` is built again by every command, expiry and load; building stops at the
first row that finds its index full. Left out of both: permissions and listings.

### NickServ

The structs of users (`snid`, `use_snid`, `req_snid`, the flag `AUTHENTIC` and the
pending timer) beside the records of the database (`status`, `SUSPENDED`,
`AUTHENTIC`, `PROTECTED`). An action is one message, command, timer or expiry with all
that it calls. Services change nicks and modes by requests (`SVSGUEST`, `SVSNICK`,
`SVSMODE`) that name a nick: `sent` holds the requests the network has not carried
out, in order, and `Deliver` applies the oldest to whoever bears the nick by then,
or to nobody. In the other direction there is no queue: a report of the network
that is on its way is a change that has not happened, since services know the
network by its reports alone. A user of the other side of a split (`where = "split"`)
exists with its nick and mode +r, and comes back as a new user with both, as do all
users after a restart. `vouched` is a history variable: the nicks each connection
has shown a right to.

A guest nick is one nick per user and is never registered. Left out: `t_expire`
(any record that is not online may have expired), counters of failed passwords and of
guest nicks (any may be the last), the secret that `RECOVER` compares, the password
age, vhosts, `NickDefaultOptions` (none), the handlers other modules attach to
`e_nick_identify` and the like, and a reload of `nickserv` alone.

### Nicks, NickGroups, Memos, NickLists, NickTables

`Nicks` is as much of NickServ as the tables see: registered nicks and who bears one. Each
table module adds its tables and commands, and `NickTables` lets each event reach all of
them. `cache` is the list of groups of a user (`extra[ED_GROUPS]`) with the number of times
each group is in it, since ADD after an expiry lists a group twice; it survives a
nick change, and REGISTER does not load it, so `CacheFollows` speaks of lists that were loaded for the nick
borne now (`loaded`) and of memberships that have not expired (`expired`). GROUP DEL of a
member whose nick is borne by a user without a list follows a null pointer (`array.c` 80): `crashed`.
`BuddyAccept` may be given by the inviter itself, as the code does not look at the status it changes.
Ids of memos are reused, `ms_send` saves a memo when any option is set (`flags && MOFL_AUTOSAVE`).
Left out: server rules and modes of groups, texts, notices and mails of memos, listings,
the bits of `u->flags` that `MS SET` changes. The two statements of a friendship are one step: a failure
between them leaves one row (see `hazards`), which `BuddiesMutual` does not speak of.

### ChanServ

The record of a channel is a row (`chanserv`) and, while the channel is in use, a
`ChanRecord` in memory (`sdata`) from the first member to the last. `Opened` is
`OpenCR`, `Store` an `OpenCR` with a change, `UpdateCR` and `CloseCR`, `Updated` the
statement with its foreign keys, `Closed` what the last part does. Suspensions and
ban masks change in the table alone (expiry), in the table and in memory by separate
statements (commands), or in memory alone (a join that meets a mask that has expired).
`ev_cs_nick_delete` compares an uninitialized pointer with `sdata` before it changes
memory: `MemoryAfter` takes every outcome that does not crash. A bot is a local user and
a row; the row goes with its owner by a foreign key, the local user stays.

A nick stands for its id, so a deleted one does not come back (`NickServ` models the
ids). Commands have no guard on who gives them. A channel may hold one local user,
the guard or a bot, since `bs_assign` refuses a channel that has one and the guard
joins only an empty one. Left out: reference counts (a record that is attached is
never freed early, since each handler that opens it counts itself; some early returns,
such as `cs_suspend.c` 206 and AJOIN DEL, forget to close, which only leaks memory), the path of
`cs_sdrop` that reads an uninitialized record for those it refuses (`cs_drop.c` 205),
an INSERT of `REGISTER` that fails, options other than the suspension, the limits on channels and masks, users in stealth
mode, channels `ev_cs_new_server` joins and parts at once.

### ChanRoles

The rows of one channel, with the foreign keys between them. `Above` is what the walk of
`is_master` and `role_is_master` reaches; the code has no other end for it than a role without a
master. A channel begins unregistered, or as `fix_channels_roles` leaves a channel of older
services. `failures` counts statements that fail in the middle of a handler
(`create_role` of registration, the UPDATE of `drop_role`). `accepted` is a history variable.

## 3. Runs

All runs have `CHECK_DEADLOCK FALSE`: clocks and numbers of additions are
bounded, a connection ends for good, and a fault ends a behaviour of `IrcNetwork`.

| Run | Question | Bounds |
|---|---|---|
| `MainLoop` | do timers fire on live owners or the wait end; do lines arrive whole; do the daemon and services agree on local users, channels and S-lines; do older tables become those of the code? | six scenarios: 2 timers of 2 owners and a clock of 6 ticks, read timeout 1; a buffer of 5 tokens; 2 local users and 2 channels in 2 buckets; 3 S-lines; 2 channels of a table at any version, 2 starts cut short. 2 lines under way where reads cut them or they may be kills, else 1 |
| `IrcNetwork_guard` | does the guard of a channel leave, are the counters exact, does nothing fault? | 2 users, 2 local users, 2 channels (one the log channel), 2 timers at a time |
| `IrcNetwork_all` | does anything point to what is gone, with every feature? | 2 servers, 2 users, 2 local users, 1 channel, up to the first fault: a user behind one server through another, a successor of `local_user` |
| `ChanModes` | do lock, ops and bans come out right when lines cross? | 2 users, one with a role, a bot, 2 lines up and 3 down; eight scenarios, each with the letters and commands that answer each other: a lock of +n, -t and one parameter, or the lock every channel is registered with (+nt), with KICKs and with a channel the bot has created |
| `Dispatch` | do attachments, commands and handlers lead to loaded code and live users? | 11 modules, 2 of them loaded again in a behaviour |
| `Dispatch_unload` | **fails**: is it safe to unload a module? | `sessionlimit` |
| `Sessions` | are counts connections, limits enforced, hits deserved, and does the cache implement its table? | 3 users, 2 hosts, default 1, exceptions of 2, gline at the 2nd hit; alone, with splits, or with reloads, expiry and drops |
| `UEvents` | does the index lead to the rows of its event, do expired rows leave? | 3 rows, 2 events, an index of 2 |
| `NickServ` | who is taken for identified, who keeps a nick, what does expiry see? | 2 users, 1 nick registered up to twice, 2 requests under way; with splits and restarts, or with administrators that set options |
| `NickTables` | are groups under the root, cached groups memberships, and friendships two rows? | 2 nicks, 4 groups, 3 memberships, 2 memos, 2 channels, clock 3; eight scenarios, one table with time or drops in each |
| `ChanServ` | do rows, records, ban lists and owners agree whatever changes them? | 2 channels, 2 nicks, 2 registrations, 1 user, 1 bot, 1 mask, channels and nicks symmetric: a channel registered again with the record of the old one still about, one expiring while another's suspension ends |
| `ChanRoles` | do walks end, is "admin" the only root, are permissions accepted? | 4 roles, 2 nicks, one at a time assigned by commands, 1 statement that fails |

The run marked **fails** checks what a comment of the repository says, and TLC finds the
behaviour in which the code does otherwise; `findings` quotes both sides.

Why the bounds are enough: the interesting cases need two actors (a member that
leaves while another is looped over, a second timer in the same pass, a second
row swapped into the place of an expired one, two entries of one bucket) and a third where a case has to be
told from "all of them" (the third row of `UEvents`, the third connection of a
host whose limit is 2). Two lines under way let one be cut while another is whole, or a
KILL be overtaken by what services send; a third shows nothing new, since
services read one at a time. In `NickServ` one nick is enough, since records share
nothing but the counter of ids; the second registration tells the old id from the
new one, and the second request lets one overtake what the first was sent for. A cycle of
roles needs two roles below the root, the fourth lets a dropped one stand above others. An upgrade cut
twice is one that fails again in the part it has repeated.
Every property is also checked against a mutant of the code it depends on and fails there.

The scenarios of a run (`Scenarios`, a variable `features` that never changes) keep apart what
shares no state; a property holds in all of them.

## 4. Fairness

* `MainLoop`: `WF(Turn)`, the next half turn of the loop, which nothing ever disables while
  the connection is up, and `WF(Clock)`. Nothing is asked of the daemon: it may fall silent for
  ever, which is the case `FiresOrEnds` is about.
* `IrcNetwork`: `WF(SjoinStep)`, because a message that is being handled is
  handled to its end, and `SF(TimerPart(c))`: between any two messages the timers may
  be run, and a message in progress disables them for a moment only.
* `DBMem` (in `UEvents`): `WF(Load)` and `WF(ExpireStep)`, loops that run to their end, and
  `SF(ExpireStart)`: the expire module raises its event every interval
  (`modules/expire.c` 80-88), however often commands run in between.
* The others: none; their properties are safety properties.

No fairness is asked of the network, of users or of the database.

### Disagreements between the code and what is said of it

Met while modelling; each is in the model, and the property that would fail names the case in its
premise.

| Code | What happens | Property and premise |
|---|---|---|
| `timer.c` 27 | a cancellation counts nodes already marked, so a later one sees 0 and leaves a live timer of a user that is freed (against `ircservice.h` 409) | `NoHandlerOnFreedOwner`, owners outside `Cancellable` |
| `cs_akick.c` 330 | a join handler that kills frees the channel under `m_sjoin` (assertion at `channel.c` 92) | `NoFault`, no `joinkill` |
| `channel.c` 283 | a user that changes +S on a channel breaks its counters (assertions at 305, 309) | `CountsExact`, `Tame` |
| `server.c` 247 | SQUIT leaves the counts of hosts behind | `CountIsConnections`, no `squit` |
| `mysql.c` 825 | a table larger than the first allocation loses rows at load (against 746) | `ImplementsCachedTable`, `Fits` |
| `mysql.c` 1081 | rows of a dropped owner stop the expiry of those behind them | `ExpiredRowsLeave` |
| `sessionlimit.c` 638 | an expired exception leaves its limit in force | `LimitInForce`, no `expire` |
| `sessionlimit.c` 156 | commands stay after the module is unloaded (against `os_module.c` 137) | run `Dispatch_unload` |
| `mysql.c` 645 | a SELECT of the version that fails installs the tables again, over the old ones (against 630) | `UpgradesFit`, not `misread` |
| `mysql.c` 594 | a start cut short in `chanserv.3.sql` adds a foreign key twice and the module never loads again; one cut before the version is recorded converts the times of `chanserv.2.sql` twice | `UpgradesFit`, no cut |
| `nickserv.c` 444 | a nick that waits for its authentication stays online in the database when its user leaves, and never expires (against `nickserv.h` 29) | `HeldIsOnline` says one direction only |
| `ns_set.c` 265 | SSET EMAIL clears the authentication of the administrator | `AuthFollowsRecord`, no `sset` |
| `chanserv.c` 348 | the successor of a deleted founder is not the founder in memory until the channel empties, and options are not saved meanwhile | `SuccessorInherits` is about the row |
| `chanserv.c` 494 | the end of a suspension changes the row, and the next `UpdateCR` writes the flag back (against `lang/cs_suspend.l` 30, 92) | `SuspensionInForce` says one direction only |
| `bs_create.c` 135 | bots of a deleted owner stay online without a row, which it says never happens | |
| `cs_role.c` 959 | a nick that has rejected a role, or not yet accepted it, may still give the roles below (against 139) | `PermissionsWereAccepted` is about permissions |
| `ms_send.c` 122 | any option saves a memo (against `lang/ms_set.l` 22) | |
| `ns_group.c` 316 | a duplicate entry after an expiry, a null pointer for a bearer without a list | `CacheFollows`, not `expired`; `crashed` |
| `cmode.c`, KICK | a KICK that crosses a join makes services forget a channel with its lock and bans | `LockConverges`, `BansKnown`, not `crossed` |
| `channel.c` 492 | a local user creates its channel with +nt and the mirror lacks both, so a lock of -n or -t is not enforced until somebody changes the letter (against `cmode.c` 739) | `LockConverges`, flags not in `unseen` |
| `cs_clear.c` 185 | a CLEAR MODES that crosses a line that puts on a locked flag takes it off on the daemon only, and nothing puts it back | `LockConverges`, flags not in `unseen` |
| `event.c` 24 | `mod_abort_event` does not stop `irc_CallEvent`: after a reload of `chanserv` a later handler gets a freed membership | `CalledWithLiveData`, `Reloaded` |

## 5. Proofs

All theorems are checked by `tlapm` for every value of the constants, from no
assumption but those the modules state on their constants (an `ASSUME` at the head of each
module, which TLC evaluates in every run). They say that bounds are numbers, that the
value for "nobody" is nobody, that the sets of users, bots, groups and mode letters are finite, that a nick is neither a CR
nor an LF (`ConnectionAssumption`), that letters of flags, parameters, statuses and bans differ and that what a lock takes off is neither "r" nor something it puts on (`ChanModesAssumption`), and in two places more: `MainLoopAssumption`, that the process starts later than one
`TIMER_INTERVAL` after the epoch, so that its first turn makes a pass (`timer.c` 60,
with `last_run` 0); and `NickGroupsAssumption`, that the three groups `ns_group.c` creates are
three. Two theorems about `Dispatch` have a premise on `Reloaded` (`KeptLoaded`, below). Each theorem rests on one inductive invariant, one lemma per action that
keeps it, and the properties as corollaries.

* `MainLoop_proofs`, timers. `NoHandlerOnFreedOwner` is not inductive: an address whose count
  is wrong when it is freed keeps a live node. For owners outside `Cancellable` the
  invariant adds that the count is positive while there are live nodes, ids are
  unique, and nodes of freed addresses are marked. For the others there is nothing to
  prove: their count may drift. `LoopImplementsTimers` maps each step of
  `MainLoop` to a step of `Timers` or a stutter, in every scenario; `ClockInv` says what that needs:
  the clock stands still until the first pass, and moves forward after it. The
  theorems about `Timers` so hold of the whole loop.
* `MainLoop_proofs`, S-lines. A mask has one row, so its removal by number leaves none behind; nothing
  is sent before the first server is there (`SlinesInv`).
* `MainLoop_proofs`, lines. What is in `buffer` and `stream` are the bytes of the lines in `unread`, but
  for those that `check_ircd_buffer` has passed over (`WireInv`); the lines in a prefix of
  these bytes are found by counting its CRs.
* `MainLoop_proofs`, local users. `DaemonInv`: a user is once in the chain of its bucket and in no other
  (`LocalsOnce`), which the two deletions and the walk of `irc_FullConnect` need; members have a user and a
  channel; and what the daemon knows is what there is, for each user whose KILL is not under
  way. Of a user whose KILL is read twice, or before it was created again, both ends know the same afterwards. The walk
  through the chains and the folds over sets are recursive functions, shown to have the
  values their equations say.
* `MainLoop_proofs`, table versions. `Level(c)` is what the tables have when version c is the
  last that is recorded, `Progress(c)` what the statements after it have made so far and what
  is left of them; a start that is cut short falls back to the former with part of the
  latter done. `TablesInv` goes through every statement of `chanserv.2.sql` to
  `chanserv.4.sql` this way.
* `IrcNetwork_proofs`. `Mirror` relates the two membership lists, the users and the
  pointers, and holds whatever the features (`MirrorAlwaysSound`). `Guard` adds exact counters, the timers
  of the guard and the absence of faults; it holds when the features are `Tame`
  (no user changes +S and no join handler kills). The counters are cardinalities of finite sets; lemmas about one
  channel (`WithMember`, `WithoutMembers`) carry them through the steps.
* `DBMem_proofs`. The invariant says that keys in memory are unique and none of
  them waits in `loading`, which makes the append of `dbmem_load` safe. When every
  table is no larger than `alloc_units` (`Fits`), the rows of memory and those
  still to load make up the table but for rows that lost their owner; with
  nothing left to load memory is the table. From it `ImplementsTable` maps every step to a step of
  `CachedTable` or to a stutter: loads and the moves inside the expire loop stutter, a
  deletion in that loop is an expiry.
* `DBMem_proofs`, sessions. `SessionsInv` adds to the cache: the count of a host is the number of its users
  online (never less, with splits), and a record that exists has the limit that
  its exception gives it. A kill inside `ev_sessionlimit_new_user` must leave both so, for the user that is
  on its way in too. `SessionsImplementTable` carries `ImplementsTable` over to the module.
* `DBMem_proofs`, user events. Whenever no loop runs the index is that of the rows in memory (`IndexInv`),
  which are those of the table, as long as the table fits. That this index leads from an event to its rows
  and to no others is shown by counting: the number of its rows up to a place (`Ascending`) is a bijection from
  its rows to the entries of its index, and what the index leaves out it leaves out for want of room.
* `NickServ_proofs`. `NickInv` says, of each user services know: every id in its
  struct, also those of logins still under way (`req_snid`) and of earlier nicks
  (`use_snid`), is one it has shown a right to (`IdsVouched`); if it is taken for
  identified, its record is the one of its nick, is online and has its
  authentication (`Holds`); if it is not, a timer or a request will take the nick away
  (`Timed`). Besides, no two such users bear one nick (`Alone`) and an id names one
  record and is never handed out again (`IdsUnique`): without the latter a dropped
  nick that is registered again would be open to whoever still asks for the old id.
  `EntersOK` covers every message that ends in `ev_ns_new_user`, `DeleteOK` the
  three ways a record goes.

* `ChanRoles_proofs`. `WalksEnd` (every set of roles has one whose master is outside of it) is kept
  by `SET MASTER` because `role_is_master` has just found that the new master is not below the role, and by
  a drop because what hung below the role takes over its master. `PermissionsWereAccepted` needs that
  assignments without a flag were accepted (`AcceptedInForce`), also when an id is used again.
* `ChanRoles_proofs`, modes of a channel. `OpsConverge` and `BansKnown` speak of empty queues; the invariants
  say what any queue will come to. `Reaches(on, up, j, m)`: services will hold m for a member when they come
  to line j; whoever is on the channel is reached at the end of `up`, or a KICK of it is in `down`. An op that
  SECUREOPS forbids has its "-o" or its KICK in `down`, or the line that brought the op in `up`, with
  its bearer reached there (`OpsInv`); a "+o" in `down` is followed by its "-o" (`OpsTakenBack`). A ban of
  the channel is known, has its "-b" in `down`, or is a "+b" in `up` that is read by an occupied channel
  which nothing empties afterwards (`BansInv`); where services find a channel empty, their own KICKs
  will have emptied it (`KicksEmpty`), and this is where a KICK that crosses a join is in the way. What the
  handlers and commands send is described by relations between sides (`Answers`, `After`); they are built
  from folds over listed sets, whose values are shown to stay in any set that one step keeps
  (a chain of steps along the list, found by well-foundedness of the finite sets).
* `ChanServ_proofs`. `ChanServInv` needs two facts that no run states: ids of rows are handed
  out once (`ScidsUnique`, or a record could be taken for that of another
  registration) and no nick is its own successor (`NoOwnSuccessor`, or the second
  test of `ev_cs_nick_delete` would delete what the first has passed on).
* `NickTables_proofs`. `GroupsUnderRoot` says that a walk ends, which is not inductive as it stands. The
  invariant has a numbering of the groups in which each comes after its
  master (`Ranked`): a new group takes the next number, and a drop takes away the group and all below it.
  That the walk then ends at the root is proved by taking the group of least number for which it does not;
  the walk itself is a recursive function, shown to have the values its
  equation says. `CacheFollows` needs to know who may have a list at all; `BuddiesMutual` is
  inductive with the keys of the table (`ListsInv`).
* `Dispatch_proofs`, for every `Reloaded`. An entry of `modattach` may be overlooked by `module_delall_attach`,
  or left by a load that failed, so entries cannot be matched with loaded modules. `AttachInv` counts
  instead: a module is attached to a function no more often than it has been opened and not closed
  (`handles`). A load adds one to each at most; an unload takes one opening back and at least one
  entry off every list that has one (`DetachedFacts`, along the positions of the loop that swaps in the
  last entry), and empties only lists that `check_for_functions` has seen empty.

* `Dispatch_proofs`, lists. `LoadedAnswer` and `CalledWithLiveData` carry the premise `KeptLoaded`: none of `chanserv`,
  `botserv` and `sessionlimit` is unloaded in a behaviour. Without it they are false of the code, as section 4 and
  run `Dispatch_unload` show; every `Reloaded` of `Dispatch.cfg` meets it. `ListInv` says what each list
  holds: exactly the loaded modules that hang on it, each once (`Attended`); the handlers of
  their commands and triggers (`Handled`, `Kicked`), of which no two have the same number, so that the first
  found is the right one; the commands in strictly rising order (`Helped`), which is what lets
  `suser_add_cmd` find the place. Besides, no module is read twice from the `.modules` files
  (`PendingFresh`), `operserv` and the other services are there as long as a module has commands to
  them, and `os_uevent` is asked about a join before `chanserv` (`InOrder`).
* `Dispatch_proofs`, calls. `StackInv` says that `stack` is a row of things done before (`Before`: uses of the
  user or of its node, quiet events, whose handlers only use the user) on top of one of a dozen shapes (`Core`):
  a call of `ET_NEW_USER` or of `ET_CHAN_JOIN` with the handlers still to ask, that of
  `e_regchan_join` above the one of the join, the rest of a kill or a kick above either, a command. A shape
  says when the user may be gone: below a `Do("abort")` that will stop the loop it
  returns to, or with the flag set. With things done before on top the flags do not count,
  since a quiet event resets them: that is why a kill has to raise its own events before it
  aborts (`KillThenAbort`). A call of the join has nobody left to ask but `chanserv` once `os_uevent` was
  asked, and nobody after it: there the kick of an akick, which sets the other flag, can do no harm.

Only model-checked, and why:

* `GuardLeaves`, `ExpiredRowsLeave` and `FiresOrEnds`: liveness, with fairness and `ENABLED`, which the
  prover does not handle.
* `LockConverges`: it needs an invariant per letter that says what both queues, read in any order, come to, as
  `OpsInv` does for ops, with `unseen` for the lines that overtake each other. It is not yet written. TLC checks the property
  for a lock that puts on, takes off and has a parameter, and for the default lock.

## 6. Plan

Done: every module of the plan, and the proofs of section 5: all invariants of the passing runs but
`LockConverges` are theorems. What is left to prove is `LockConverges`.

## 7. Not modelled

SQL text, language files, logs, masks (`match.c`), password hashing, mail, configuration,
listings and help, the web pages and import tools: they are I/O or pure functions of
strings. `modules/os_*.c` commands that only send a line to the daemon, and the half ops that
the default build leaves out. `PROJECT.json` lists each part with its status, and section 2 says
under each module what it leaves out.
