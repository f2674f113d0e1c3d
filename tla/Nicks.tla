-------------------------------- MODULE Nicks --------------------------------
(***************************************************************************)
(* What the tables kept beside nickserv see of NickServ: which nicks are   *)
(* registered, and who bears a nick now, identified for it or not. Only    *)
(* one user bears a nick; a nick stands for its snid, so that a nick that  *)
(* is dropped and registered again starts without rows (ON DELETE CASCADE).*)
(* How a user gets identified is the subject of NickServ.                  *)
(***************************************************************************)
EXTENDS Integers, FiniteSets

CONSTANTS
  Nicks,
  NONE,
  MaxNow,      \* bound: the clock stops here
  Scenarios    \* sets of tables that change in a behaviour, see NickTables

VARIABLES
  registered,       \* the rows of nickserv
  bearer,           \* of every nick: "none", "unidentified" or "identified"
  irc_CurrentTime,
  features          \* a member of Scenarios

nickvars == <<registered, bearer, irc_CurrentTime, features>>

Bearer == {"none", "unidentified", "identified"}

NicksTypeOK ==
  /\ registered \subseteq Nicks
  /\ bearer \in [Nicks -> Bearer]
  /\ \A n \in Nicks : bearer[n] = "identified" => n \in registered
  /\ irc_CurrentTime \in Nat
  /\ features \in Scenarios

NicksInit ==
  /\ registered = {}
  /\ bearer = [n \in Nicks |-> "none"]
  /\ irc_CurrentTime = 1
  /\ features \in Scenarios

(* CHECK_IF_IDENTIFIED_NICK *)
Identified(n) == bearer[n] = "identified"

Online(n) == bearer[n] # "none"

(* nick2snid(n) # 0, what every command asks of a nick it is given *)
HasSnid(n) == n \in registered

(* The changes of nickserv that the tables follow *)
Connects(n) ==
  /\ ~Online(n)
  /\ bearer' = [bearer EXCEPT ![n] = "unidentified"]
  /\ UNCHANGED <<registered, irc_CurrentTime, features>>

Quits(n) ==
  /\ Online(n)
  /\ bearer' = [bearer EXCEPT ![n] = "none"]
  /\ UNCHANGED <<registered, irc_CurrentTime, features>>

ChangesNick(n, new) ==
  /\ Online(n) /\ ~Online(new)
  /\ bearer' = [bearer EXCEPT ![n] = "none", ![new] = "unidentified"]
  /\ UNCHANGED <<registered, irc_CurrentTime, features>>

Identifies(n) ==
  /\ bearer[n] = "unidentified" /\ n \in registered
  /\ bearer' = [bearer EXCEPT ![n] = "identified"]
  /\ UNCHANGED <<registered, irc_CurrentTime, features>>

Registers(n) ==
  /\ bearer[n] = "unidentified" /\ n \notin registered
  /\ registered' = registered \union {n}
  /\ bearer' = [bearer EXCEPT ![n] = "identified"]
  /\ UNCHANGED <<irc_CurrentTime, features>>

(* By its owner, by an administrator or by expiry *)
IsDropped(n) ==
  /\ n \in registered
  /\ registered' = registered \ {n}
  /\ bearer' = [bearer EXCEPT ![n] = IF @ = "identified" THEN "unidentified" ELSE @]
  /\ UNCHANGED <<irc_CurrentTime, features>>

TimePasses ==
  /\ irc_CurrentTime < MaxNow
  /\ irc_CurrentTime' = irc_CurrentTime + 1
  /\ UNCHANGED <<registered, bearer, features>>

=============================================================================
