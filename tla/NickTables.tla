------------------------------ MODULE NickTables ------------------------------
(***************************************************************************)
(* The tables that other modules keep beside nickserv, together: groups,   *)
(* memos and lists, changed by the same nicks that identify, change,       *)
(* register and drop. Each follows e_nick_identify and the foreign keys.   *)
(***************************************************************************)
EXTENDS NickGroups, Memos, NickLists

(* What changes in a behaviour: any of                                     *)
(*   "groups", "members" (of groups), "memos", "buddies", "ajoins";        *)
(*   "drops": nicks are dropped, which never happens otherwise;            *)
(*   "time": the clock moves.                                              *)
ASSUME NickTablesAssumption ==
  Scenarios \subseteq SUBSET {"groups", "members", "memos", "buddies", "ajoins", "drops", "time"}

vars == <<nickvars, groupvars, memovars, listvars>>

TypeOK == NicksTypeOK /\ GroupsTypeOK /\ MemosTypeOK /\ ListsTypeOK

Init == NicksInit /\ GroupsInit /\ MemosInit /\ ListsInit

(* m_nick, m_quit: only the list of groups hangs on the struct.            *)
Connect(n) == Connects(n) /\ UNCHANGED <<groupvars, memovars, listvars>>

Quit(n) == Quits(n) /\ GroupsQuit(n) /\ UNCHANGED <<memovars, listvars>>

NickChange(n, new) ==
  ChangesNick(n, new) /\ GroupsNick(n, new) /\ UNCHANGED <<memovars, listvars>>

(* e_nick_identify, e_nick_recognize: ns_group loads, memoserv counts and  *)
(* cs_ajoin sends a join, which changes nothing here.                      *)
Identify(n) == Identifies(n) /\ GroupsIdentified(n) /\ UNCHANGED <<memovars, listvars>>

(* e_nick_register: no module loads anything.                              *)
Register(n) == Registers(n) /\ UNCHANGED <<groupvars, memovars, listvars>>

Drop(n) ==
  /\ "drops" \in features
  /\ IsDropped(n)
  /\ GroupsNickDropped(n) /\ MemosNickDropped(n) /\ ListsNickDropped(n)

NickStep ==
  \E n \in Nicks :
    \/ Connect(n) \/ Quit(n) \/ Identify(n) \/ Register(n) \/ Drop(n)
    \/ \E new \in Nicks : NickChange(n, new)

GroupStep == /\ \/ "groups" \in features /\ GroupsNext
                \/ "members" \in features /\ MembersNext
             /\ UNCHANGED <<nickvars, memovars, listvars>>

MemoStep == "memos" \in features /\ (MemosNext \/ MemosExpire)
            /\ UNCHANGED <<nickvars, groupvars, listvars>>

ListStep == /\ \/ "buddies" \in features /\ (BuddiesNext \/ InvitationsExpire)
               \/ "ajoins" \in features /\ AjoinsNext
            /\ UNCHANGED <<nickvars, groupvars, memovars>>

Tick == "time" \in features /\ TimePasses /\ UNCHANGED <<groupvars, memovars, listvars>>

(* Nothing runs after a null pointer was followed.                         *)
Next == ~crashed /\ (NickStep \/ GroupStep \/ MemoStep \/ ListStep \/ Tick)

Spec == Init /\ [][Next]_vars

=============================================================================
