--------------------------- MODULE MainLoop_proofs ---------------------------
(***************************************************************************)
(* Proofs about the main loop and what it drives. First Timers: timers of  *)
(* an owner that are cancelled only when it is freed, as all those of      *)
(* channel.c, never outlive it, for any set of owners, delays and bounds,  *)
(* and whatever happens to the other owners. Then MainLoop: its turns and  *)
(* the clock of its connection implement Timers, so they inherit that;     *)
(* then the S-lines of Connection, the lines it reads and what the daemon  *)
(* knows of its local users; and the versions of the tables, from          *)
(* whichever statement a start takes up.                                   *)
(***************************************************************************)
EXTENDS MainLoop, FiniteSetTheorems, FunctionTheorems, SequenceTheorems,
        WellFoundedInduction, TLAPS

-----------------------------------------------------------------------------
(* Numbers and sequences                                                   *)

LEMMA Least ==
  ASSUME NEW S \in SUBSET Nat, S # {}
  PROVE  \E m \in S : \A k \in S : m <= k
<1> DEFINE T == {1..k : k \in S}
           R == StrictSubsetOrdering(Nat)
<1>1. T \subseteq FiniteSubsetsOf(Nat)
  <2>1. ASSUME NEW k \in S PROVE 1..k \subseteq Nat /\ IsFiniteSet(1..k)
    BY FS_Interval
  <2>2. QED
    BY <2>1 DEF FiniteSubsetsOf
<1>2. T # {}
  OBVIOUS
<1>3. IsWellFoundedOn(R, FiniteSubsetsOf(Nat))
  BY FS_StrictSubsetOrderingWellFounded
<1>4. PICK x \in T : \A y \in T : <<y, x>> \notin R
  <2> HIDE DEF T, R
  <2>1. QED
    BY <1>1, <1>2, <1>3, WFMin, Zenon
<1>5. PICK m \in S : x = 1..m
  OBVIOUS
<1>6. ASSUME NEW k \in S, ~(m <= k) PROVE FALSE
  <2>1. 1..k \subseteq 1..m /\ 1..k # 1..m /\ 1..k \in SUBSET Nat /\ 1..m \in SUBSET Nat
    <3>1. m \in 1..m /\ m \notin 1..k
      BY <1>6
    <3>2. QED
      BY <1>6, <3>1
  <2>2. <<1..k, 1..m>> \in R
    BY <2>1 DEF StrictSubsetOrdering
  <2>3. QED
    BY <1>4, <1>5, <2>2
<1>7. QED
  BY <1>6

(* What holds of 0 and of the next of every number it holds of             *)
LEMMA Steps ==
  ASSUME NEW n \in Nat, NEW S, 0 \in S,
         \A k \in 0..n : k \in S /\ k < n => k + 1 \in S
  PROVE  \A k \in 0..n : k \in S
<1> DEFINE W == {k \in 0..n : k \notin S}
<1>1. SUFFICES ASSUME W # {} PROVE FALSE
  OBVIOUS
<1>2. W \in SUBSET Nat
  OBVIOUS
<1> HIDE DEF W
<1>3. PICK m \in W : \A k \in W : m <= k
  BY <1>1, <1>2, Least
<1>4. m \in 0..n /\ m \notin S /\ m # 0
  BY DEF W
<1>5. m - 1 \in 0..n /\ m - 1 < n /\ m - 1 \notin W
  BY <1>3, <1>4
<1>6. m - 1 \in S
  BY <1>5 DEF W
<1>7. m - 1 + 1 \in S
  BY <1>5, <1>6
<1>8. QED
  BY <1>4, <1>7

Joins(w, s, t) ==
  /\ Len(w) = Len(s) + Len(t)
  /\ \A i \in 1..Len(s) : w[i] = s[i]
  /\ \A i \in 1..Len(t) : w[Len(s) + i] = t[i]

LEMMA Joined ==
  ASSUME NEW S, NEW s \in Seq(S), NEW t \in Seq(S)
  PROVE  s \o t \in Seq(S) /\ Joins(s \o t, s, t)
<1>1. Len(s) \in Nat /\ Len(t) \in Nat
  BY LenProperties
<1>2. /\ s \o t \in Seq(S) /\ Len(s \o t) = Len(s) + Len(t)
      /\ \A i \in 1..Len(s) + Len(t) :
           (s \o t)[i] = IF i <= Len(s) THEN s[i] ELSE t[i - Len(s)]
  BY ConcatProperties
<1>3. ASSUME NEW i \in 1..Len(s) PROVE (s \o t)[i] = s[i]
  BY <1>1, <1>2
<1>4. ASSUME NEW i \in 1..Len(t) PROVE (s \o t)[Len(s) + i] = t[i]
  <2>1. Len(s) + i \in 1..Len(s) + Len(t) /\ ~(Len(s) + i <= Len(s)) /\ (Len(s) + i) - Len(s) = i
    BY <1>1
  <2>2. QED
    BY <1>2, <2>1
<1>5. QED
  BY <1>2, <1>3, <1>4 DEF Joins

LEMMA LengthOfSeq ==
  ASSUME NEW S, NEW n \in Nat, NEW s \in [1..n -> S]
  PROVE  s \in Seq(S) /\ Len(s) = n
<1>1. s \in Seq(S)
  BY SeqDef
<1>2. Len(s) \in Nat /\ 1..n = 1..Len(s)
  BY <1>1, LenProperties
<1>3. n <= Len(s)
  <2>1. n # 0 => n \in 1..n
    OBVIOUS
  <2>2. QED
    BY <1>2, <2>1
<1>4. Len(s) <= n
  <2>1. Len(s) # 0 => Len(s) \in 1..Len(s)
    BY <1>2
  <2>2. QED
    BY <1>2, <2>1
<1>5. QED
  BY <1>1, <1>2, <1>3, <1>4

-----------------------------------------------------------------------------
(* What makes the early return of the cancellation harmless: an owner with *)
(* a timer that can still fire has a count above zero.                     *)
CountCovers ==
  /\ \A o \in alive \ Cancellable : timer_count[o] >= 0
  /\ \A n \in timers_list :
       ~n.deleted => n.owner \in Cancellable \/ timer_count[n.owner] > 0

TimersInv ==
  /\ TypeOK
  /\ NoTimerOfFreedOwner
  /\ CountCovers
  /\ NoHandlerOnFreedOwner
  /\ IsFiniteSet(timers_list)

(* The values of a function on a finite set are finitely many.             *)
LEMMA ImageFinite ==
  ASSUME NEW S, IsFiniteSet(S), NEW f
  PROVE  IsFiniteSet({f[x] : x \in S})
<1> DEFINE T == {f[x] : x \in S}
           g == [x \in S |-> f[x]]
<1>1. g \in Surjection(S, T)
  BY DEF Surjection
<1>2. QED
  BY <1>1, FS_Surjection

LEMMA NewNodeType ==
  ASSUME NEW o \in Owners, TypeOK
  PROVE  NewNode(o) \in Node
BY TimersAssumption DEF TypeOK, NewNode, Node

LEMMA MarkType ==
  ASSUME NEW n \in Node, NEW b \in BOOLEAN
  PROVE  /\ [n EXCEPT !.deleted = b] \in Node
         /\ [n EXCEPT !.deleted = b].deleted = b
         /\ [n EXCEPT !.deleted = b].owner = n.owner
BY DEF Node

(* The counter that the pass adds to is a number, zero or one.             *)
LEMMA AgainCount ==
  ASSUME NEW Again, NEW o, Again = {} \/ \E n : Again = {n}
  PROVE  Cardinality({n \in Again : n.owner = o}) \in {0, 1}
<1>1. {n \in Again : n.owner = o} = {} \/ \E n : {m \in Again : m.owner = o} = {n}
  <2>1. CASE Again = {}
    BY <2>1
  <2>2. CASE \E n : Again = {n}
    <3>1. PICK n : Again = {n}
      BY <2>2
    <3>2. CASE n.owner = o
      BY <3>1, <3>2
    <3>3. CASE n.owner # o
      BY <3>1, <3>3
    <3>4. QED
      BY <3>2, <3>3
  <2>3. QED
    BY <2>1, <2>2
<1>2. QED
  BY <1>1, FS_EmptySet, FS_Singleton

LEMMA InitHolds == Init => TimersInv
<1>1. ASSUME Init PROVE TypeOK
  <2>1. timer_count \in [Owners -> Int]
    BY <1>1 DEF Init
  <2>2. QED
    BY <1>1, <2>1, TimersAssumption DEF Init, TypeOK
<1>2. ASSUME Init PROVE NoTimerOfFreedOwner /\ CountCovers /\ NoHandlerOnFreedOwner
  BY <1>2 DEF Init, NoTimerOfFreedOwner, CountCovers, NoHandlerOnFreedOwner
<1>3. ASSUME Init PROVE IsFiniteSet(timers_list)
  BY <1>3, FS_EmptySet DEF Init
<1>4. QED
  BY <1>1, <1>2, <1>3 DEF TimersInv

LEMMA CreateKeeps ==
  ASSUME TimersInv, NEW o \in Owners, Create(o)
  PROVE  TimersInv'
<1>1. \A p \in Owners : timer_count'[p] = IF p = o THEN 0 ELSE timer_count[p]
  BY DEF Create, TimersInv, TypeOK
<1>2. \A n \in timers_list :
        ~n.deleted => n.owner \in Cancellable \/ (n.owner \in alive /\ n.owner # o)
  BY DEF Create, TimersInv, NoTimerOfFreedOwner
<1>3. TypeOK'
  BY DEF Create, TimersInv, TypeOK
<1>4. CountCovers'
  BY <1>1, <1>2 DEF Create, TimersInv, TypeOK, CountCovers
<1>5. QED
  BY <1>2, <1>3, <1>4
     DEF Create, TimersInv, NoTimerOfFreedOwner, NoHandlerOnFreedOwner

LEMMA AddKeeps ==
  ASSUME TimersInv, NEW o \in Owners, AddTimer(o)
  PROVE  TimersInv'
<1>1. NewNode(o) \in Node /\ NewNode(o).owner = o
  BY NewNodeType DEF TimersInv, NewNode
<1>2. TypeOK'
  BY <1>1 DEF TimersInv, TypeOK, AddTimer
<1>3. NoTimerOfFreedOwner'
  BY <1>1 DEF TimersInv, NoTimerOfFreedOwner, AddTimer
<1>4. CountCovers'
  <2>1. \A p \in Owners : timer_count'[p] = IF p = o THEN timer_count[p] + 1
                                                     ELSE timer_count[p]
    BY DEF AddTimer, TimersInv, TypeOK
  <2>2. \A p \in Owners : timer_count[p] \in Int
    BY DEF TimersInv, TypeOK
  <2>3. ASSUME NEW p \in alive' \ Cancellable PROVE timer_count'[p] >= 0
    BY <2>1, <2>2 DEF AddTimer, TimersInv, TypeOK, CountCovers
  <2>4. ASSUME NEW n \in timers_list', ~n.deleted, n.owner \notin Cancellable
        PROVE timer_count'[n.owner] > 0
    <3>1. CASE n = NewNode(o)
      <4>1. n.owner = o /\ o \in alive \ Cancellable
        BY <3>1, <2>4, <1>1 DEF AddTimer
      <4>2. timer_count[o] >= 0
        BY <4>1 DEF TimersInv, CountCovers
      <4>3. QED
        BY <4>1, <4>2, <2>1, <2>2
    <3>2. CASE n \in timers_list
      BY <3>2, <2>1, <2>2, <2>4 DEF TimersInv, CountCovers, TypeOK, Node
    <3>3. QED
      BY <3>1, <3>2 DEF AddTimer
  <2>5. QED
    BY <2>3, <2>4 DEF CountCovers
<1>5. IsFiniteSet(timers_list')
  BY FS_AddElement DEF TimersInv, AddTimer
<1>6. QED
  BY <1>2, <1>3, <1>4, <1>5 DEF TimersInv, NoHandlerOnFreedOwner, AddTimer

(* After the cancellation of o no node of o can fire, unless it was        *)
(* cancelled before, and the other nodes are what they were.               *)
LEMMA CancelledNodes ==
  ASSUME TimersInv, NEW o \in alive
  PROVE  /\ Cancelled(o) \subseteq Node
         /\ \A m \in Cancelled(o) :
              ~m.deleted => m \in timers_list /\ (m.owner # o \/ o \in Cancellable)
<1>1. CASE timer_count[o] = 0
  <2>1. \A n \in timers_list : ~n.deleted => n.owner # o \/ o \in Cancellable
    BY <1>1 DEF TimersInv, CountCovers
  <2>2. QED
    BY <1>1, <2>1 DEF Cancelled, TimersInv, TypeOK
<1>2. CASE timer_count[o] # 0
  <2>1. SUFFICES ASSUME NEW m \in Cancelled(o)
                 PROVE /\ m \in Node
                       /\ ~m.deleted =>
                            m \in timers_list /\ (m.owner # o \/ o \in Cancellable)
    OBVIOUS
  <2>2. PICK n \in timers_list : m = [n EXCEPT !.deleted = n.deleted \/ n.owner = o]
    BY <1>2, <2>1 DEF Cancelled
  <2>3. n \in Node
    BY DEF TimersInv, TypeOK
  <2>4. /\ m \in Node /\ m.deleted = (n.deleted \/ n.owner = o)
        /\ m.owner = n.owner
    <3> DEFINE b == n.deleted \/ n.owner = o
    <3>1. b \in BOOLEAN
      BY <2>3 DEF Node
    <3>2. QED
      BY <2>2, <2>3, <3>1, MarkType
  <2>5. ASSUME ~m.deleted PROVE m = n
    BY <2>2, <2>3, <2>4, <2>5 DEF Node
  <2>6. QED
    BY <2>4, <2>5
<1>3. QED
  BY <1>1, <1>2

LEMMA CancelledFinite ==
  ASSUME TimersInv, NEW o
  PROVE  IsFiniteSet(Cancelled(o))
<1>1. CASE timer_count[o] = 0
  BY <1>1 DEF Cancelled, TimersInv
<1>2. CASE timer_count[o] # 0
  <2> DEFINE f == [n \in timers_list |-> [n EXCEPT !.deleted = @ \/ n.owner = o]]
  <2>1. Cancelled(o) = {f[n] : n \in timers_list}
    BY <1>2 DEF Cancelled
  <2>2. IsFiniteSet({f[n] : n \in timers_list})
    <3> HIDE DEF f
    <3>1. QED
      BY ImageFinite DEF TimersInv
  <2>3. QED
    BY <2>1, <2>2
<1>3. QED
  BY <1>1, <1>2

LEMMA DestroyKeeps ==
  ASSUME TimersInv, NEW o \in Owners, Destroy(o)
  PROVE  TimersInv'
<1>1. o \in alive /\ timers_list' = Cancelled(o) /\ alive' = alive \ {o}
  BY DEF Destroy
<1>2. /\ timers_list' \subseteq Node
      /\ \A m \in timers_list' :
           ~m.deleted => m \in timers_list /\ (m.owner # o \/ o \in Cancellable)
  BY <1>1, CancelledNodes
<1>3. TypeOK'
  BY <1>1, <1>2 DEF TimersInv, TypeOK, Destroy
<1>4. QED
  BY <1>1, <1>2, <1>3, CancelledFinite
     DEF TimersInv, Destroy, NoTimerOfFreedOwner, CountCovers, NoHandlerOnFreedOwner

LEMMA CancelKeeps ==
  ASSUME TimersInv, NEW o \in Owners, CancelTimers(o)
  PROVE  TimersInv'
<1>1. o \in Cancellable /\ o \in alive /\ timers_list' = Cancelled(o)
  BY DEF CancelTimers
<1>2. /\ timers_list' \subseteq Node
      /\ \A m \in timers_list' : ~m.deleted => m \in timers_list
  BY <1>1, CancelledNodes
<1>3. \A p \in Owners : p # o => timer_count'[p] = timer_count[p]
  BY DEF CancelTimers, TimersInv, TypeOK
<1>4. timer_count' \in [Owners -> Int]
  <2>1. CountAfterCancel(o) \in Int
    <3>1. CASE timer_count[o] = 0
      BY <3>1 DEF CountAfterCancel
    <3>2. CASE timer_count[o] # 0
      <4>1. NodesOf(o) \subseteq timers_list
        BY DEF NodesOf
      <4>2. IsFiniteSet(NodesOf(o))
        BY <4>1, FS_Subset DEF TimersInv
      <4>3. Cardinality(NodesOf(o)) \in Nat
        BY <4>2, FS_CardinalityType
      <4>4. QED
        BY <3>2, <4>3 DEF CountAfterCancel, TimersInv, TypeOK
    <3>3. QED
      BY <3>1, <3>2
  <2>2. QED
    BY <2>1 DEF CancelTimers, TimersInv, TypeOK
<1>5. TypeOK'
  BY <1>2, <1>4 DEF TimersInv, TypeOK, CancelTimers
<1>6. CountCovers'
  BY <1>1, <1>2, <1>3 DEF TimersInv, TypeOK, CancelTimers, CountCovers, Node
<1>7. QED
  BY <1>1, <1>2, <1>5, <1>6, CancelledFinite
     DEF TimersInv, CancelTimers, NoTimerOfFreedOwner, NoHandlerOnFreedOwner

(* The pass: killers and nodes that fire belong to owners with a positive  *)
(* count, so the cancellation in remove_*_user marks what it must mark.    *)
LEMMA CheckKeeps ==
  ASSUME TimersInv, CheckTimers
  PROVE  TimersInv'
<1>1. PICK Killers \in SUBSET {n \in timers_list : Due(n) /\ n.owner \in alive},
           Again \in {{}} \union
             {{n} : n \in {m \in timers_list : Due(m) /\ m.owner \in alive}} :
        /\ \A n \in Again : \A k \in Killers : k.owner # n.owner
        /\ timers_list' =
             {[n EXCEPT !.deleted = Due(n) \/ MarkedByKill(n, Killers)] :
                n \in {n \in timers_list : ~MarkedWhenReached(n, Killers)}}
               \union {NewNode(n.owner) : n \in Again}
        /\ timer_count' = [o \in Owners |->
             timer_count[o] + Cardinality({n \in Again : n.owner = o})]
        /\ added' = added + Cardinality(Again)
        /\ alive' = alive \ {k.owner : k \in Killers}
        /\ freed_passed' = freed_passed \union PassesFreed(Killers)
        /\ irc_CurrentTime' = irc_CurrentTime
        /\ irc_CurrentTime - last_run > TIMER_INTERVAL
        /\ last_run' = LastRunAfter
  BY DEF CheckTimers
<1>2. /\ \A k \in Killers : k \in Node /\ ~k.deleted
           /\ (k.owner \in Cancellable \/ timer_count[k.owner] > 0)
      /\ \A n \in Again : n \in timers_list /\ n \in Node /\ ~n.deleted
                          /\ n.owner \in alive
  BY <1>1 DEF Due, TimersInv, TypeOK, CountCovers
<1>3. \A o \in Owners : timer_count'[o] \in Int /\ timer_count'[o] >= timer_count[o]
  <2>1. SUFFICES ASSUME NEW o \in Owners
                 PROVE timer_count'[o] \in Int /\ timer_count'[o] >= timer_count[o]
    OBVIOUS
  <2>2. Again = {} \/ \E n : Again = {n}
    BY <1>1
  <2>3. Cardinality({n \in Again : n.owner = o}) \in {0, 1}
    BY <2>2, AgainCount
  <2>4. timer_count'[o] = timer_count[o] + Cardinality({n \in Again : n.owner = o})
    BY <1>1
  <2>5. timer_count[o] \in Int
    BY DEF TimersInv, TypeOK
  <2>6. QED
    BY <2>3, <2>4, <2>5
<1>4. added' \in Nat
  <2>1. Cardinality(Again) \in Nat
    <3>1. Again = {} \/ \E n : Again = {n}
      BY <1>1
    <3>2. CASE Again = {}
      BY <3>2, FS_EmptySet
    <3>3. CASE \E n : Again = {n}
      BY <3>3, FS_Singleton
    <3>4. QED
      BY <3>1, <3>2, <3>3
  <2>2. QED
    BY <1>1, <2>1 DEF TimersInv, TypeOK
<1>5. \A n \in Again : n.owner \in Owners /\ NewNode(n.owner) \in Node
                      /\ NewNode(n.owner).owner = n.owner
  <2>1. SUFFICES ASSUME NEW n \in Again
                 PROVE n.owner \in Owners /\ NewNode(n.owner) \in Node
                       /\ NewNode(n.owner).owner = n.owner
    OBVIOUS
  <2>2. n.owner \in Owners
    BY <1>2 DEF Node
  <2>3. QED
    BY <2>2, NewNodeType DEF TimersInv, NewNode
(* A node of the new list that can still fire has an owner that stays.     *)
<1>6. ASSUME NEW m \in timers_list'
      PROVE  /\ m \in Node
             /\ ~m.deleted => \/ m.owner \in Cancellable
                              \/ m.owner \in alive' /\ timer_count'[m.owner] > 0
  <2>1. CASE m \in {NewNode(n.owner) : n \in Again}
    <3>1. PICK n \in Again : m = NewNode(n.owner)
      BY <2>1
    <3>2. m \in Node /\ m.owner = n.owner
      BY <3>1, <1>5
    <3>3. n \in timers_list /\ ~n.deleted /\ n.owner \in alive /\ n.owner \in Owners
      BY <3>1, <1>2 DEF Node
    <3>4. /\ n.owner \in Cancellable \/ timer_count[n.owner] > 0
          /\ timer_count[n.owner] \in Int
      BY <3>3 DEF TimersInv, CountCovers, TypeOK
    <3>5. n.owner \in alive'
      BY <1>1, <3>1, <3>3
    <3>6. n.owner \in Cancellable \/ timer_count'[n.owner] > 0
      BY <1>3, <3>3, <3>4 DEF TimersInv, TypeOK
    <3>7. QED
      BY <3>2, <3>5, <3>6
  <2>2. CASE m \notin {NewNode(n.owner) : n \in Again}
    <3>1. PICK n \in timers_list :
            /\ ~MarkedWhenReached(n, Killers)
            /\ m = [n EXCEPT !.deleted = Due(n) \/ MarkedByKill(n, Killers)]
      BY <1>1, <2>2
    <3>2. n \in Node /\ ~n.deleted
      BY <3>1 DEF TimersInv, TypeOK, MarkedWhenReached
    <3>3. (Due(n) \/ MarkedByKill(n, Killers)) \in BOOLEAN
      OBVIOUS
    <3>4. /\ m \in Node /\ m.owner = n.owner
          /\ m.deleted = (Due(n) \/ MarkedByKill(n, Killers))
      <4> DEFINE b == Due(n) \/ MarkedByKill(n, Killers)
      <4>1. b \in BOOLEAN
        OBVIOUS
      <4> HIDE DEF b
      <4>2. m = [n EXCEPT !.deleted = b]
        BY <3>1 DEF b
      <4>3. m \in Node /\ m.owner = n.owner /\ m.deleted = b
        BY <4>1, <4>2, <3>2, MarkType
      <4>4. QED
        BY <4>3 DEF b
    <3>5. /\ n.owner \in Owners
          /\ n.owner \notin Cancellable => n.owner \in alive /\ timer_count[n.owner] > 0
      BY <3>2 DEF TimersInv, NoTimerOfFreedOwner, CountCovers, Node
    <3>6. ASSUME ~m.deleted, n.owner \notin Cancellable PROVE n.owner \in alive'
      <4>1. \A k \in Killers : k.owner # n.owner
        <5>1. SUFFICES ASSUME NEW k \in Killers, k.owner = n.owner PROVE FALSE
          OBVIOUS
        <5>2. timer_count[k.owner] # 0
          BY <1>2, <3>5, <3>6, <5>1 DEF TimersInv, TypeOK
        <5>3. MarkedByKill(n, Killers)
          BY <5>1, <5>2 DEF MarkedByKill
        <5>4. QED
          BY <5>3, <3>4, <3>6
      <4>2. QED
        BY <4>1, <3>5, <3>6, <1>1
    <3>7. n.owner \notin Cancellable => timer_count'[n.owner] > 0
      BY <1>3, <3>5 DEF TimersInv, TypeOK
    <3>8. QED
      BY <3>4, <3>6, <3>7
  <2>3. QED
    BY <2>1, <2>2
<1>7. PassesFreed(Killers) \subseteq Cancellable
  <2>1. SUFFICES ASSUME NEW n \in Fired(Killers), n.owner \notin Cancellable
                 PROVE /\ n.owner \in alive
                       /\ ~ \E k \in Killers : k.owner = n.owner /\ k.id > n.id
    BY DEF PassesFreed
  <2>2. n \in timers_list /\ ~n.deleted /\ ~MarkedWhenReached(n, Killers)
    BY DEF Fired, Due
  <2>3. n.owner \in alive
    BY <2>1, <2>2 DEF TimersInv, NoTimerOfFreedOwner
  <2>4. ASSUME NEW k \in Killers, k.owner = n.owner, k.id > n.id PROVE FALSE
    <3>1. timer_count[k.owner] # 0
      BY <1>2, <2>1, <2>4 DEF TimersInv, TypeOK, Node
    <3>2. MarkedByKill(n, {j \in Killers : j.id > n.id})
      BY <2>4, <3>1 DEF MarkedByKill
    <3>3. QED
      BY <3>2, <2>2 DEF MarkedWhenReached
  <2>5. QED
    BY <2>3, <2>4
<1>8. TypeOK'
  <2>1. timer_count' \in [Owners -> Int]
    BY <1>1, <1>3
  <2>2. last_run' \in Nat
    BY <1>1, TimersAssumption DEF TimersInv, TypeOK, LastRunAfter
  <2>3. freed_passed' \subseteq Owners
    <3>1. PassesFreed(Killers) \subseteq Owners
      BY <1>7, TimersAssumption
    <3>2. QED
      BY <1>1, <3>1 DEF TimersInv, TypeOK
  <2>4. alive' \subseteq Owners
    BY <1>1 DEF TimersInv, TypeOK
  <2>5. QED
    BY <1>1, <1>4, <1>6, <2>1, <2>2, <2>3, <2>4 DEF TimersInv, TypeOK
<1>9. CountCovers'
  <2>1. \A o \in alive' \ Cancellable : timer_count'[o] >= 0
    BY <1>1, <1>3 DEF TimersInv, TypeOK, CountCovers
  <2>2. QED
    BY <1>6, <2>1 DEF CountCovers
<1>10. NoTimerOfFreedOwner'
  BY <1>6 DEF NoTimerOfFreedOwner
<1>11. NoHandlerOnFreedOwner'
  BY <1>1, <1>7 DEF TimersInv, NoHandlerOnFreedOwner
<1>12. IsFiniteSet(timers_list')
  <2> DEFINE kept == {n \in timers_list : ~MarkedWhenReached(n, Killers)}
             f == [n \in kept |->
                    [n EXCEPT !.deleted = Due(n) \/ MarkedByKill(n, Killers)]]
             g == [n \in Again |-> NewNode(n.owner)]
  <2>1. timers_list' = {f[n] : n \in kept} \union {g[n] : n \in Again}
    BY <1>1
  <2>2. IsFiniteSet(kept)
    BY FS_Subset DEF TimersInv
  <2>3. IsFiniteSet(Again)
    <3>1. Again \subseteq timers_list
      BY <1>2
    <3>2. QED
      BY <3>1, FS_Subset DEF TimersInv
  <2>4. IsFiniteSet({f[n] : n \in kept}) /\ IsFiniteSet({g[n] : n \in Again})
    <3> HIDE DEF f, g, kept
    <3>1. QED
      BY <2>2, <2>3, ImageFinite
  <2>5. QED
    BY <2>1, <2>4, FS_Union
<1>13. QED
  BY <1>8, <1>9, <1>10, <1>11, <1>12 DEF TimersInv

LEMMA NextKeeps ==
  ASSUME TimersInv, [Next]_vars
  PROVE  TimersInv'
<1>1. CASE \E o \in Owners : Create(o)
  BY <1>1, CreateKeeps
<1>2. CASE \E o \in Owners : AddTimer(o)
  BY <1>2, AddKeeps
<1>3. CASE \E o \in Owners : CancelTimers(o)
  BY <1>3, CancelKeeps
<1>4. CASE \E o \in Owners : Destroy(o)
  BY <1>4, DestroyKeeps
<1>5. CASE CheckTimers
  BY <1>5, CheckKeeps
<1>6. CASE Tick
  BY <1>6 DEF Tick, TimersInv, TypeOK, NoTimerOfFreedOwner, CountCovers,
              NoHandlerOnFreedOwner
<1>7. CASE UNCHANGED vars
  BY <1>7 DEF vars, TimersInv, TypeOK, NoTimerOfFreedOwner, CountCovers,
              NoHandlerOnFreedOwner
<1>8. QED
  BY <1>1, <1>2, <1>3, <1>4, <1>5, <1>6, <1>7 DEF Next

(* The inductive invariant holds whoever cancels.                          *)
THEOREM TimersInvariant == Spec => []TimersInv
<1>1. TimersInv /\ [Next]_vars => TimersInv'
  BY NextKeeps
<1>2. QED
  BY <1>1, InitHolds, PTL DEF Spec

(* timer.c: a node that can still fire never refers to a struct that has   *)
(* been freed, a channel of del_user_from_chan for one.                    *)
THEOREM TimerOwnerAlive == Spec => []NoTimerOfFreedOwner
<1>1. TimersInv => NoTimerOfFreedOwner
  BY DEF TimersInv
<1>2. QED
  BY <1>1, TimersInvariant, PTL

(* ... and the pass never calls a handler with a freed owner, handlers     *)
(* that free it in the middle of the pass included.                        *)
THEOREM HandlerOwnerAlive == Spec => []NoHandlerOnFreedOwner
<1>1. TimersInv => NoHandlerOnFreedOwner
  BY DEF TimersInv
<1>2. QED
  BY <1>1, TimersInvariant, PTL

-----------------------------------------------------------------------------
(* The loop drives the timers. A line moves irc_CurrentTime only after the *)
(* first pass, and to a time that is not over the bound.                   *)
ClockInv ==
  /\ irc_CurrentTime \in Nat /\ now \in Nat
  /\ Start <= irc_CurrentTime /\ irc_CurrentTime <= now
  /\ now = Start \/ now <= MaxNow
  /\ last_run \in Nat
  /\ turn = "buffer" => last_run # 0

LEMMA ClockInit == MainInit => ClockInv
BY TimersAssumption DEF MainInit, Init, ConnectionInit, FirstOfTurn, ClockInv

(* What the parts of a turn do to the timers and the two clocks            *)
LEMMA BufferTurnClock ==
  ASSUME ClockInv, BufferTurn
  PROVE  /\ UNCHANGED timervars /\ now' = now /\ turn' = "timers"
         /\ last_run' = last_run /\ last_run # 0
         /\ irc_CurrentTime' \in {irc_CurrentTime, now}
<1>1. now' = now
  BY DEF BufferTurn, CheckBuffer, Ends, NothingRead, connvars, Reads
<1>2. QED
  BY <1>1 DEF BufferTurn, ClockInv, timervars

LEMMA OtherTurnsClock ==
  ASSUME Startup \/ Network
  PROVE  UNCHANGED <<vars, now, turn>>
<1>1. CASE Startup
  BY <1>1 DEF Startup, connvars, Connects, ConnectFails, Ends
<1>2. CASE Network
  BY <1>2 DEF Network, LocalStep, SlineStep, DaemonStep, DaemonSends, DaemonCloses,
              DaemonKills, Sends, Sigpipe, Ends
<1>3. QED
  BY <1>1, <1>2

LEMMA HandlersAreTimers ==
  ASSUME Handlers
  PROVE  Next /\ UNCHANGED <<now, turn, irc_CurrentTime, last_run>>
BY DEF Handlers, Next, Create, AddTimer, CancelTimers, Destroy, connvars

LEMMA TimersTurnClock ==
  ASSUME ClockInv, TimersTurn
  PROVE  /\ Next \/ UNCHANGED vars
         /\ UNCHANGED <<now, irc_CurrentTime>>
         /\ last_run' \in Nat /\ last_run' # 0
<1>1. CASE CheckTimers
  <2>1. /\ irc_CurrentTime - last_run > TIMER_INTERVAL
        /\ last_run' = irc_CurrentTime - last_run /\ irc_CurrentTime' = irc_CurrentTime
    BY <1>1 DEF CheckTimers, LastRunAfter
  <2>2. last_run' \in Nat /\ last_run' # 0
    BY <2>1, TimersAssumption DEF ClockInv
  <2>3. Next /\ now' = now
    BY <1>1 DEF Next, TimersTurn, connvars
  <2>4. QED
    BY <2>1, <2>2, <2>3
<1>2. CASE irc_CurrentTime - last_run <= TIMER_INTERVAL /\ UNCHANGED vars
  <2>1. last_run # 0
    BY <1>2, TimersAssumption, MainLoopAssumption DEF ClockInv
  <2>2. QED
    BY <1>2, <2>1 DEF TimersTurn, ClockInv, vars, connvars
<1>3. QED
  BY <1>1, <1>2 DEF TimersTurn

(* A step of the loop is a step of the timers or does not concern them.    *)
LEMMA MainStep ==
  ASSUME ClockInv, [MainNext]_mainvars
  PROVE  ClockInv' /\ [Next]_vars
<1>1. CASE Startup \/ Network
  BY <1>1, OtherTurnsClock DEF ClockInv, vars
<1>2. CASE TimersTurn
  BY <1>2, TimersTurnClock DEF ClockInv
<1>3. CASE BufferTurn
  <2>1. /\ UNCHANGED timervars /\ now' = now /\ turn' = "timers"
        /\ last_run' = last_run /\ last_run # 0
        /\ irc_CurrentTime' \in {irc_CurrentTime, now}
    BY <1>3, BufferTurnClock
  <2>2. ClockInv'
    BY <2>1, TimersAssumption DEF ClockInv
  <2>3. CASE irc_CurrentTime' = irc_CurrentTime
    BY <2>1, <2>2, <2>3 DEF timervars, vars
  <2>4. CASE irc_CurrentTime' # irc_CurrentTime
    <3>1. irc_CurrentTime' \in irc_CurrentTime + 1 .. MaxNow
      BY <2>1, <2>4, TimersAssumption DEF ClockInv
    <3>2. Tick
      BY <2>1, <3>1 DEF Tick, timervars
    <3>3. QED
      BY <2>2, <3>2 DEF Next
  <2>5. QED
    BY <2>2, <2>3, <2>4
<1>4. CASE Handlers
  BY <1>4, HandlersAreTimers DEF ClockInv
<1>5. CASE Clock
  BY <1>5, TimersAssumption DEF Clock, ClockInv, vars
<1>6. CASE UNCHANGED mainvars
  BY <1>6 DEF mainvars, ClockInv, vars, connvars
<1>7. QED
  BY <1>1, <1>2, <1>3, <1>4, <1>5, <1>6 DEF MainNext

(* irc_LoopWhileConnected drives check_u_timer_events as Timers has it: in *)
(* every scenario of the connection its turns are passes and steps of the  *)
(* clock, and the first pass comes before the clock moves.                 *)
THEOREM LoopImplementsTimers == MainSpec => ImplementsTimers
<1>1. MainInit => Init
  BY DEF MainInit
<1>2. ClockInv /\ [MainNext]_mainvars => ClockInv'
  BY MainStep
<1>3. ClockInv /\ [MainNext]_mainvars => [Next]_vars
  BY MainStep
<1>4. QED
  BY <1>1, <1>2, <1>3, ClockInit, PTL DEF MainSpec, ImplementsTimers

(* No handler of the running loop is called with a freed owner, whatever   *)
(* the daemon sends and however long it is silent.                         *)
THEOREM LoopHandlerOwnerAlive == MainSpec => []NoHandlerOnFreedOwner
<1>1. TimersInv /\ [Next]_vars => TimersInv'
  BY NextKeeps
<1>2. TimersInv => NoHandlerOnFreedOwner
  BY DEF TimersInv
<1>3. QED
  BY <1>1, <1>2, InitHolds, LoopImplementsTimers, PTL DEF ImplementsTimers

-----------------------------------------------------------------------------
(* The S-lines of the table and those of the daemon. A mask has one row,   *)
(* so that its removal by number leaves none behind; nothing is sent       *)
(* before the first server is there.                                       *)
SlinesInv ==
  /\ \A r, q \in os_sline : r.mask = q.mask => r = q
  /\ phase = "loading" => ~already_loaded
  /\ ~already_loaded => slines = {}
  /\ SlinesFollow

LEMMA SlinesInit == MainInit => SlinesInv
BY DEF MainInit, ConnectionInit, SlinesInv, SlinesFollow

(* The rest of the connection only moves from phase to phase.              *)
LEMMA SlinesKept ==
  ASSUME SlinesInv, UNCHANGED slinevars, already_loaded' = already_loaded,
         closed => closed',
         \/ phase' \in {phase, "ended"}
         \/ phase = "loading" /\ phase' = "netjoin"
         \/ Connected /\ phase' = "loop"
  PROVE  SlinesInv'
BY DEF SlinesInv, SlinesFollow, slinevars, Listens, Connected

LEMMA ReadsSlines ==
  ASSUME SlinesInv, Connected, NEW k, Reads(k)
  PROVE  SlinesInv'
<1> DEFINE lines == LinesIn(buffer \o SubSeq(stream, 1, k))
<1>1. Parsed(lines) /\ UNCHANGED <<closed, os_sline, next_sline>>
  BY DEF Reads
<1> HIDE DEF lines
<1>2. phase' \in {phase, "loop"}
  BY <1>1 DEF Parsed
<1>3. CASE FirstServer(lines)
  <2>1. ~already_loaded /\ already_loaded' /\ slines = {}
    BY <1>1, <1>3 DEF Parsed, FirstServer, SlinesInv
  <2>2. closed \/ slines' = {r.mask : r \in os_sline}
    BY <1>1, <1>3, <2>1 DEF Parsed, SlinesSent
  <2>3. QED
    BY <1>1, <1>2, <2>1, <2>2 DEF SlinesInv, SlinesFollow, Listens, Connected
<1>4. CASE ~FirstServer(lines)
  <2>1. UNCHANGED slinevars /\ already_loaded' \in BOOLEAN /\ (already_loaded' <=> already_loaded)
    BY <1>1, <1>4 DEF Parsed, slinevars
  <2>2. QED
    BY <1>1, <1>2, <2>1 DEF SlinesInv, SlinesFollow, slinevars, Listens, Connected
<1>5. QED
  BY <1>3, <1>4

LEMMA SlineStepSlines ==
  ASSUME SlinesInv, SlineStep
  PROVE  SlinesInv'
<1>1. UNCHANGED <<phase, closed, already_loaded>>
  BY DEF SlineStep, wirevars
<1>2. CASE \E m \in Masks : SlineAdd(m)
  <2>1. PICK m \in Masks : SlineAdd(m)
    BY <1>2
  <2> DEFINE row == [id |-> next_sline, mask |-> m]
  <2>2. /\ row.mask = m /\ os_sline' = os_sline \union {row} /\ already_loaded
        /\ slines' = IF Listens THEN slines \union {m} ELSE slines
        /\ \A r \in os_sline : r.mask # m
    BY <2>1 DEF SlineAdd, SlineStored, find_sline
  <2> HIDE DEF row
  <2>3. QED
    BY <1>1, <2>2 DEF SlinesInv, SlinesFollow, Listens, Connected
<1>3. CASE \E r \in os_sline : SlineDel(r)
  <2>1. PICK r \in os_sline : SlineDel(r)
    BY <1>3
  <2>2. /\ os_sline' = os_sline \ {r} /\ already_loaded
        /\ slines' = IF Listens THEN slines \ {r.mask} ELSE slines
    BY <2>1 DEF SlineDel
  <2>3. {q.mask : q \in os_sline \ {r}} = {q.mask : q \in os_sline} \ {r.mask}
    BY DEF SlinesInv
  <2>4. QED
    BY <1>1, <2>2, <2>3 DEF SlinesInv, SlinesFollow, Listens, Connected
<1>4. QED
  BY <1>2, <1>3 DEF SlineStep

LEMMA SlinesStep ==
  ASSUME SlinesInv, [MainNext]_mainvars
  PROVE  SlinesInv'
<1>1. CASE Startup
  BY <1>1, SlinesKept
  DEF Startup, Connects, Starts, ConnectFails, Ends, connvars, wirevars
<1>2. CASE TimersTurn \/ Handlers \/ Clock \/ UNCHANGED mainvars
  BY <1>2, SlinesKept DEF TimersTurn, Handlers, Clock, mainvars, connvars, wirevars
<1>3. CASE BufferTurn
  <2>1. CASE \E k \in MayRead : Reads(k)
    BY <1>3, <2>1, ReadsSlines DEF BufferTurn
  <2>2. CASE Ends \/ NothingRead
    BY <2>2, SlinesKept DEF Ends, NothingRead, connvars, wirevars
  <2>3. QED
    BY <1>3, <2>1, <2>2 DEF BufferTurn, CheckBuffer
<1>4. CASE Network
  <2>1. CASE SlineStep
    BY <2>1, SlineStepSlines
  <2>2. CASE LocalStep
    BY <2>2, SlinesKept DEF LocalStep, wirevars
  <2>3. CASE DaemonStep
    BY <2>3, SlinesKept
    DEF DaemonStep, DaemonSends, DaemonCloses, DaemonKills, Sends
  <2>4. CASE Sigpipe
    BY <2>4, SlinesKept DEF Sigpipe, Ends, wirevars
  <2>5. QED
    BY <1>4, <2>1, <2>2, <2>3, <2>4 DEF Network
<1>5. QED
  BY <1>1, <1>2, <1>3, <1>4 DEF MainNext

(* os_sline.c:110 "avoid duplicates": no S-line stays in force by a second *)
(* row, whenever masks are added and removed and the network comes up.     *)
THEOREM SlinesAlwaysFollow == MainSpec => []SlinesFollow
<1>1. SlinesInv /\ [MainNext]_mainvars => SlinesInv'
  BY SlinesStep
<1>2. SlinesInv => SlinesFollow
  BY DEF SlinesInv
<1>3. QED
  BY <1>1, <1>2, SlinesInit, PTL DEF MainSpec

-----------------------------------------------------------------------------
(* The bytes of the connection. A line is two tokens, CR and LF.           *)
Lines == Commands \union {Kill(u) : u \in Locals}

Tokens == {"CR", "LF"} \union {l[1] : l \in Lines} \union {l[2] : l \in Lines}

LEMMA LineFacts ==
  ASSUME NEW l \in Lines
  PROVE  /\ l[1] \in Tokens \ {"CR", "LF"} /\ l[2] \in Tokens \ {"CR", "LF"}
         /\ l = <<l[1], l[2]>>
         /\ OnWire(l) \in Seq(Tokens) /\ Len(OnWire(l)) = 4
         /\ OnWire(l)[1] = l[1] /\ OnWire(l)[2] = l[2]
         /\ OnWire(l)[3] = "CR" /\ OnWire(l)[4] = "LF"
<1>1. /\ l = <<l[1], l[2]>> /\ l[1] \notin {"CR", "LF"} /\ l[2] \notin {"CR", "LF"}
  <2>1. CASE l \in Commands
    BY <2>1 DEF Commands
  <2>2. CASE \E u \in Locals : l = Kill(u)
    BY <2>2, ConnectionAssumption DEF Kill
  <2>3. QED
    BY <2>1, <2>2 DEF Lines
<1>2. l[1] \in Tokens /\ l[2] \in Tokens /\ "CR" \in Tokens /\ "LF" \in Tokens
  BY DEF Tokens
<1> DEFINE e == <<"CR", "LF">>
<1>3. e \in Seq(Tokens) /\ Len(e) = 2 /\ e[1] = "CR" /\ e[2] = "LF"
  BY <1>2
<1>4. l \in Seq(Tokens) /\ Len(l) = 2
  <2>1. \A a, b \in Tokens : <<a, b>> \in Seq(Tokens) /\ Len(<<a, b>>) = 2
    OBVIOUS
  <2>2. QED
    BY <1>1, <1>2, <2>1, Zenon
<1>5. OnWire(l) = l \o e
  BY DEF OnWire
<1> HIDE DEF e
<1>6. l \o e \in Seq(Tokens) /\ Joins(l \o e, l, e)
  BY <1>3, <1>4, Joined, Zenon
<1>7. /\ OnWire(l) \in Seq(Tokens) /\ Len(OnWire(l)) = 4
      /\ OnWire(l)[1] = l[1] /\ OnWire(l)[2] = l[2]
      /\ OnWire(l)[3] = "CR" /\ OnWire(l)[4] = "LF"
  <2> DEFINE w == l \o e
  <2>1. w = OnWire(l) /\ w \in Seq(Tokens) /\ Joins(w, l, e)
    BY <1>5, <1>6, Zenon
  <2> HIDE DEF w
  <2>2. Len(w) = 4 /\ w[1] = l[1] /\ w[2] = l[2] /\ w[3] = "CR" /\ w[4] = "LF"
    <3>1. 2 + 1 = 3 /\ 2 + 2 = 4 /\ 1 \in 1..2 /\ 2 \in 1..2
      OBVIOUS
    <3>2. QED
      BY <1>3, <1>4, <2>1, <3>1 DEF Joins
  <2>3. QED
    BY <2>1, <2>2
<1>8. QED
  BY <1>1, <1>2, <1>7

(* What waits is the lines U, byte for byte, and before them the LF that a *)
(* read has left behind (o = 1) or nothing (o = 0).                        *)
Stands(L, o, U) ==
  /\ o \in {0, 1} /\ L \in Seq(Tokens) /\ U \in Seq(Lines)
  /\ Len(L) = o + 4 * Len(U)
  /\ o = 1 => L[1] = "LF"
  /\ \A i \in 1..Len(U) : /\ L[o + 4*i - 3] = U[i][1] /\ L[o + 4*i - 2] = U[i][2]
                          /\ L[o + 4*i - 1] = "CR" /\ L[o + 4*i] = "LF"

LEMMA StandsAppend ==
  ASSUME NEW L, NEW o, NEW U, Stands(L, o, U), NEW l \in Lines
  PROVE  Stands(L \o OnWire(l), o, Append(U, l))
<1> DEFINE w == OnWire(l)
           n == Len(U)
<1>1. /\ w \in Seq(Tokens) /\ Len(w) = 4
      /\ w[1] = l[1] /\ w[2] = l[2] /\ w[3] = "CR" /\ w[4] = "LF"
  BY LineFacts
<1>2. /\ o \in {0, 1} /\ L \in Seq(Tokens) /\ U \in Seq(Lines) /\ n \in Nat /\ n = Len(U)
      /\ Len(L) = o + 4 * n
      /\ o = 1 => L[1] = "LF"
      /\ \A i \in 1..n : /\ L[o + 4*i - 3] = U[i][1] /\ L[o + 4*i - 2] = U[i][2]
                         /\ L[o + 4*i - 1] = "CR" /\ L[o + 4*i] = "LF"
  BY DEF Stands
<1> DEFINE M == L \o w
           V == Append(U, l)
<1> HIDE DEF w, n
<1>3. /\ M \in Seq(Tokens) /\ Len(M) = o + 4 * n + 4
      /\ \A i \in 1..Len(L) : M[i] = L[i]
      /\ \A j \in 1..4 : M[o + 4 * n + j] = w[j]
  <2>1. M \in Seq(Tokens) /\ Joins(M, L, w)
    BY <1>1, <1>2, Joined, Zenon
  <2> HIDE DEF M
  <2>2. QED
    BY <1>1, <1>2, <2>1 DEF Joins
<1>4. V \in Seq(Lines) /\ Len(V) = n + 1 /\ V[n + 1] = l /\ \A i \in 1..n : V[i] = U[i]
  BY <1>2
<1> HIDE DEF M, V, n
<1>5. ASSUME NEW i \in 1..n+1
      PROVE  /\ M[o + 4*i - 3] = V[i][1] /\ M[o + 4*i - 2] = V[i][2]
             /\ M[o + 4*i - 1] = "CR" /\ M[o + 4*i] = "LF"
  <2>1. CASE i = n + 1
    <3>1. /\ o + 4*i - 3 = o + 4*n + 1 /\ o + 4*i - 2 = o + 4*n + 2
          /\ o + 4*i - 1 = o + 4*n + 3 /\ o + 4*i = o + 4*n + 4
      BY <1>2, <2>1
    <3>2. QED
      BY <1>1, <1>3, <1>4, <2>1, <3>1
  <2>2. CASE i # n + 1
    <3>1. i \in 1..n /\ {o + 4*i - 3, o + 4*i - 2, o + 4*i - 1, o + 4*i} \subseteq 1..Len(L)
      BY <1>2, <2>2
    <3>2. QED
      BY <1>2, <1>3, <1>4, <3>1
  <2>3. QED
    BY <2>1, <2>2
<1>6. o = 1 => M[1] = "LF"
  BY <1>2, <1>3
<1>7. Len(M) = o + 4 * Len(V)
  BY <1>2, <1>3, <1>4
<1>8. QED
  BY <1>2, <1>3, <1>4, <1>5, <1>6, <1>7 DEF Stands, M, V, w

(* Numbers in ascending order                                              *)
LEMMA CountBelow ==
  ASSUME NEW n \in Nat, NEW e \in [0..n -> Nat],
         \A i, j \in 0..n : i < j => e[i] < e[j]
  PROVE  LET S == {e[i] : i \in 0..n}
         IN  /\ Cardinality(S) = n + 1
             /\ \A m \in 0..n : Cardinality({j \in S : j < e[m]}) = m
<1> DEFINE B(m) == {e[i - 1] : i \in 1..m}
<1>1. ASSUME NEW m \in 0..n+1 PROVE Cardinality(B(m)) = m
  <2> DEFINE f == [i \in 1..m |-> e[i - 1]]
  <2>1. \A i \in 1..m : i - 1 \in 0..n /\ e[i - 1] \in B(m)
    OBVIOUS
  <2>2. \A i, j \in 1..m : f[i] = f[j] => i = j
    <3>1. SUFFICES ASSUME NEW i \in 1..m, NEW j \in 1..m, i < j PROVE e[i - 1] # e[j - 1]
      OBVIOUS
    <3>2. i - 1 \in 0..n /\ j - 1 \in 0..n /\ i - 1 < j - 1
      BY <3>1
    <3>3. e[i - 1] < e[j - 1] /\ e[i - 1] \in Nat
      BY <3>2
    <3>4. QED
      BY <3>3
  <2>3. f \in [1..m -> B(m)] /\ \A y \in B(m) : \E i \in 1..m : f[i] = y
    BY <2>1
  <2> HIDE DEF f, B
  <2>4. f \in Bijection(1..m, B(m))
    BY <2>2, <2>3 DEF Bijection, Injection, Surjection, IsInjective
  <2>5. ExistsBijection(1..m, B(m))
    BY <2>4 DEF ExistsBijection
  <2>6. QED
    BY <2>5, FS_CountingElements
<1>2. {e[i] : i \in 0..n} = B(n + 1)
  <2>1. \A i \in 0..n : i + 1 \in 1..n+1 /\ (i + 1) - 1 = i
    OBVIOUS
  <2>2. \A i \in 1..n+1 : i - 1 \in 0..n
    OBVIOUS
  <2>3. QED
    BY <2>1, <2>2
<1>3. ASSUME NEW m \in 0..n PROVE {j \in {e[i] : i \in 0..n} : j < e[m]} = B(m)
  <2>1. ASSUME NEW i \in 0..n PROVE e[i] < e[m] <=> i < m
    <3>1. e[i] \in Nat /\ e[m] \in Nat /\ (m < i => e[m] < e[i]) /\ (i < m => e[i] < e[m])
      OBVIOUS
    <3>2. CASE i = m
      BY <3>1, <3>2
    <3>3. CASE i < m
      BY <3>1, <3>3
    <3>4. CASE m < i
      BY <3>1, <3>4
    <3>5. QED
      BY <3>2, <3>3, <3>4
  <2>2. ASSUME NEW i \in 0..n, e[i] < e[m] PROVE e[i] \in B(m)
    <3>1. i + 1 \in 1..m /\ (i + 1) - 1 = i
      BY <2>1, <2>2
    <3>2. QED
      BY <3>1
  <2>3. ASSUME NEW i \in 1..m PROVE i - 1 \in 0..n /\ e[i - 1] < e[m]
    BY <2>1, <2>3
  <2>4. QED
    BY <2>2, <2>3
<1> HIDE DEF B
<1>4. Cardinality({e[i] : i \in 0..n}) = n + 1
  <2>1. n + 1 \in 0..n+1
    OBVIOUS
  <2>2. Cardinality(B(n + 1)) = n + 1
    BY <1>1, <2>1, Zenon
  <2>3. QED
    BY <1>2, <2>2, Zenon
<1>5. ASSUME NEW m \in 0..n PROVE Cardinality({j \in {e[i] : i \in 0..n} : j < e[m]}) = m
  <2>1. m \in 0..n+1
    OBVIOUS
  <2>2. Cardinality(B(m)) = m
    BY <1>1, <2>1, Zenon
  <2>3. QED
    BY <1>3, <2>2, Zenon
<1>6. QED
  BY <1>4, <1>5, Zenon


(* A buffer b before the rest r of what waits. It holds n whole lines of U,*)
(* and the CR of line m is at EndAt(o, m).                                 *)
Waits(b, r, o, U) ==
  b \in Seq(Tokens) /\ r \in Seq(Tokens) /\ Stands(b \o r, o, U)

Whole(b, o) == (Len(b) + 1 - o) \div 4

EndAt(o, m) == IF m = 0 THEN 0 ELSE o + 4*m - 1

LEMMA WholeLines ==
  ASSUME NEW b, NEW r, NEW o, NEW U, Waits(b, r, o, U)
  PROVE  /\ Len(b) \in Nat /\ Len(r) \in Nat /\ Len(U) \in Nat /\ o \in {0, 1}
         /\ Len(b) + Len(r) = o + 4 * Len(U)
         /\ Whole(b, o) \in 0..Len(U)
         /\ EndAt(o, Whole(b, o)) <= Len(b) /\ Len(b) < o + 4 * Whole(b, o) + 3
         /\ \A i \in 1..Len(b) : b[i] = (b \o r)[i]
<1>1. b \o r \in Seq(Tokens) /\ Joins(b \o r, b, r)
  BY Joined, Zenon DEF Waits
<1>2. Len(b) \in Nat /\ Len(r) \in Nat
  BY DEF Waits
<1>3. o \in {0, 1} /\ Len(U) \in Nat /\ Len(b \o r) = o + 4 * Len(U)
  BY DEF Waits, Stands
<1>4. Len(b \o r) = Len(b) + Len(r) /\ \A i \in 1..Len(b) : b[i] = (b \o r)[i]
  BY <1>1 DEF Joins
<1>5. /\ Whole(b, o) \in 0..Len(U)
      /\ EndAt(o, Whole(b, o)) <= Len(b) /\ Len(b) < o + 4 * Whole(b, o) + 3
  BY <1>2, <1>3, <1>4 DEF Whole, EndAt
<1>6. QED
  BY <1>2, <1>3, <1>4, <1>5

LEMMA WhereCRs ==
  ASSUME NEW b, NEW r, NEW o, NEW U, Waits(b, r, o, U)
  PROVE  CRs(b) = {[m \in 0..Whole(b, o) |-> EndAt(o, m)][i] : i \in 0..Whole(b, o)}
<1> DEFINE n == Whole(b, o)
           W == b \o r
<1>1. /\ Len(b) \in Nat /\ Len(r) \in Nat /\ Len(U) \in Nat /\ o \in {0, 1}
      /\ Len(b) + Len(r) = o + 4 * Len(U)
      /\ n \in 0..Len(U)
      /\ EndAt(o, n) <= Len(b) /\ Len(b) < o + 4 * n + 3
      /\ \A i \in 1..Len(b) : b[i] = W[i]
  BY WholeLines
<1>2. /\ U \in Seq(Lines) /\ DOMAIN b = 1..Len(b)
      /\ o = 1 => W[1] = "LF"
      /\ \A i \in 1..Len(U) : /\ W[o + 4*i - 3] = U[i][1] /\ W[o + 4*i - 2] = U[i][2]
                              /\ W[o + 4*i - 1] = "CR" /\ W[o + 4*i] = "LF"
  <2>1. b \in Seq(Tokens) /\ Stands(W, o, U)
    BY DEF Waits
  <2> HIDE DEF W
  <2>2. QED
    BY <2>1 DEF Stands
<1> HIDE DEF W, n
<1>3. ASSUME NEW m \in 1..n PROVE EndAt(o, m) \in DOMAIN b /\ b[EndAt(o, m)] = "CR"
  <2>1. m \in 1..Len(U) /\ EndAt(o, m) = o + 4*m - 1 /\ o + 4*m - 1 \in 1..Len(b)
    BY <1>1 DEF EndAt
  <2>2. QED
    BY <1>1, <1>2, <2>1
<1>4. ASSUME NEW i \in 1..Len(b), b[i] = "CR" PROVE \E m \in 1..n : i = EndAt(o, m)
  <2> DEFINE m == (i - o + 3) \div 4
  <2>1. W[i] = "CR" /\ ~(i = 1 /\ o = 1)
    BY <1>1, <1>2, <1>4
  <2>2. /\ m \in 1..Len(U)
        /\ \/ i = o + 4*m - 3 \/ i = o + 4*m - 2 \/ i = o + 4*m - 1 \/ i = o + 4*m
    BY <1>1, <2>1
  <2> HIDE DEF m
  <2>3. U[m] \in Lines
    BY <1>2, <2>2
  <2>4. U[m][1] # "CR" /\ U[m][2] # "CR"
    BY <2>3, LineFacts
  <2>5. i = o + 4*m - 1
    BY <1>2, <2>1, <2>2, <2>4
  <2>6. m \in 1..n /\ i = EndAt(o, m)
    BY <1>1, <2>2, <2>5 DEF EndAt
  <2>7. QED
    BY <2>6
<1>5. CRs(b) = {EndAt(o, m) : m \in 0..n}
  <2>1. ASSUME NEW x \in CRs(b) PROVE \E m \in 0..n : x = EndAt(o, m)
    <3>1. CASE x = 0
      BY <1>1, <3>1 DEF EndAt
    <3>2. CASE x # 0
      <4>1. x \in 1..Len(b) /\ b[x] = "CR"
        BY <1>2, <2>1, <3>2 DEF CRs
      <4>2. PICK m \in 1..n : x = EndAt(o, m)
        BY <4>1, <1>4
      <4>3. m \in 0..n
        BY <4>2
      <4>4. QED
        BY <4>2, <4>3
    <3>3. QED
      BY <3>1, <3>2
  <2>2. ASSUME NEW m \in 0..n PROVE EndAt(o, m) \in CRs(b)
    <3>1. CASE m = 0
      BY <3>1 DEF EndAt, CRs
    <3>2. CASE m # 0
      <4>1. m \in 1..n
        BY <1>1, <3>2
      <4>2. QED
        BY <1>3, <4>1 DEF CRs
    <3>3. QED
      BY <3>1, <3>2
  <2>3. QED
    BY <2>1, <2>2
<1>6. \A i \in 0..n : [m \in 0..n |-> EndAt(o, m)][i] = EndAt(o, i)
  OBVIOUS
<1>7. CRs(b) = {[m \in 0..n |-> EndAt(o, m)][i] : i \in 0..n}
  BY <1>5, <1>6
<1>8. QED
  BY <1>7, Zenon DEF n

LEMMA EndsOfLines ==
  ASSUME NEW b, NEW r, NEW o, NEW U, Waits(b, r, o, U)
  PROVE  /\ Cardinality(CRs(b)) = Whole(b, o) + 1
         /\ Max(CRs(b)) = EndAt(o, Whole(b, o))
         /\ \A m \in 0..Whole(b, o) : EndOf(b, m) = EndAt(o, m)
<1> DEFINE n == Whole(b, o)
           e == [m \in 0..n |-> EndAt(o, m)]
           S == {e[i] : i \in 0..n}
<1>1. n \in Nat /\ o \in {0, 1}
  BY WholeLines
<1>2. CRs(b) = S
  BY WhereCRs
<1> HIDE DEF n
<1>3. /\ e \in [0..n -> Nat]
      /\ \A i, j \in 0..n : i < j => e[i] < e[j]
      /\ \A i \in 0..n : e[i] = EndAt(o, i)
  BY <1>1 DEF EndAt
<1> HIDE DEF e
<1>4. Cardinality(S) = n + 1 /\ \A m \in 0..n : Cardinality({j \in S : j < e[m]}) = m
  BY <1>1, <1>3, CountBelow, Zenon
<1>5. ASSUME NEW m \in 0..n PROVE EndOf(b, m) = e[m]
  <2>1. \A x \in S : Cardinality({j \in S : j < x}) = m => x = e[m]
    <3>1. SUFFICES ASSUME NEW i \in 0..n, Cardinality({j \in S : j < e[i]}) = m PROVE e[i] = e[m]
      OBVIOUS
    <3>2. i = m
      BY <1>4, <3>1
    <3>3. QED
      BY <3>2
  <2>2. e[m] \in S /\ Cardinality({j \in S : j < e[m]}) = m
    BY <1>4
  <2> HIDE DEF S
  <2>3. (CHOOSE x \in S : Cardinality({j \in S : j < x}) = m) = e[m]
    BY <2>1, <2>2
  <2>4. QED
    BY <1>2, <2>3 DEF EndOf
<1>6. Max(S) = e[n]
  <2>1. e[n] \in S /\ \A y \in S : e[n] >= y
    <3>1. n \in 0..n
      BY <1>1
    <3>2. \A i \in 0..n : e[n] >= e[i]
      BY <1>1, <1>3, <3>1
    <3>3. QED
      BY <3>1, <3>2
  <2>2. \A x \in S : x \in Nat
    BY <1>3
  <2> HIDE DEF S
  <2>3. \A x \in S : (\A y \in S : x >= y) => x = e[n]
    BY <2>1, <2>2
  <2>4. (CHOOSE x \in S : \A y \in S : x >= y) = e[n]
    BY <2>1, <2>3
  <2>5. QED
    BY <2>4, Zenon DEF Max
<1>7. n \in 0..n
  BY <1>1
<1> HIDE DEF S
<1>8. Cardinality(CRs(b)) = n + 1 /\ Max(CRs(b)) = EndAt(o, n) /\ \A m \in 0..n : EndOf(b, m) = EndAt(o, m)
  BY <1>2, <1>3, <1>4, <1>5, <1>6, <1>7, Zenon
<1>9. QED
  BY <1>8, Zenon DEF n


(* What is between two CRs is one line.                                    *)
LEMMA OneLine ==
  ASSUME NEW b, NEW r, NEW o, NEW U, Waits(b, r, o, U), NEW k \in 1..Whole(b, o)
  PROVE  LineBetween(b, EndAt(o, k - 1), EndAt(o, k)) = U[k]
<1> DEFINE n == Whole(b, o)
           W == b \o r
           from == EndAt(o, k - 1)
           to == EndAt(o, k)
           s == SubSeq(b, from + 1, to - 1)
<1>1. /\ Len(b) \in Nat /\ Len(U) \in Nat /\ o \in {0, 1}
      /\ n \in 0..Len(U) /\ k \in 1..n
      /\ EndAt(o, n) <= Len(b)
      /\ \A i \in 1..Len(b) : b[i] = W[i]
  BY WholeLines
<1>2. /\ b \in Seq(Tokens) /\ U \in Seq(Lines)
      /\ o = 1 => W[1] = "LF"
      /\ \A i \in 1..Len(U) : /\ W[o + 4*i - 3] = U[i][1] /\ W[o + 4*i - 2] = U[i][2]
                              /\ W[o + 4*i - 1] = "CR" /\ W[o + 4*i] = "LF"
  <2>1. b \in Seq(Tokens) /\ Stands(W, o, U)
    BY DEF Waits
  <2> HIDE DEF W
  <2>2. QED
    BY <2>1 DEF Stands
<1> HIDE DEF n, W
<1>3. /\ k \in 1..Len(U) /\ to = o + 4*k - 1 /\ to \in 1..Len(b)
      /\ from = IF k = 1 THEN 0 ELSE o + 4*k - 5
  BY <1>1 DEF EndAt
<1> DEFINE l == U[k]
<1>4. /\ l \in Lines /\ W[to - 2] = l[1] /\ W[to - 1] = l[2]
      /\ k > 1 => W[to - 3] = "LF"
  <2>1. l \in Lines
    BY <1>2, <1>3
  <2>2. to - 2 = o + 4*k - 3 /\ to - 1 = o + 4*k - 2
    BY <1>1, <1>3
  <2>3. ASSUME k > 1 PROVE W[to - 3] = "LF"
    <3>1. k - 1 \in 1..Len(U) /\ to - 3 = o + 4*(k - 1)
      BY <1>1, <1>3, <2>3
    <3>2. QED
      BY <1>2, <3>1
  <2>4. QED
    BY <1>2, <1>3, <2>1, <2>2, <2>3
<1>5. /\ l = <<l[1], l[2]>> /\ l[1] # "LF" /\ l[1] \in Tokens /\ l[2] \in Tokens
  BY <1>4, LineFacts
<1> HIDE DEF from, to, l
<1>6. s \in Seq(Tokens) /\ Len(s) = to - from - 1 /\ \A i \in 1..to - from - 1 : s[i] = b[from + i]
  <2>1. from + 1 \in Int /\ to - 1 \in Int /\ from \in Nat /\ to \in Nat /\ from < to
    BY <1>1, <1>3
  <2>2. \A i \in from + 1..to - 1 : b[i] \in Tokens
    BY <1>1, <1>2, <1>3, <2>1
  <2>3. /\ s \in Seq(Tokens)
        /\ Len(s) = IF from + 1 <= to - 1 THEN to - 1 - (from + 1) + 1 ELSE 0
        /\ \A i \in 1..to - 1 - (from + 1) + 1 : s[i] = b[from + 1 + i - 1]
    BY <2>1, <2>2, SubSeqProperties
  <2> HIDE DEF s
  <2>4. /\ to - 1 - (from + 1) + 1 = to - from - 1
        /\ \A i \in Int : from + 1 + i - 1 = from + i
    BY <2>1
  <2>5. Len(s) = to - from - 1
    BY <2>1, <2>3
  <2>6. ASSUME NEW i \in 1..to - from - 1 PROVE s[i] = b[from + i]
    <3>1. i \in 1..to - 1 - (from + 1) + 1 /\ from + 1 + i - 1 = from + i
      BY <2>1, <2>4
    <3>2. s[i] = b[from + 1 + i - 1]
      BY <2>3, <3>1, Zenon
    <3>3. QED
      BY <3>1, <3>2, Zenon
  <2>7. QED
    BY <2>3, <2>5, <2>6
<1>61. ASSUME to - from \in {3, 4}
       PROVE  s # <<>> /\ Head(s) = s[1] /\ Tail(s) \in Seq(Tokens) /\ Len(Tail(s)) = Len(s) - 1
              /\ \A i \in 1..Len(s) - 1 : Tail(s)[i] = s[i + 1]
  <2>1. from + 1 \in 1..Len(b) /\ to - 1 \in from + 1..Len(b) /\ 1 \in 1..to - from - 1
    BY <1>1, <1>3, <1>61
  <2>2. Head(s) = b[from + 1]
    BY <1>2, <2>1, HeadTailOfSubSeq DEF s
  <2>3. s # <<>>
    BY <1>6, <2>1, EmptySeq
  <2>4. QED
    BY <1>6, <2>1, <2>2, <2>3, HeadTailProperties
<1> HIDE DEF s
<1>7. CASE to - from = 3
  <2>1. Len(s) = 2 /\ s[1] = l[1] /\ s[2] = l[2]
    <3>1. from + 1 = to - 2 /\ from + 2 = to - 1 /\ to - 2 \in 1..Len(b) /\ to - 1 \in 1..Len(b)
      BY <1>1, <1>3, <1>7
    <3>2. QED
      BY <1>1, <1>4, <1>6, <1>7, <3>1
  <2>2. s = l
    <3>1. \A x \in Seq(Tokens) : Len(x) = 2 => x = <<x[1], x[2]>>
      OBVIOUS
    <3>2. s = <<s[1], s[2]>>
      BY <1>6, <2>1, <3>1, Zenon
    <3>3. QED
      BY <1>5, <2>1, <3>2, Zenon
  <2>3. Head(s) = s[1] /\ s # <<>>
    BY <1>61, <1>7
  <2>4. LineBetween(b, from, to) = s
    BY <1>5, <2>1, <2>3 DEF LineBetween, s
  <2>5. QED
    BY <2>2, <2>4 DEF from, to, l
<1>8. CASE to - from = 4
  <2>1. Len(s) = 3 /\ s[1] = "LF" /\ s[2] = l[1] /\ s[3] = l[2]
    <3>1. /\ from + 1 = to - 3 /\ from + 2 = to - 2 /\ from + 3 = to - 1
          /\ to - 3 \in 1..Len(b) /\ to - 2 \in 1..Len(b) /\ to - 1 \in 1..Len(b)
      BY <1>1, <1>3, <1>8
    <3>2. W[to - 3] = "LF"
      <4>1. CASE k = 1
        <5>1. o = 1 /\ to - 3 = 1
          BY <1>1, <1>3, <1>8, <4>1
        <5>2. QED
          BY <1>2, <5>1
      <4>2. CASE k # 1
        BY <1>1, <1>4, <4>2
      <4>3. QED
        BY <4>1, <4>2
    <3>3. QED
      BY <1>1, <1>4, <1>6, <1>8, <3>1, <3>2
  <2>2. Tail(s) = l
    <3>1. \A x \in Seq(Tokens) : Len(x) = 2 => x = <<x[1], x[2]>>
      OBVIOUS
    <3>2. Tail(s) \in Seq(Tokens) /\ Len(Tail(s)) = 2 /\ Tail(s)[1] = l[1] /\ Tail(s)[2] = l[2]
      <4> DEFINE x == Tail(s)
      <4>1. x \in Seq(Tokens) /\ Len(x) = Len(s) - 1 /\ \A i \in 1..Len(s) - 1 : x[i] = s[i + 1]
        BY <1>61, <1>8
      <4> HIDE DEF x
      <4>2. x \in Seq(Tokens) /\ Len(x) = 2 /\ x[1] = l[1] /\ x[2] = l[2]
        BY <2>1, <4>1
      <4>3. QED
        BY <4>2 DEF x
    <3>3. Tail(s) = <<l[1], l[2]>>
      BY <3>1, <3>2, Zenon
    <3>4. QED
      BY <1>5, <3>3, Zenon
  <2>3. Head(s) = s[1] /\ s # <<>>
    BY <1>61, <1>8
  <2>4. LineBetween(b, from, to) = Tail(s)
    BY <2>1, <2>3 DEF LineBetween, s
  <2>5. QED
    BY <2>2, <2>4 DEF from, to, l
<1>9. to - from \in {3, 4}
  BY <1>1, <1>3
<1>10. QED
  BY <1>7, <1>8, <1>9

(* irc_parse is handed the whole lines of the buffer.                      *)
LEMMA LinesOfBuffer ==
  ASSUME NEW b, NEW r, NEW o, NEW U, Waits(b, r, o, U)
  PROVE  LinesIn(b) = [k \in 1..Whole(b, o) |-> U[k]]
<1> DEFINE n == Whole(b, o)
<1>1. /\ n \in Nat /\ Cardinality(CRs(b)) - 1 = n
      /\ \A m \in 0..n : EndOf(b, m) = EndAt(o, m)
  BY WholeLines, EndsOfLines
<1>2. \A k \in 1..n : LineBetween(b, EndAt(o, k - 1), EndAt(o, k)) = U[k]
  BY OneLine
<1> HIDE DEF n
<1>3. ASSUME NEW k \in 1..n PROVE LineBetween(b, EndOf(b, k - 1), EndOf(b, k)) = U[k]
  <2>1. k - 1 \in 0..n /\ k \in 0..n
    BY <1>1
  <2>2. QED
    BY <1>1, <1>2, <2>1
<1>4. LinesIn(b) = [k \in 1..n |-> LineBetween(b, EndOf(b, k - 1), EndOf(b, k))]
  BY <1>1 DEF LinesIn
<1>5. LinesIn(b) = [k \in 1..n |-> U[k]]
  BY <1>3, <1>4
<1>6. QED
  BY <1>5, Zenon DEF n

(* memmove keeps the rest, after the CR of the last whole line.            *)
LEMMA RestOfBuffer ==
  ASSUME NEW b, NEW r, NEW o, NEW U, Waits(b, r, o, U)
  PROVE  /\ Kept(b) \in Seq(Tokens) /\ Len(Kept(b)) <= Len(b)
         /\ Stands(Kept(b) \o r, IF Whole(b, o) = 0 THEN o ELSE 1,
                   SubSeq(U, Whole(b, o) + 1, Len(U)))
<1> DEFINE n == Whole(b, o)
           W == b \o r
           N == Len(b)
           from == EndAt(o, n)
           K == Kept(b)
           X == K \o r
           p == IF n = 0 THEN o ELSE 1
           V == SubSeq(U, n + 1, Len(U))
<1>1. /\ N \in Nat /\ N = Len(b) /\ Len(r) \in Nat /\ Len(U) \in Nat /\ o \in {0, 1}
      /\ N + Len(r) = o + 4 * Len(U)
      /\ n \in 0..Len(U)
      /\ from <= N /\ N < o + 4 * n + 3
      /\ from = IF n = 0 THEN 0 ELSE o + 4*n - 1
  <2>1. /\ N \in Nat /\ Len(r) \in Nat /\ Len(U) \in Nat /\ o \in {0, 1}
        /\ N + Len(r) = o + 4 * Len(U)
        /\ n \in 0..Len(U)
        /\ from <= N /\ N < o + 4 * n + 3
    BY WholeLines
  <2>2. from = IF n = 0 THEN 0 ELSE o + 4*n - 1
    BY DEF EndAt
  <2> HIDE DEF from, n
  <2>3. QED
    BY <2>1, <2>2
<1>15. K = SubSeq(b, from + 1, N)
  <2>1. Max(CRs(b)) = from
    BY EndsOfLines
  <2>2. QED
    BY <2>1, Zenon DEF Kept
<1>2. b \in Seq(Tokens) /\ r \in Seq(Tokens) /\ Stands(W, o, U) /\ Joins(W, b, r)
  BY Joined, Zenon DEF Waits
<1> HIDE DEF W, n, from, K, N
<1>3. /\ W \in Seq(Tokens) /\ U \in Seq(Lines) /\ Len(W) = o + 4 * Len(U)
      /\ o = 1 => W[1] = "LF"
      /\ \A i \in 1..Len(U) : /\ W[o + 4*i - 3] = U[i][1] /\ W[o + 4*i - 2] = U[i][2]
                              /\ W[o + 4*i - 1] = "CR" /\ W[o + 4*i] = "LF"
  BY <1>2 DEF Stands
<1>4. /\ K \in Seq(Tokens) /\ Len(K) = N - from
      /\ \A i \in 1..N - from : K[i] = W[from + i]
  <2>1. from \in Nat /\ from + 1 \in Int /\ N \in Int
    BY <1>1
  <2>2. \A i \in from + 1..N : b[i] \in Tokens
    BY <1>1, <1>2, <2>1
  <2>3. /\ K \in Seq(Tokens)
        /\ Len(K) = IF from + 1 <= N THEN N - (from + 1) + 1 ELSE 0
        /\ \A i \in 1..N - (from + 1) + 1 : K[i] = b[from + 1 + i - 1]
    BY <1>15, <2>1, <2>2, SubSeqProperties
  <2>4. N - (from + 1) + 1 = N - from /\ (\A i \in Int : from + 1 + i - 1 = from + i)
    BY <1>1, <2>1
  <2>5. \A i \in 1..N - from : K[i] = b[from + i] /\ from + i \in 1..N
    BY <1>1, <2>1, <2>3, <2>4
  <2>6. \A i \in 1..N : b[i] = W[i]
    BY <1>1, <1>2 DEF Joins
  <2>7. Len(K) = N - from
    <3>1. from \in Nat /\ N \in Nat /\ from <= N
      BY <1>1, <2>1
    <3>2. CASE from + 1 <= N
      BY <2>3, <3>1, <3>2
    <3>3. CASE ~(from + 1 <= N)
      <4>1. N - from = 0
        BY <3>1, <3>3
      <4>2. QED
        BY <2>3, <3>3, <4>1, Zenon
    <3>4. QED
      BY <3>2, <3>3
  <2>8. QED
    BY <2>3, <2>5, <2>6, <2>7
<1>5. X \in Seq(Tokens) /\ Joins(X, K, r)
  BY <1>2, <1>4, Joined, Zenon
<1> HIDE DEF X
<1>6. /\ Len(X) = o + 4 * Len(U) - from
      /\ \A i \in 1..Len(X) : X[i] = W[from + i]
  <2>1. Len(X) = o + 4 * Len(U) - from
    BY <1>1, <1>4, <1>5 DEF Joins
  <2>2. ASSUME NEW i \in 1..Len(X), i <= N - from PROVE X[i] = W[from + i]
    <3>1. i \in 1..Len(K) /\ i \in 1..N - from
      BY <1>1, <1>4, <2>1, <2>2
    <3>2. QED
      BY <1>4, <1>5, <3>1 DEF Joins
  <2>3. ASSUME NEW i \in 1..Len(X), i > N - from PROVE X[i] = W[from + i]
    <3> DEFINE j == i - (N - from)
    <3>1. j \in 1..Len(r) /\ Len(K) + j = i /\ N + j = from + i
      <4>1. from \in Nat /\ i \in Nat /\ i <= N + Len(r) - from
        BY <1>1, <2>1
      <4>2. N \in Nat /\ Len(r) \in Nat /\ Len(K) = N - from
        BY <1>1, <1>4
      <4>3. QED
        BY <2>3, <4>1, <4>2
    <3> HIDE DEF j
    <3>2. X[Len(K) + j] = r[j]
      BY <1>5, <3>1 DEF Joins
    <3>3. W[N + j] = r[j]
      BY <1>1, <1>2, <3>1 DEF Joins
    <3>4. QED
      BY <3>1, <3>2, <3>3
  <2>4. QED
    BY <1>1, <2>1, <2>2, <2>3
<1>7. /\ V \in Seq(Lines) /\ Len(V) = Len(U) - n
      /\ \A i \in 1..Len(V) : V[i] = U[n + i] /\ n + i \in 1..Len(U)
  <2>1. n + 1 \in Int /\ Len(U) \in Int /\ \A i \in n + 1..Len(U) : U[i] \in Lines
    BY <1>1, <1>3
  <2>2. /\ V \in Seq(Lines)
        /\ Len(V) = IF n + 1 <= Len(U) THEN Len(U) - (n + 1) + 1 ELSE 0
        /\ \A i \in 1..Len(U) - (n + 1) + 1 : V[i] = U[n + 1 + i - 1]
    BY <2>1, SubSeqProperties
  <2> HIDE DEF V
  <2>3. QED
    BY <1>1, <2>2
<1> HIDE DEF V
<1>8. p \in {0, 1} /\ p + 4 * n = o + 4 * n - (o - p) /\ from = o + 4*n - p
  BY <1>1
<1>9. p = 1 => X[1] = "LF"
  <2>1. CASE n = 0
    BY <1>1, <1>3, <1>6, <2>1
  <2>2. CASE n # 0
    <3>1. n \in 1..Len(U) /\ from + 1 = o + 4*n
      BY <1>1, <2>2
    <3>2. W[from + 1] = "LF"
      BY <1>3, <3>1
    <3>3. 1 \in 1..Len(X)
      BY <1>1, <1>6, <3>1
    <3>4. QED
      BY <1>6, <3>2, <3>3
  <2>3. QED
    BY <2>1, <2>2
<1> HIDE DEF p
<1>10. Len(X) = p + 4 * Len(V)
  <2>1. Len(X) = o + 4 * Len(U) - (o + 4*n - p)
    BY <1>6, <1>8
  <2>2. QED
    BY <1>1, <1>7, <1>8, <2>1
<1>11. ASSUME NEW i \in 1..Len(V)
       PROVE  /\ X[p + 4*i - 3] = V[i][1] /\ X[p + 4*i - 2] = V[i][2]
              /\ X[p + 4*i - 1] = "CR" /\ X[p + 4*i] = "LF"
  <2> DEFINE j == n + i
  <2>1. j \in 1..Len(U) /\ V[i] = U[j]
    BY <1>7
  <2>2. /\ from + (p + 4*i - 3) = o + 4*j - 3 /\ from + (p + 4*i - 2) = o + 4*j - 2
        /\ from + (p + 4*i - 1) = o + 4*j - 1 /\ from + (p + 4*i) = o + 4*j
    BY <1>1, <1>8
  <2>3. {p + 4*i - 3, p + 4*i - 2, p + 4*i - 1, p + 4*i} \subseteq 1..Len(X)
    <3>1. Len(V) \in Nat /\ p \in {0, 1} /\ Len(X) = p + 4 * Len(V)
      BY <1>7, <1>8, <1>10
    <3>2. i \in Nat /\ 1 <= i /\ i <= Len(V)
      BY <3>1
    <3>3. QED
      BY <3>1, <3>2
  <2> HIDE DEF j
  <2>4. /\ X[p + 4*i - 3] = W[o + 4*j - 3] /\ X[p + 4*i - 2] = W[o + 4*j - 2]
        /\ X[p + 4*i - 1] = W[o + 4*j - 1] /\ X[p + 4*i] = W[o + 4*j]
    BY <1>6, <2>2, <2>3
  <2>5. QED
    BY <1>3, <2>1, <2>4
<1>12. Stands(X, p, V)
  BY <1>5, <1>7, <1>8, <1>9, <1>10, <1>11 DEF Stands
<1>13. Len(K) <= N
  BY <1>1, <1>4
<1>14. QED
  BY <1>4, <1>12, <1>13, Zenon DEF X, p, V, K, n, N


(* Bytes(U), which is defined line by line                                 *)
LEMMA StandsUnique ==
  ASSUME NEW L, NEW M, NEW o, NEW U, Stands(L, o, U), Stands(M, o, U)
  PROVE  L = M
<1>1. /\ L \in Seq(Tokens) /\ M \in Seq(Tokens) /\ Len(L) = Len(M) /\ Len(U) \in Nat
      /\ o \in {0, 1} /\ Len(L) = o + 4 * Len(U)
  BY DEF Stands
<1>2. ASSUME NEW j \in 1..Len(L) PROVE L[j] = M[j]
  <2> DEFINE m == (j - o + 3) \div 4
  <2>1. \/ o = 1 /\ j = 1
        \/ /\ m \in 1..Len(U)
           /\ \/ j = o + 4*m - 3 \/ j = o + 4*m - 2 \/ j = o + 4*m - 1 \/ j = o + 4*m
    BY <1>1
  <2> HIDE DEF m
  <2>2. QED
    BY <2>1 DEF Stands
<1>3. QED
  BY <1>1, <1>2, SeqEqual

LEMMA StandsExists ==
  ASSUME NEW U \in Seq(Lines)
  PROVE  \E L : Stands(L, 0, U)
<1> DEFINE n == Len(U)
           B == [j \in 1..4*n |-> OnWire(U[(j + 3) \div 4])[j - 4 * ((j + 3) \div 4 - 1)]]
<1>1. n \in Nat /\ n = Len(U)
  OBVIOUS
<1>2. ASSUME NEW j \in 1..4*n PROVE B[j] \in Tokens
  <2> DEFINE m == (j + 3) \div 4
             w == OnWire(U[m])
  <2>1. m \in 1..n /\ j - 4 * (m - 1) \in 1..4
    BY <1>1
  <2>2. B[j] = w[j - 4 * (m - 1)]
    OBVIOUS
  <2> HIDE DEF m, B, n
  <2>3. U[m] \in Lines
    BY <1>1, <2>1
  <2>4. w \in Seq(Tokens) /\ Len(w) = 4
    BY <2>3, LineFacts
  <2> HIDE DEF w
  <2>5. \A x \in 1..4 : w[x] \in Tokens
    BY <2>4, ElementOfSeq
  <2>6. QED
    BY <2>1, <2>2, <2>5
<1>3. B \in [1..4*n -> Tokens] /\ 4*n \in Nat
  BY <1>1, <1>2
<1>4. ASSUME NEW i \in 1..n
      PROVE  /\ B[0 + 4*i - 3] = U[i][1] /\ B[0 + 4*i - 2] = U[i][2]
             /\ B[0 + 4*i - 1] = "CR" /\ B[0 + 4*i] = "LF"
  <2>1. U[i] \in Lines
    BY <1>1
  <2>2. /\ OnWire(U[i])[1] = U[i][1] /\ OnWire(U[i])[2] = U[i][2]
        /\ OnWire(U[i])[3] = "CR" /\ OnWire(U[i])[4] = "LF"
    BY <2>1, LineFacts
  <2>3. \A d \in 0..3 : 4*i - d \in 1..4*n /\ (4*i - d + 3) \div 4 = i /\ 4*i - d - 4 * (i - 1) = 4 - d
    BY <1>1
  <2>4. \A j \in 1..4*n : B[j] = OnWire(U[(j + 3) \div 4])[j - 4 * ((j + 3) \div 4 - 1)]
    OBVIOUS
  <2> HIDE DEF B, n
  <2>5. \A d \in 0..3 : B[4*i - d] = OnWire(U[i])[4 - d]
    BY <2>3, <2>4
  <2>6. 0 + 4*i - 3 = 4*i - 3 /\ 0 + 4*i - 2 = 4*i - 2 /\ 0 + 4*i - 1 = 4*i - 1 /\ 0 + 4*i = 4*i - 0
        /\ 4 - 3 = 1 /\ 4 - 2 = 2 /\ 4 - 1 = 3 /\ 4 - 0 = 4
    BY <1>1
  <2>7. B[4*i - 3] = OnWire(U[i])[4 - 3] /\ B[4*i - 2] = OnWire(U[i])[4 - 2]
        /\ B[4*i - 1] = OnWire(U[i])[4 - 1] /\ B[4*i - 0] = OnWire(U[i])[4 - 0]
    BY <2>5
  <2>8. QED
    BY <2>2, <2>6, <2>7, Zenon
<1> HIDE DEF B, n
<1>5. B \in Seq(Tokens) /\ Len(B) = 4*n
  BY <1>3, LengthOfSeq
<1>6. Stands(B, 0, U)
  <2>1. Len(B) = 0 + 4 * Len(U)
    BY <1>1, <1>5
  <2>2. QED
    BY <1>1, <1>4, <1>5, <2>1 DEF Stands, n
<1>7. QED
  BY <1>6

LEMMA BytesStand ==
  ASSUME NEW U \in Seq(Lines)
  PROVE  Stands(Bytes(U), 0, U)
<1> DEFINE n == Len(U)
           F == [i \in 1..n |-> OnWire(U[i])]
<1>1. n \in Nat /\ n = Len(U) /\ DOMAIN U = 1..n
  BY LenProperties
<1>2. Bytes(U) = FlattenSeq(F)
  BY <1>1, Zenon DEF Bytes
<1>3. Len(F) = n /\ \A i \in 1..n : F[i] = OnWire(U[i])
  <2>1. \A i \in 1..n : U[i] \in Lines
    OBVIOUS
  <2>2. F \in [1..n -> Seq(Tokens)]
    BY <2>1, LineFacts
  <2> HIDE DEF n
  <2>3. Len(F) = n
    <3> HIDE DEF F
    <3>1. QED
      BY <1>1, <2>2, LengthOfSeq, Zenon
  <2>4. QED
    BY <2>3
<1>4. CASE n = 0
  <2>1. F = <<>>
    BY <1>4
  <2>2. Bytes(U) = <<>>
    BY <1>2, <1>3, <1>4, <2>1, Zenon DEF FlattenSeq
  <2>3. Stands(<<>>, 0, U)
    BY <1>1, <1>4 DEF Stands
  <2>4. QED
    BY <2>2, <2>3
<1>5. CASE n # 0
  <2> DEFINE Step(at) == [i \in 1..n |-> IF i = 1 THEN F[i] ELSE at[i - 1] \o F[i]]
             flatten == CHOOSE at : at = Step(at)
             Some(i) == CHOOSE L : Stands(L, 0, SubSeq(U, 1, i))
             w == [i \in 1..n |-> Some(i)]
             Upto(i) == SubSeq(U, 1, i)
  <2>1. Bytes(U) = flatten[n]
    <3> HIDE DEF F, n
    <3>1. Len(F) # 0
      BY <1>3, <1>5
    <3>2. QED
      BY <1>2, <1>3, <3>1, Zenon DEF FlattenSeq
  <2> HIDE DEF F, n
  <2>2. ASSUME NEW i \in 0..n PROVE Upto(i) \in Seq(Lines) /\ Len(Upto(i)) = i
    <3>1. \A j \in 1..i : U[j] \in Lines
      BY <1>1
    <3>2. QED
      BY <1>1, <3>1, SubSeqProperties
  <2>3. ASSUME NEW i \in 1..n PROVE U[i] \in Lines /\ Upto(i) = Append(Upto(i - 1), U[i])
    <3>1. U[i] \in Lines /\ i - 1 \in 0..n /\ i \in 0..n
      BY <1>1
    <3>2. i \in 1..Len(U) /\ i - 1 \in 0..Len(U) /\ 1 \in 1..Len(U) /\ i \in 1..Len(U)
      BY <1>1
    <3>3. Upto(i) = Upto(i - 1) \o <<U[i]>>
      BY <3>2, SubSeqRecursiveSecond
    <3>4. \A s \in Seq(Lines), e \in Lines : Append(s, e) = s \o <<e>>
      BY AppendIsConcat
    <3>5. QED
      BY <2>2, <3>1, <3>3, <3>4
  <2> HIDE DEF Upto
  <2>4. Upto(0) = <<>> /\ Upto(n) = U
    BY <1>1, SubSeqEmpty, SubSeqFull DEF Upto
  <2>5. Stands(<<>>, 0, <<>>)
    BY DEF Stands
  <2>6. ASSUME NEW i \in 1..n, NEW L, Stands(L, 0, Upto(i - 1)) PROVE Stands(L \o F[i], 0, Upto(i))
    BY <1>3, <2>3, <2>6, StandsAppend
  <2>7. ASSUME 1 \in 1..n PROVE Stands(F[1], 0, Upto(1))
    <3>1. U[1] \in Lines /\ F[1] = OnWire(U[1]) /\ Upto(1) = Append(<<>>, U[1])
      <4>1. U[1] \in Lines /\ F[1] = OnWire(U[1]) /\ Upto(1) = Append(Upto(1 - 1), U[1])
        BY <1>3, <2>3, <2>7
      <4>2. 1 - 1 = 0
        OBVIOUS
      <4>3. QED
        BY <2>4, <4>1, <4>2, Zenon
    <3>2. Stands(<<>> \o F[1], 0, Upto(1))
      BY <2>5, <3>1, StandsAppend
    <3>3. <<>> \o F[1] = F[1]
      BY <3>1, LineFacts, ConcatEmptySeq
    <3>4. QED
      BY <3>2, <3>3
  <2>8. ASSUME NEW i \in 1..n PROVE Stands(w[i], 0, Upto(i))
    <3>1. i \in 0..n
      OBVIOUS
    <3>2. \E L : Stands(L, 0, Upto(i))
      BY <2>2, <3>1, StandsExists
    <3>3. w[i] = CHOOSE L : Stands(L, 0, Upto(i))
      BY DEF Upto, Some
    <3> HIDE DEF w
    <3>4. QED
      BY <3>2, <3>3
  <2>9. w = Step(w)
    <3>1. ASSUME NEW i \in 1..n PROVE w[i] = IF i = 1 THEN F[i] ELSE w[i - 1] \o F[i]
      <4> HIDE DEF w
      <4>1. CASE i = 1
        BY <2>7, <2>8, <4>1, StandsUnique
      <4>2. CASE i # 1
        <5>1. i - 1 \in 1..n
          BY <1>1, <4>2
        <5>2. Stands(w[i - 1] \o F[i], 0, Upto(i))
          BY <2>6, <2>8, <5>1
        <5>3. w[i] = w[i - 1] \o F[i]
          BY <2>8, <5>2, StandsUnique
        <5>4. QED
          BY <4>2, <5>3
      <4>3. QED
        BY <4>1, <4>2
    <3> HIDE DEF Some
    <3>2. w = [i \in 1..n |-> Some(i)] /\ \A i \in 1..n : w[i] = Some(i)
      OBVIOUS
    <3> HIDE DEF w
    <3>3. QED
      BY <3>1, <3>2
  <2> HIDE DEF w
  <2>10. flatten = Step(flatten)
    <3> HIDE DEF Step
    <3>1. QED
      BY <2>9, Zenon
  <2> HIDE DEF flatten
  <2> DEFINE S == {i \in 0..n : i = 0 \/ Stands(flatten[i], 0, Upto(i))}
  <2>11. 0 \in S
    BY <1>1
  <2>12. \A i \in 1..n : flatten[i] = IF i = 1 THEN F[i] ELSE flatten[i - 1] \o F[i]
    BY <2>10
  <2>13. ASSUME NEW i \in 0..n, i \in S, i < n PROVE i + 1 \in S
    <3>1. i + 1 \in 1..n /\ i + 1 \in 0..n /\ (i + 1) - 1 = i
      BY <1>1, <2>13
    <3>2. CASE i = 0
      <4>1. flatten[1] = F[1] /\ Stands(F[1], 0, Upto(1))
        BY <2>7, <2>12, <3>1, <3>2
      <4>2. QED
        BY <3>1, <3>2, <4>1
    <3>3. CASE i # 0
      <4>1. Stands(flatten[i], 0, Upto(i))
        BY <2>13, <3>3
      <4>2. flatten[i + 1] = flatten[i] \o F[i + 1]
        <5>1. i + 1 # 1
          BY <3>3
        <5>2. QED
          BY <2>12, <3>1, <5>1
      <4>3. Stands(flatten[i] \o F[i + 1], 0, Upto(i + 1))
        BY <2>6, <3>1, <4>1
      <4>4. QED
        BY <3>1, <4>2, <4>3
    <3>4. QED
      BY <3>2, <3>3
  <2> HIDE DEF S
  <2>14. \A i \in 0..n : i \in S
    BY <1>1, <2>11, <2>13, Steps
  <2>15. n \in S /\ n # 0
    BY <1>1, <1>5, <2>14
  <2>16. Stands(flatten[n], 0, Upto(n))
    BY <2>15 DEF S
  <2>17. QED
    BY <2>1, <2>4, <2>16
<1>6. QED
  BY <1>4, <1>5

(* What the property says of the bytes                                     *)
LEMMA StandsAsBytes ==
  ASSUME NEW L, NEW o, NEW U, Stands(L, o, U)
  PROVE  L \in {Bytes(U), <<"LF">> \o Bytes(U)}
<1> DEFINE B == Bytes(U)
           C == <<"LF">> \o B
<1>1. U \in Seq(Lines) /\ o \in {0, 1}
  BY DEF Stands
<1>2. Stands(B, 0, U)
  BY <1>1, BytesStand
<1> HIDE DEF B
<1>3. CASE o = 0
  BY <1>2, <1>3, StandsUnique DEF B
<1>4. CASE o = 1
  <2>1. B \in Seq(Tokens) /\ Len(B) = 0 + 4 * Len(U) /\ Len(U) \in Nat
        /\ \A i \in 1..Len(U) : /\ B[0 + 4*i - 3] = U[i][1] /\ B[0 + 4*i - 2] = U[i][2]
                                /\ B[0 + 4*i - 1] = "CR" /\ B[0 + 4*i] = "LF"
    BY <1>1, <1>2 DEF Stands
  <2>2. <<"LF">> \in Seq(Tokens) /\ Len(<<"LF">>) = 1 /\ <<"LF">>[1] = "LF"
    BY DEF Tokens
  <2>3. C \in Seq(Tokens) /\ Joins(C, <<"LF">>, B)
    BY <2>1, <2>2, Joined, Zenon
  <2> HIDE DEF C
  <2>4. Len(C) = 1 + 4 * Len(U) /\ C[1] = "LF" /\ \A i \in 1..4 * Len(U) : C[1 + i] = B[i]
    BY <2>1, <2>2, <2>3 DEF Joins
  <2>5. ASSUME NEW i \in 1..Len(U)
        PROVE  /\ C[1 + 4*i - 3] = U[i][1] /\ C[1 + 4*i - 2] = U[i][2]
               /\ C[1 + 4*i - 1] = "CR" /\ C[1 + 4*i] = "LF"
    <3>1. /\ 1 + 4*i - 3 = 1 + (4*i - 3) /\ 1 + 4*i - 2 = 1 + (4*i - 2)
          /\ 1 + 4*i - 1 = 1 + (4*i - 1)
          /\ 0 + 4*i - 3 = 4*i - 3 /\ 0 + 4*i - 2 = 4*i - 2
          /\ 0 + 4*i - 1 = 4*i - 1 /\ 0 + 4*i = 4*i
          /\ {4*i - 3, 4*i - 2, 4*i - 1, 4*i} \subseteq 1..4 * Len(U)
      BY <2>1
    <3>2. C[1 + (4*i - 3)] = B[4*i - 3] /\ C[1 + (4*i - 2)] = B[4*i - 2]
          /\ C[1 + (4*i - 1)] = B[4*i - 1] /\ C[1 + 4*i] = B[4*i]
      BY <2>4, <3>1
    <3>3. QED
      BY <2>1, <3>1, <3>2
  <2>6. Stands(C, 1, U)
    BY <1>1, <2>1, <2>3, <2>4, <2>5 DEF Stands
  <2>7. L = C
    BY <1>4, <2>6, StandsUnique
  <2>8. QED
    BY <2>7, Zenon DEF C, B
<1>5. QED
  BY <1>1, <1>3, <1>4

-----------------------------------------------------------------------------
(* What waits is what was sent and not parsed, and the buffer holds it.    *)
WireInv ==
  /\ ~garbled
  /\ buffer \in Seq(Tokens) /\ stream \in Seq(Tokens)
  /\ Len(buffer) <= BufferSize
  /\ \E o : Stands(buffer \o stream, o, unread)

LEMMA WireShows == WireInv => LinesIntact
BY StandsAsBytes DEF WireInv, LinesIntact

LEMMA WireInit == MainInit => WireInv
<1>1. \A S : <<>> \in Seq(S)
  OBVIOUS
<1>2. Stands(<<>>, 0, <<>>)
  BY DEF Stands
<1>3. <<>> \o <<>> = <<>>
  BY <1>1, ConcatEmptySeq
<1>4. ASSUME MainInit PROVE buffer = <<>> /\ stream = <<>> /\ unread = <<>> /\ ~garbled
  BY <1>4 DEF MainInit, ConnectionInit
<1>5. Len(<<>>) <= BufferSize
  BY ConnectionAssumption
<1>6. QED
  BY <1>1, <1>2, <1>3, <1>4, <1>5, Zenon DEF WireInv

LEMMA SendsWire ==
  ASSUME WireInv, NEW l \in Lines, Sends(l)
  PROVE  WireInv'
<1>1. PICK o : Stands(buffer \o stream, o, unread)
  BY DEF WireInv
<1>2. /\ buffer \in Seq(Tokens) /\ stream \in Seq(Tokens) /\ OnWire(l) \in Seq(Tokens)
      /\ stream' = stream \o OnWire(l) /\ unread' = Append(unread, l)
      /\ buffer' = buffer /\ garbled' = garbled
  BY LineFacts DEF WireInv, Sends
<1>3. Stands((buffer \o stream) \o OnWire(l), o, unread')
  BY <1>1, <1>2, StandsAppend
<1>4. (buffer \o stream) \o OnWire(l) = buffer' \o stream'
  BY <1>2, ConcatAssociative
<1>5. stream' \in Seq(Tokens)
  BY <1>2, Joined
<1>6. Stands(buffer' \o stream', o, unread')
  BY <1>3, <1>4, Zenon
<1>7. ~garbled' /\ buffer' \in Seq(Tokens) /\ Len(buffer') <= BufferSize
  BY <1>2 DEF WireInv
<1>8. QED
  BY <1>5, <1>6, <1>7 DEF WireInv

LEMMA ReadLimit ==
  ASSUME WireInv, NEW k \in MayRead
  PROVE  k \in 1..Len(stream) /\ Len(buffer) + k <= BufferSize
<1> DEFINE a == BufferSize - Len(buffer)
           c == Len(stream)
           S == {a, c}
<1>1. /\ a \in Nat /\ c \in Nat
      /\ BufferSize \in Nat /\ Len(buffer) \in Nat
  BY ConnectionAssumption DEF WireInv
<1> HIDE DEF c
<1>2. Min(S) \in S /\ Min(S) <= a /\ Min(S) <= c
  <2> HIDE DEF a
  <2>1. \E x \in S : \A y \in S : x <= y
    <3>1. a <= c \/ c <= a
      BY <1>1
    <3>2. QED
      BY <1>1, <3>1
  <2>2. Min(S) \in S /\ \A y \in S : Min(S) <= y
    <3> HIDE DEF S
    <3>1. QED
      BY <2>1, Zenon DEF Min
  <2>3. QED
    BY <2>2
<1> DEFINE most == Min(S)
<1>3. k \in IF "fragments" \in features THEN 1..most ELSE {most} \ {0}
  BY DEF MayRead, c
<1>4. most \in Nat /\ most <= a /\ most <= c
  BY <1>1, <1>2
<1> HIDE DEF most
<1>5. k \in 1..most
  BY <1>3, <1>4
<1>6. k \in 1..c /\ Len(buffer) + k <= BufferSize
  BY <1>1, <1>4, <1>5
<1>7. QED
  BY <1>6 DEF c

(* irc_parse is handed what was sent, and no more.                         *)
LEMMA ReadsLines ==
  ASSUME WireInv, NEW k \in MayRead, Reads(k)
  PROVE  \E n \in 0..Len(unread) :
           /\ LinesIn(buffer \o SubSeq(stream, 1, k)) = SubSeq(unread, 1, n)
           /\ unread' = SubSeq(unread, n + 1, Len(unread))
           /\ WireInv'
<1>1. PICK o : Stands(buffer \o stream, o, unread)
  BY DEF WireInv
<1>2. k \in 1..Len(stream) /\ Len(buffer) + k <= BufferSize
  BY ReadLimit
<1> DEFINE h == SubSeq(stream, 1, k)
           r == SubSeq(stream, k + 1, Len(stream))
           b == buffer \o h
           n == Whole(b, o)
<1>3. /\ buffer \in Seq(Tokens) /\ stream \in Seq(Tokens) /\ Len(stream) \in Nat
      /\ Len(buffer) \in Nat /\ unread \in Seq(Lines)
  BY <1>1 DEF WireInv, Stands
<1>4. /\ h \in Seq(Tokens) /\ Len(h) = k /\ r \in Seq(Tokens)
  <2>1. (\A i \in 1..k : stream[i] \in Tokens) /\ (\A i \in k + 1..Len(stream) : stream[i] \in Tokens)
        /\ k \in Int /\ k + 1 \in Int /\ 1 <= k /\ k - 1 + 1 = k
    BY <1>2, <1>3
  <2>2. h \in Seq(Tokens) /\ Len(h) = IF 1 <= k THEN k - 1 + 1 ELSE 0
    BY <2>1, SubSeqProperties
  <2>3. r \in Seq(Tokens)
    BY <1>3, <2>1, SubSeqProperties
  <2> HIDE DEF h, r
  <2>4. QED
    BY <2>1, <2>2, <2>3
<1>5. b \o r = buffer \o stream
  <2>1. h \o r = stream
    <3>1. 1 \in 1..Len(stream) + 1 /\ k \in 1 - 1..Len(stream) /\ Len(stream) \in k..Len(stream)
      BY <1>2, <1>3
    <3>2. h \o r = SubSeq(stream, 1, Len(stream))
      BY <1>3, <3>1, ConcatAdjacentSubSeq
    <3>3. QED
      BY <1>3, <3>2, SubSeqFull
  <2> HIDE DEF h, r
  <2>2. (buffer \o h) \o r = buffer \o (h \o r)
    <3>1. \A x, y, z \in Seq(Tokens) : (x \o y) \o z = x \o (y \o z)
      BY ConcatAssociative
    <3>2. QED
      BY <1>3, <1>4, <3>1, Zenon
  <2>3. QED
    BY <2>1, <2>2
<1>6. b \in Seq(Tokens) /\ Len(b) = Len(buffer) + k
  <2> HIDE DEF h
  <2>1. b \in Seq(Tokens) /\ Joins(b, buffer, h)
    BY <1>3, <1>4, Joined, Zenon
  <2>2. QED
    BY <1>4, <2>1 DEF Joins
<1>7. Waits(b, r, o, unread)
  BY <1>1, <1>4, <1>5, <1>6, Zenon DEF Waits
<1>8. /\ stream' = r /\ buffer' = Kept(b)
      /\ unread' = SubSeq(unread, Min({Len(LinesIn(b)), Len(unread)}) + 1, Len(unread))
      /\ garbled' = (garbled \/ LinesIn(b) # SubSeq(unread, 1, Len(LinesIn(b))))
  BY DEF Reads
<1> HIDE DEF b, r, h
<1>9. n \in 0..Len(unread) /\ Len(unread) \in Nat
  BY <1>7, WholeLines
<1>10. LinesIn(b) = [i \in 1..n |-> unread[i]]
  BY <1>7, LinesOfBuffer
<1>11. /\ Kept(b) \in Seq(Tokens) /\ Len(Kept(b)) <= Len(b)
       /\ Stands(Kept(b) \o r, IF n = 0 THEN o ELSE 1, SubSeq(unread, n + 1, Len(unread)))
  BY <1>7, RestOfBuffer
<1> HIDE DEF n
<1>12. LinesIn(b) = SubSeq(unread, 1, n) /\ Len(LinesIn(b)) = n
  <2> DEFINE s == [i \in 1..n |-> unread[i]]
             t == SubSeq(unread, 1, n)
  <2>1. \A i \in 1..n : unread[i] \in Lines
    BY <1>3, <1>9
  <2>2. s \in [1..n -> Lines] /\ n \in Nat
    BY <1>9, <2>1
  <2>3. \A i \in 1..n : s[i] = unread[i]
    OBVIOUS
  <2>4. /\ t \in Seq(Lines) /\ Len(t) = IF 1 <= n THEN n - 1 + 1 ELSE 0
        /\ \A i \in 1..n - 1 + 1 : t[i] = unread[1 + i - 1]
    BY <2>1, <2>2, SubSeqProperties
  <2> HIDE DEF s, t
  <2>5. s \in Seq(Lines) /\ Len(s) = n
    BY <2>2, LengthOfSeq
  <2>6. Len(t) = n /\ \A i \in 1..n : t[i] = unread[i]
    <3>1. Len(t) = n
      BY <2>2, <2>4
    <3>2. ASSUME NEW i \in 1..n PROVE t[i] = unread[i]
      <4>1. i \in 1..n - 1 + 1 /\ 1 + i - 1 = i
        BY <2>2
      <4>2. QED
        BY <2>4, <4>1
    <3>3. QED
      BY <3>1, <3>2
  <2>7. s = t
    BY <2>3, <2>4, <2>5, <2>6, SeqEqual
  <2>8. QED
    BY <1>10, <2>5, <2>7, Zenon DEF s, t
<1>13. Min({n, Len(unread)}) = n
  <2> DEFINE S == {n, Len(unread)}
  <2>1. n \in S /\ (\A y \in S : n <= y) /\ \A x \in S : (\A y \in S : x <= y) => x = n
    BY <1>9
  <2> HIDE DEF S
  <2>2. (CHOOSE x \in S : \A y \in S : x <= y) = n
    BY <2>1
  <2>3. QED
    BY <2>2, Zenon DEF Min, S
<1>14. unread' = SubSeq(unread, n + 1, Len(unread))
  BY <1>8, <1>12, <1>13, Zenon
<1>15. ~garbled'
  BY <1>8, <1>12, Zenon DEF WireInv
<1>16. Len(buffer') <= BufferSize
  <2>1. Len(Kept(b)) \in Nat /\ Len(b) \in Nat /\ BufferSize \in Nat
    BY <1>6, <1>11, ConnectionAssumption
  <2>2. QED
    BY <1>2, <1>3, <1>6, <1>8, <1>11, <2>1
<1>17. \E p : Stands(buffer' \o stream', p, unread')
  BY <1>8, <1>11, <1>14, Zenon
<1>18. buffer' \in Seq(Tokens) /\ stream' \in Seq(Tokens)
  BY <1>4, <1>8, <1>11, Zenon
<1>19. WireInv'
  BY <1>15, <1>16, <1>17, <1>18 DEF WireInv
<1>20. QED
  BY <1>9, <1>12, <1>14, <1>19, Zenon DEF b, h

LEMMA WireKept ==
  ASSUME WireInv, UNCHANGED <<stream, buffer, unread, garbled>>
  PROVE  WireInv'
BY DEF WireInv

LEMMA WireStep ==
  ASSUME WireInv, [MainNext]_mainvars
  PROVE  WireInv'
<1>1. CASE Startup
  BY <1>1, WireKept DEF Startup, Connects, ConnectFails, Ends, connvars, wirevars
<1>2. CASE TimersTurn \/ Handlers \/ Clock \/ UNCHANGED mainvars
  BY <1>2, WireKept DEF TimersTurn, Handlers, Clock, mainvars, connvars, wirevars
<1>3. CASE BufferTurn
  <2>1. CASE \E k \in MayRead : Reads(k)
    BY <2>1, ReadsLines
  <2>2. CASE Ends \/ NothingRead
    BY <2>2, WireKept DEF Ends, NothingRead, connvars, wirevars
  <2>3. QED
    BY <1>3, <2>1, <2>2 DEF BufferTurn, CheckBuffer
<1>4. CASE Network
  <2>1. CASE SlineStep \/ LocalStep \/ Sigpipe \/ DaemonCloses
    BY <2>1, WireKept DEF SlineStep, LocalStep, Sigpipe, Ends, DaemonCloses, wirevars
  <2>2. CASE DaemonSends \/ \E u \in Locals : DaemonKills(u)
    <3>1. PICK l \in Lines : Sends(l)
      BY <2>2 DEF DaemonSends, DaemonKills, Lines
    <3>2. QED
      BY <3>1, SendsWire
  <2>3. QED
    BY <1>4, <2>1, <2>2 DEF Network, DaemonStep
<1>5. QED
  BY <1>1, <1>2, <1>3, <1>4 DEF MainNext

(* ircdio.c: irc_parse is handed the lines of the daemon, each once, whole *)
(* and in order, wherever a read of the socket cuts them, for any size of  *)
(* the buffer that is not smaller than what is read into it.               *)
THEOREM LinesAlwaysIntact == MainSpec => []LinesIntact
<1>1. WireInv /\ [MainNext]_mainvars => WireInv'
  BY WireStep
<1>2. QED
  BY <1>1, WireInit, WireShows, PTL DEF MainSpec

-----------------------------------------------------------------------------
(* Folds over a set, which take its elements one by one                    *)
Some(s) == CHOOSE x \in s : TRUE

FoldOf(it, D, base, H) ==
  it = [s \in SUBSET D |-> IF s = {} THEN base ELSE H[<<Some(s), it[s \ {Some(s)}]>>]]

LEMMA FirstFacts ==
  ASSUME NEW D, IsFiniteSet(D), NEW s \in SUBSET D, s # {}
  PROVE  /\ Some(s) \in s /\ Some(s) \in D
         /\ s \ {Some(s)} \in SUBSET D
         /\ IsFiniteSet(s) /\ Cardinality(s) \in Nat
         /\ Cardinality(s \ {Some(s)}) = Cardinality(s) - 1
<1>1. Some(s) \in s
  BY DEF Some
<1>2. IsFiniteSet(s) /\ Cardinality(s) \in Nat
  BY FS_Subset, FS_CardinalityType
<1>3. QED
  BY <1>1, <1>2, FS_RemoveElement

LEMMA SetSteps ==
  ASSUME NEW D, IsFiniteSet(D), NEW S, {} \in S,
         \A s \in SUBSET D : s # {} /\ s \ {Some(s)} \in S => s \in S
  PROVE  \A s \in SUBSET D : s \in S
<1> DEFINE n == Cardinality(D)
           N == {k \in 0..n : \A s \in SUBSET D : Cardinality(s) = k => s \in S}
<1>1. n \in Nat /\ \A s \in SUBSET D : IsFiniteSet(s) /\ Cardinality(s) \in 0..n
  BY FS_Subset, FS_CardinalityType
<1> HIDE DEF n
<1>2. 0 \in N
  BY <1>1, FS_EmptySet
<1>3. \A k \in 0..n : k \in N /\ k < n => k + 1 \in N
  <2>1. SUFFICES ASSUME NEW k \in 0..n, k \in N, k < n,
                        NEW s \in SUBSET D, Cardinality(s) = k + 1
                 PROVE  s \in S
    BY <1>1
  <2>2. s # {}
    BY <1>1, <2>1, FS_EmptySet
  <2>3. Cardinality(s \ {Some(s)}) = k /\ s \ {Some(s)} \in SUBSET D
    BY <2>1, <2>2, FirstFacts
  <2>4. s \ {Some(s)} \in S
    BY <2>1, <2>3
  <2>5. QED
    BY <2>2, <2>4
<1> HIDE DEF N
<1>4. \A k \in 0..n : k \in N
  BY <1>1, <1>2, <1>3, Steps
<1>5. QED
  BY <1>1, <1>4 DEF N

LEMMA FoldExists ==
  ASSUME NEW D, IsFiniteSet(D), NEW base, NEW H
  PROVE  \E it : FoldOf(it, D, base, H)
<1> DEFINE n == Cardinality(D)
           Small(k) == {s \in SUBSET D : Cardinality(s) <= k}
           Eq(it, s) == it[s] = IF s = {} THEN base ELSE H[<<Some(s), it[s \ {Some(s)}]>>]
           N == {k \in 0..n : \E it : \A s \in Small(k) : Eq(it, s)}
<1>1. n \in Nat /\ \A s \in SUBSET D : IsFiniteSet(s) /\ Cardinality(s) \in 0..n
  BY FS_Subset, FS_CardinalityType
<1> HIDE DEF n
<1>2. 0 \in N
  <2> DEFINE w == [s \in SUBSET D |-> base]
  <2>1. ASSUME NEW s \in Small(0) PROVE Eq(w, s)
    BY <1>1, FS_EmptySet
  <2> HIDE DEF w
  <2>2. \E it : \A s \in Small(0) : Eq(it, s)
    <3> HIDE DEF Eq, Small
    <3>1. QED
      BY <2>1, Zenon
  <2> HIDE DEF Eq, Small
  <2>3. QED
    BY <1>1, <2>2
<1>3. \A k \in 0..n : k \in N /\ k < n => k + 1 \in N
  <2>1. SUFFICES ASSUME NEW k \in 0..n, k \in N, k < n PROVE k + 1 \in N
    OBVIOUS
  <2>2. PICK it : \A s \in Small(k) : Eq(it, s)
    BY <2>1
  <2> DEFINE w == [s \in SUBSET D |-> IF s = {} THEN base ELSE H[<<Some(s), it[s \ {Some(s)}]>>]]
  <2>3. ASSUME NEW s \in Small(k) PROVE w[s] = it[s]
    BY <2>2
  <2>4. ASSUME NEW s \in Small(k + 1) PROVE Eq(w, s)
    <3>1. CASE s = {}
      BY <3>1
    <3>2. CASE s # {}
      <4> DEFINE t == s \ {Some(s)}
      <4>1. t \in SUBSET D /\ Cardinality(t) = Cardinality(s) - 1 /\ Cardinality(s) \in Nat
        BY <3>2, FirstFacts
      <4>2. t \in Small(k)
        BY <2>4, <4>1
      <4>3. w[t] = it[t]
        BY <2>3, <4>2
      <4>4. w[s] = H[<<Some(s), it[t]>>]
        BY <3>2
      <4> HIDE DEF w, t
      <4>5. w[s] = H[<<Some(s), w[t]>>]
        BY <4>3, <4>4
      <4>6. QED
        BY <3>2, <4>5 DEF t
    <3>3. QED
      BY <3>1, <3>2
  <2> HIDE DEF w
  <2>5. \E g : \A s \in Small(k + 1) : Eq(g, s)
    <3> HIDE DEF Eq, Small
    <3>1. QED
      BY <2>4, Zenon
  <2>6. k + 1 \in 0..n
    BY <1>1, <2>1
  <2>7. QED
    BY <2>5, <2>6
<1> HIDE DEF N
<1>4. \A k \in 0..n : k \in N
  BY <1>1, <1>2, <1>3, Steps
<1>5. n \in N
  BY <1>1, <1>4
<1>6. PICK it : \A s \in Small(n) : Eq(it, s)
  BY <1>5 DEF N
<1> DEFINE w == [s \in SUBSET D |-> it[s]]
<1>7. ASSUME NEW s \in SUBSET D
      PROVE  w[s] = IF s = {} THEN base ELSE H[<<Some(s), w[s \ {Some(s)}]>>]
  <2>1. s \in Small(n)
    BY <1>1
  <2>2. it[s] = IF s = {} THEN base ELSE H[<<Some(s), it[s \ {Some(s)}]>>]
    BY <1>6, <2>1
  <2>3. s \ {Some(s)} \in SUBSET D
    OBVIOUS
  <2>4. w[s] = it[s] /\ w[s \ {Some(s)}] = it[s \ {Some(s)}]
    BY <2>3
  <2> HIDE DEF w
  <2>5. QED
    BY <2>2, <2>4, Zenon
<1>8. w = [s \in SUBSET D |-> w[s]]
  OBVIOUS
<1> HIDE DEF w
<1>9. w = [s \in SUBSET D |-> IF s = {} THEN base ELSE H[<<Some(s), w[s \ {Some(s)}]>>]]
  BY <1>7, <1>8
<1>10. QED
  BY <1>9, Zenon DEF FoldOf

-----------------------------------------------------------------------------
(* The chains of a bucket                                                  *)
Unique(s) == \A i, j \in 1..Len(s) : s[i] = s[j] => i = j

(* s without its element i                                                 *)
Without(t, s, i) ==
  /\ Len(t) = Len(s) - 1
  /\ \A j \in 1..Len(t) : t[j] = IF j < i THEN s[j] ELSE s[j + 1]

LEMMA RemovedAt ==
  ASSUME NEW A, NEW s \in Seq(A), NEW i \in 1..Len(s)
  PROVE  RemoveAt(s, i) \in Seq(A) /\ Without(RemoveAt(s, i), s, i)
<1> DEFINE a == SubSeq(s, 1, i - 1)
           b == SubSeq(s, i + 1, Len(s))
           t == a \o b
<1>1. Len(s) \in Nat /\ i \in Nat /\ 1 <= i /\ i <= Len(s) /\ \A j \in 1..Len(s) : s[j] \in A
  OBVIOUS
<1>2. /\ a \in Seq(A) /\ Len(a) = i - 1 /\ \A j \in 1..i - 1 : a[j] = s[j]
  <2>1. 1 \in Int /\ i - 1 \in Int /\ \A j \in 1..i - 1 : s[j] \in A
    BY <1>1
  <2>2. /\ a \in Seq(A) /\ Len(a) = IF 1 <= i - 1 THEN i - 1 - 1 + 1 ELSE 0
        /\ \A j \in 1..i - 1 - 1 + 1 : a[j] = s[1 + j - 1]
    BY <2>1, SubSeqProperties
  <2> HIDE DEF a
  <2>3. i - 1 - 1 + 1 = i - 1 /\ (\A j \in Int : 1 + j - 1 = j) /\ (~(1 <= i - 1) => i - 1 = 0)
    BY <1>1
  <2>4. QED
    BY <2>2, <2>3
<1>3. /\ b \in Seq(A) /\ Len(b) = Len(s) - i /\ \A j \in 1..Len(s) - i : b[j] = s[i + j]
  <2>1. i + 1 \in Int /\ Len(s) \in Int /\ \A j \in i + 1..Len(s) : s[j] \in A
    BY <1>1
  <2>2. /\ b \in Seq(A) /\ Len(b) = IF i + 1 <= Len(s) THEN Len(s) - (i + 1) + 1 ELSE 0
        /\ \A j \in 1..Len(s) - (i + 1) + 1 : b[j] = s[i + 1 + j - 1]
    BY <2>1, SubSeqProperties
  <2> HIDE DEF b
  <2>3. /\ Len(s) - (i + 1) + 1 = Len(s) - i /\ (\A j \in Int : i + 1 + j - 1 = i + j)
        /\ (~(i + 1 <= Len(s)) => Len(s) - i = 0)
    BY <1>1
  <2>4. Len(b) = Len(s) - i
    BY <2>2, <2>3, Zenon
  <2>5. ASSUME NEW j \in 1..Len(s) - i PROVE b[j] = s[i + j]
    <3>1. j \in 1..Len(s) - (i + 1) + 1 /\ i + 1 + j - 1 = i + j
      <4>1. \A p, q \in Nat : \A x \in 1..p - q : x \in 1..p - (q + 1) + 1 /\ q + 1 + x - 1 = q + x
        OBVIOUS
      <4>2. QED
        BY <1>1, <4>1, Zenon
    <3>2. QED
      BY <2>2, <3>1
  <2>6. QED
    BY <2>2, <2>4, <2>5
<1>4. RemoveAt(s, i) = t
  BY DEF RemoveAt
<1> HIDE DEF a, b
<1>5. t \in Seq(A) /\ Joins(t, a, b)
  BY <1>2, <1>3, Joined, Zenon
<1> HIDE DEF t
<1>6. Len(t) = Len(s) - 1
  BY <1>1, <1>2, <1>3, <1>5 DEF Joins
<1>7. ASSUME NEW j \in 1..Len(t) PROVE t[j] = IF j < i THEN s[j] ELSE s[j + 1]
  <2>1. CASE j < i
    <3>1. j \in 1..i - 1
      BY <1>1, <1>6, <2>1
    <3>2. QED
      BY <1>2, <1>5, <2>1, <3>1 DEF Joins
  <2>2. CASE ~(j < i)
    <3> DEFINE d == j - (i - 1)
    <3>1. d \in 1..Len(s) - i /\ (i - 1) + d = j /\ i + d = j + 1
      BY <1>1, <1>6, <2>2
    <3> HIDE DEF d
    <3>2. t[Len(a) + d] = b[d]
      BY <1>3, <1>5, <3>1 DEF Joins
    <3>3. QED
      BY <1>2, <1>3, <2>2, <3>1, <3>2
  <2>3. QED
    BY <2>1, <2>2
<1>8. QED
  BY <1>4, <1>5, <1>6, <1>7, Zenon DEF Without

LEMMA FirstRemoved ==
  ASSUME NEW A, NEW s \in Seq(A), NEW e
  PROVE  /\ RemoveFirst(s, e) \in Seq(A)
         /\ \A y : y # e => (Contains(RemoveFirst(s, e), y) <=> Contains(s, y))
         /\ Unique(s) => Unique(RemoveFirst(s, e)) /\ ~Contains(RemoveFirst(s, e), e)
<1> DEFINE I == {j \in 1..Len(s) : s[j] = e}
           t == RemoveFirst(s, e)
<1>1. Len(s) \in Nat
  OBVIOUS
<1>2. CASE I = {}
  <2>1. t = s /\ ~Contains(s, e)
    BY <1>2 DEF RemoveFirst, Contains
  <2>2. QED
    BY <2>1
<1>3. CASE I # {}
  <2>1. Min(I) \in I
    <3>1. I \in SUBSET Nat
      BY <1>1
    <3> HIDE DEF I
    <3>2. \E x \in I : \A y \in I : x <= y
      BY <1>3, <3>1, Least
    <3>3. QED
      BY <3>2 DEF Min
  <2>2. PICK i \in 1..Len(s) : s[i] = e /\ t = RemoveAt(s, i)
    <3>1. SelectInSeq(s, LAMBDA v : v = e) = Min(I)
      BY <1>3 DEF SelectInSeq
    <3>2. t = RemoveAt(s, Min(I))
      BY <1>3, <3>1 DEF RemoveFirst
    <3>3. QED
      BY <2>1, <3>2
  <2> HIDE DEF I, t
  <2>3. t \in Seq(A) /\ Without(t, s, i)
    BY <2>2, RemovedAt
  <2>4. /\ Len(t) = Len(s) - 1
        /\ \A j \in 1..Len(t) : t[j] = IF j < i THEN s[j] ELSE s[j + 1]
    BY <2>3 DEF Without
  <2>5. ASSUME NEW y, y # e PROVE Contains(t, y) <=> Contains(s, y)
    <3>1. ASSUME NEW j \in 1..Len(t), t[j] = y PROVE Contains(s, y)
      <4>1. j \in 1..Len(s) /\ j + 1 \in 1..Len(s)
        BY <1>1, <2>4
      <4>2. QED
        BY <2>4, <3>1, <4>1 DEF Contains
    <3>2. ASSUME NEW j \in 1..Len(s), s[j] = y PROVE Contains(t, y)
      <4>1. j # i
        BY <2>2, <2>5, <3>2
      <4>2. CASE j < i
        <5>1. j \in 1..Len(t)
          BY <1>1, <2>4, <4>2
        <5>2. QED
          BY <2>4, <3>2, <4>2, <5>1 DEF Contains
      <4>3. CASE j > i
        <5>1. j - 1 \in 1..Len(t) /\ ~(j - 1 < i) /\ (j - 1) + 1 = j
          BY <1>1, <2>4, <4>3
        <5>2. QED
          BY <2>4, <3>2, <5>1 DEF Contains
      <4>4. QED
        BY <4>1, <4>2, <4>3
    <3>3. QED
      BY <3>1, <3>2 DEF Contains
  <2>6. ASSUME Unique(s) PROVE Unique(t) /\ ~Contains(t, e)
    <3> DEFINE at(j) == IF j < i THEN j ELSE j + 1
    <3>1. \A j \in 1..Len(t) : at(j) \in 1..Len(s) /\ at(j) # i /\ t[j] = s[at(j)]
      BY <1>1, <2>4
    <3>2. \A j, k \in 1..Len(t) : at(j) = at(k) => j = k
      BY <1>1, <2>4
    <3> HIDE DEF at
    <3>3. Unique(t)
      BY <2>6, <3>1, <3>2 DEF Unique
    <3>4. ~Contains(t, e)
      BY <2>2, <2>6, <3>1 DEF Unique, Contains
    <3>5. QED
      BY <3>3, <3>4
  <2>7. QED
    BY <2>3, <2>5, <2>6 DEF t
<1>4. QED
  BY <1>2, <1>3

LEMMA FrontAdded ==
  ASSUME NEW A, NEW s \in Seq(A), NEW e \in A
  PROVE  /\ <<e>> \o s \in Seq(A)
         /\ \A y : Contains(<<e>> \o s, y) <=> y = e \/ Contains(s, y)
         /\ Unique(s) /\ ~Contains(s, e) => Unique(<<e>> \o s)
<1> DEFINE t == <<e>> \o s
<1>1. <<e>> \in Seq(A) /\ Len(<<e>>) = 1 /\ <<e>>[1] = e
  OBVIOUS
<1>2. t \in Seq(A) /\ Joins(t, <<e>>, s)
  BY <1>1, Joined, Zenon
<1> HIDE DEF t
<1>3. /\ Len(s) \in Nat /\ Len(t) = 1 + Len(s) /\ t[1] = e
      /\ \A i \in 1..Len(s) : t[1 + i] = s[i]
  BY <1>1, <1>2 DEF Joins
<1>4. ASSUME NEW j \in 1..Len(t), j # 1 PROVE j - 1 \in 1..Len(s) /\ t[j] = s[j - 1]
  <2>1. j - 1 \in 1..Len(s) /\ 1 + (j - 1) = j
    BY <1>3, <1>4
  <2>2. QED
    BY <1>3, <2>1
<1>5. ASSUME NEW y PROVE Contains(t, y) <=> y = e \/ Contains(s, y)
  <2>1. ASSUME NEW i \in 1..Len(s) PROVE 1 + i \in 1..Len(t)
    BY <1>3
  <2>2. 1 \in 1..Len(t)
    BY <1>3
  <2>3. QED
    BY <1>3, <1>4, <2>1, <2>2 DEF Contains
<1>6. ASSUME Unique(s), ~Contains(s, e) PROVE Unique(t)
  <2>1. ASSUME NEW i \in 1..Len(t), NEW j \in 1..Len(t), t[i] = t[j] PROVE i = j
    <3>1. CASE i = 1 /\ j = 1
      BY <3>1
    <3>2. CASE i # 1 /\ j # 1
      <4>1. i - 1 = j - 1
        BY <1>4, <1>6, <2>1, <3>2 DEF Unique
      <4>2. QED
        BY <4>1
    <3>3. CASE (i = 1 /\ j # 1) \/ (i # 1 /\ j = 1)
      BY <1>3, <1>4, <1>6, <2>1, <3>3 DEF Contains
    <3>4. QED
      BY <3>1, <3>2, <3>3
  <2>2. QED
    BY <2>1 DEF Unique
<1>7. QED
  BY <1>2, <1>5, <1>6 DEF t

-----------------------------------------------------------------------------
(* The table of local users: a user is once in its bucket and nowhere else.*)
Tables(X) == [{0, 1} -> Seq(X)]

LocalsOnce(t) ==
  /\ t \in Tables(Locals)
  /\ \A b \in {0, 1} : Unique(t[b]) /\ \A u : Contains(t[b], u) => Bucket(u) = b

UsersIn(t) == {u \in Locals : FoundIn(t, Bucket(u), u)}

LEMMA BucketType == \A u : Bucket(u) \in {0, 1}
BY DEF Bucket

LEMMA LocalAdded ==
  ASSUME NEW t, LocalsOnce(t), NEW u \in Locals \ UsersIn(t)
  PROVE  LocalsOnce(AddedTo(t, Bucket(u), u)) /\ UsersIn(AddedTo(t, Bucket(u), u)) = UsersIn(t) \union {u}
<1> DEFINE b == Bucket(u)
           s == t[b]
           r == <<u>> \o s
           w == AddedTo(t, b, u)
<1>1. b \in {0, 1} /\ t \in Tables(Locals)
  BY BucketType DEF LocalsOnce
<1>2. s \in Seq(Locals) /\ Unique(s) /\ ~Contains(s, u) /\ \A v : Contains(s, v) => Bucket(v) = b
  BY <1>1 DEF LocalsOnce, Tables, UsersIn, FoundIn
<1>3. w \in [{0, 1} -> Seq(Locals)] /\ w[b] = r /\ \A c \in {0, 1} \ {b} : w[c] = t[c]
  <2>1. r \in Seq(Locals)
    BY <1>2, FrontAdded
  <2> HIDE DEF r
  <2>2. w = [t EXCEPT ![b] = r]
    BY DEF AddedTo, r
  <2> HIDE DEF w
  <2>3. QED
    BY <1>1, <2>1, <2>2 DEF Tables
<1> HIDE DEF w
<1>4. Unique(r) /\ \A v : Contains(r, v) <=> v = u \/ Contains(s, v)
  BY <1>2, FrontAdded
<1>5. LocalsOnce(w)
  <2>1. ASSUME NEW c \in {0, 1} PROVE Unique(w[c]) /\ \A v : Contains(w[c], v) => Bucket(v) = c
    <3>1. CASE c = b
      BY <1>2, <1>3, <1>4, <3>1, Zenon
    <3>2. CASE c # b
      BY <1>3, <3>2 DEF LocalsOnce
    <3>3. QED
      BY <3>1, <3>2
  <2>2. QED
    BY <1>3, <2>1 DEF LocalsOnce, Tables
<1>6. ASSUME NEW v \in Locals PROVE v \in UsersIn(w) <=> v \in UsersIn(t) \/ v = u
  <2>1. CASE Bucket(v) = b
    BY <1>3, <1>4, <2>1, Zenon DEF UsersIn, FoundIn
  <2>2. CASE Bucket(v) # b
    <3>1. v # u /\ w[Bucket(v)] = t[Bucket(v)]
      BY <1>3, <2>2, BucketType
    <3>2. QED
      BY <3>1 DEF UsersIn, FoundIn
  <2>3. QED
    BY <2>1, <2>2
<1>7. QED
  BY <1>5, <1>6 DEF w, UsersIn

LEMMA LocalDeleted ==
  ASSUME NEW t, LocalsOnce(t), NEW u \in Locals
  PROVE  /\ LocalsOnce(DeletedFrom(t, Bucket(u), u))
         /\ UsersIn(DeletedFrom(t, Bucket(u), u)) = UsersIn(t) \ {u}
<1> DEFINE b == Bucket(u)
           s == t[b]
           r == RemoveFirst(s, u)
           w == DeletedFrom(t, b, u)
<1>1. b \in {0, 1} /\ t \in Tables(Locals)
  BY BucketType DEF LocalsOnce
<1>2. s \in Seq(Locals) /\ Unique(s) /\ \A v : Contains(s, v) => Bucket(v) = b
  BY <1>1 DEF LocalsOnce, Tables
<1>3. /\ r \in Seq(Locals)
      /\ \A v : v # u => (Contains(r, v) <=> Contains(s, v))
      /\ Unique(r) /\ ~Contains(r, u)
  BY <1>2, FirstRemoved
<1>4. w = [t EXCEPT ![b] = r]
  BY DEF DeletedFrom
<1> HIDE DEF w, r
<1>5. w \in [{0, 1} -> Seq(Locals)] /\ w[b] = r /\ \A c \in {0, 1} \ {b} : w[c] = t[c]
  BY <1>1, <1>3, <1>4 DEF Tables
<1>6. LocalsOnce(w)
  <2>1. ASSUME NEW c \in {0, 1} PROVE Unique(w[c]) /\ \A v : Contains(w[c], v) => Bucket(v) = c
    <3>1. CASE c = b
      BY <1>2, <1>3, <1>5, <3>1, Zenon
    <3>2. CASE c # b
      BY <1>5, <3>2 DEF LocalsOnce
    <3>3. QED
      BY <3>1, <3>2
  <2>2. QED
    BY <1>5, <2>1 DEF LocalsOnce, Tables
<1>7. ASSUME NEW v \in Locals PROVE v \in UsersIn(w) <=> v \in UsersIn(t) /\ v # u
  <2>1. CASE Bucket(v) = b
    BY <1>3, <1>5, <2>1, Zenon DEF UsersIn, FoundIn
  <2>2. CASE Bucket(v) # b
    <3>1. v # u /\ w[Bucket(v)] = t[Bucket(v)]
      BY <1>5, <2>2, BucketType
    <3>2. QED
      BY <3>1 DEF UsersIn, FoundIn
  <2>3. QED
    BY <2>1, <2>2
<1>8. QED
  BY <1>6, <1>7 DEF w, UsersIn

(* A fold stays where its steps stay.                                      *)
LEMMA FoldTyped ==
  ASSUME NEW D, IsFiniteSet(D), NEW T, NEW base \in T, NEW H, NEW it, FoldOf(it, D, base, H),
         \A x \in D, t \in T : H[<<x, t>>] \in T
  PROVE  \A s \in SUBSET D : it[s] \in T
<1> DEFINE S == {s \in SUBSET D : it[s] \in T}
<1>1. ASSUME NEW s \in SUBSET D
      PROVE  it[s] = IF s = {} THEN base ELSE H[<<Some(s), it[s \ {Some(s)}]>>]
  BY DEF FoldOf
<1>2. {} \in S
  BY <1>1
<1>3. ASSUME NEW s \in SUBSET D, s # {}, s \ {Some(s)} \in S PROVE s \in S
  <2>1. Some(s) \in D /\ it[s \ {Some(s)}] \in T
    BY <1>3, FirstFacts
  <2>2. H[<<Some(s), it[s \ {Some(s)}]>>] \in T
    BY <2>1, Zenon
  <2>3. it[s] \in T
    BY <1>1, <1>3, <2>2
  <2>4. QED
    BY <2>3
<1> HIDE DEF S
<1>4. \A s \in SUBSET D : s \in S
  BY <1>2, <1>3, SetSteps
<1>5. QED
  BY <1>4 DEF S

(* The bots of the table, one after the other                              *)
LEMMA AllAdded ==
  ASSUME NEW t, LocalsOnce(t), NEW D \in SUBSET (Locals \ UsersIn(t)), IsFiniteSet(D)
  PROVE  LET w == FoldSet(LAMBDA u, x : AddedTo(x, Bucket(u), u), t, D)
         IN  LocalsOnce(w) /\ UsersIn(w) = UsersIn(t) \union D
<1> DEFINE G(it) == [s \in SUBSET D |->
                       IF s = {} THEN t ELSE AddedTo(it[s \ {Some(s)}], Bucket(Some(s)), Some(s))]
           iter == CHOOSE it : it = G(it)
           T == Tables(Locals)
           H == [p \in D \X T |-> AddedTo(p[2], Bucket(p[1]), p[1])]
           w == FoldSet(LAMBDA u, x : AddedTo(x, Bucket(u), u), t, D)
<1>1. w = iter[D]
  BY Zenon DEF FoldSet, MapThenFoldSet, Some
<1>2. PICK it : FoldOf(it, D, t, H)
  BY FoldExists
<1>3. ASSUME NEW x \in D, NEW y \in T
      PROVE  H[<<x, y>>] = AddedTo(y, Bucket(x), x) /\ H[<<x, y>>] \in T
  <2>1. H[<<x, y>>] = AddedTo(y, Bucket(x), x)
    OBVIOUS
  <2>2. AddedTo(y, Bucket(x), x) \in T
    <3> DEFINE b == Bucket(x)
               r == <<x>> \o y[b]
    <3>1. b \in {0, 1} /\ x \in Locals
      BY BucketType
    <3>2. y[b] \in Seq(Locals)
      BY <3>1 DEF Tables
    <3>3. r \in Seq(Locals)
      BY <3>1, <3>2, FrontAdded
    <3>4. AddedTo(y, b, x) = [y EXCEPT ![b] = r]
      BY DEF AddedTo
    <3> HIDE DEF b, r
    <3>5. QED
      BY <3>1, <3>3, <3>4 DEF Tables, b
  <2>3. QED
    BY <2>1, <2>2
<1> HIDE DEF H
<1>4. \A s \in SUBSET D : it[s] \in T
  <2>1. t \in T
    BY DEF LocalsOnce
  <2> HIDE DEF T
  <2>2. QED
    BY <1>2, <1>3, <2>1, FoldTyped, Zenon
<1>5. it = G(it)
  <2>1. ASSUME NEW s \in SUBSET D, s # {}
        PROVE  H[<<Some(s), it[s \ {Some(s)}]>>]
                 = AddedTo(it[s \ {Some(s)}], Bucket(Some(s)), Some(s))
    <3>1. Some(s) \in D /\ s \ {Some(s)} \in SUBSET D
      BY <2>1, FirstFacts
    <3>2. it[s \ {Some(s)}] \in T
      BY <1>4, <3>1, Zenon
    <3>3. QED
      BY <1>3, <3>1, <3>2, Zenon
  <2>2. it = [s \in SUBSET D |-> IF s = {} THEN t ELSE H[<<Some(s), it[s \ {Some(s)}]>>]]
    BY <1>2 DEF FoldOf
  <2>3. QED
    BY <2>1, <2>2
<1>6. iter = G(iter)
  <2> HIDE DEF G
  <2>1. QED
    BY <1>5, Zenon
<1> HIDE DEF iter
<1>7. ASSUME NEW s \in SUBSET D
      PROVE  iter[s] = IF s = {} THEN t ELSE AddedTo(iter[s \ {Some(s)}], Bucket(Some(s)), Some(s))
  BY <1>6
<1> DEFINE S == {s \in SUBSET D : LocalsOnce(iter[s]) /\ UsersIn(iter[s]) = UsersIn(t) \union s}
<1>8. {} \in S
  BY <1>7
<1>9. ASSUME NEW s \in SUBSET D, s # {}, s \ {Some(s)} \in S PROVE s \in S
  <2> DEFINE u == Some(s)
             y == iter[s \ {u}]
  <2>1. u \in s /\ u \in D /\ u \in Locals \ UsersIn(t)
    BY <1>9, FirstFacts
  <2>2. LocalsOnce(y) /\ UsersIn(y) = UsersIn(t) \union (s \ {u})
    BY <1>9
  <2>3. iter[s] = AddedTo(y, Bucket(u), u)
    BY <1>7, <1>9
  <2> HIDE DEF u, y
  <2>4. u \in Locals \ UsersIn(y)
    BY <2>1, <2>2
  <2>5. LocalsOnce(iter[s]) /\ UsersIn(iter[s]) = UsersIn(y) \union {u}
    BY <2>2, <2>3, <2>4, LocalAdded
  <2>6. UsersIn(iter[s]) = UsersIn(t) \union s
    BY <2>1, <2>2, <2>5
  <2>7. QED
    BY <2>5, <2>6
<1> HIDE DEF S
<1>10. \A s \in SUBSET D : s \in S
  BY <1>8, <1>9, SetSteps
<1>11. D \in S
  BY <1>10
<1>12. QED
  BY <1>1, <1>11 DEF S

(* Deleting channels leaves the others where they are found.               *)
HasChan(t, c) == FoundIn(t, Bucket(c), c)

LEMMA ChanAdded ==
  ASSUME NEW t \in Tables(Chans), NEW c \in Chans
  PROVE  /\ AddedTo(t, Bucket(c), c) \in Tables(Chans)
         /\ HasChan(AddedTo(t, Bucket(c), c), c)
         /\ \A d : HasChan(t, d) => HasChan(AddedTo(t, Bucket(c), c), d)
<1> DEFINE b == Bucket(c)
           s == t[b]
           r == <<c>> \o s
           w == AddedTo(t, b, c)
<1>1. b \in {0, 1} /\ s \in Seq(Chans)
  BY BucketType DEF Tables
<1>2. r \in Seq(Chans) /\ \A d : Contains(r, d) <=> d = c \/ Contains(s, d)
  BY <1>1, FrontAdded
<1>3. w = [t EXCEPT ![b] = r]
  BY DEF AddedTo
<1> HIDE DEF w, r
<1>4. w \in [{0, 1} -> Seq(Chans)] /\ w[b] = r /\ \A x \in {0, 1} \ {b} : w[x] = t[x]
  BY <1>1, <1>2, <1>3 DEF Tables
<1>5. HasChan(w, c)
  BY <1>2, <1>4, Zenon DEF HasChan, FoundIn
<1>6. ASSUME NEW d, HasChan(t, d) PROVE HasChan(w, d)
  <2>1. CASE Bucket(d) = b
    BY <1>2, <1>4, <1>6, <2>1, Zenon DEF HasChan, FoundIn
  <2>2. CASE Bucket(d) # b
    BY <1>4, <1>6, <2>2, BucketType DEF HasChan, FoundIn
  <2>3. QED
    BY <2>1, <2>2
<1>7. QED
  BY <1>4, <1>5, <1>6 DEF w, Tables

LEMMA ChanDeleted ==
  ASSUME NEW t \in Tables(Chans), NEW c
  PROVE  /\ DeletedFrom(t, Bucket(c), c) \in Tables(Chans)
         /\ \A d : d # c /\ HasChan(t, d) => HasChan(DeletedFrom(t, Bucket(c), c), d)
<1> DEFINE b == Bucket(c)
           s == t[b]
           r == RemoveFirst(s, c)
           w == DeletedFrom(t, b, c)
<1>1. b \in {0, 1} /\ s \in Seq(Chans)
  BY BucketType DEF Tables
<1>2. r \in Seq(Chans) /\ \A d : d # c => (Contains(r, d) <=> Contains(s, d))
  BY <1>1, FirstRemoved
<1>3. w = [t EXCEPT ![b] = r]
  BY DEF DeletedFrom
<1> HIDE DEF w, r
<1>4. w \in [{0, 1} -> Seq(Chans)] /\ w[b] = r /\ \A x \in {0, 1} \ {b} : w[x] = t[x]
  BY <1>1, <1>2, <1>3 DEF Tables
<1>5. ASSUME NEW d, d # c, HasChan(t, d) PROVE HasChan(w, d)
  <2>1. CASE Bucket(d) = b
    BY <1>2, <1>4, <1>5, <2>1, Zenon DEF HasChan, FoundIn
  <2>2. CASE Bucket(d) # b
    BY <1>4, <1>5, <2>2, BucketType DEF HasChan, FoundIn
  <2>3. QED
    BY <2>1, <2>2
<1>6. QED
  BY <1>4, <1>5 DEF w, Tables

LEMMA ChansDeleted ==
  ASSUME NEW t \in Tables(Chans), NEW D, IsFiniteSet(D)
  PROVE  LET w == FoldSet(LAMBDA c, x : DeletedFrom(x, Bucket(c), c), t, D)
         IN  w \in Tables(Chans) /\ \A d : d \notin D /\ HasChan(t, d) => HasChan(w, d)
<1> DEFINE G(it) == [s \in SUBSET D |->
                       IF s = {} THEN t ELSE DeletedFrom(it[s \ {Some(s)}], Bucket(Some(s)), Some(s))]
           iter == CHOOSE it : it = G(it)
           T == Tables(Chans)
           H == [p \in D \X T |-> DeletedFrom(p[2], Bucket(p[1]), p[1])]
           w == FoldSet(LAMBDA c, x : DeletedFrom(x, Bucket(c), c), t, D)
<1>1. w = iter[D]
  BY Zenon DEF FoldSet, MapThenFoldSet, Some
<1>2. PICK it : FoldOf(it, D, t, H)
  BY FoldExists
<1>3. ASSUME NEW x \in D, NEW y \in T
      PROVE  H[<<x, y>>] = DeletedFrom(y, Bucket(x), x) /\ H[<<x, y>>] \in T
  <2>1. H[<<x, y>>] = DeletedFrom(y, Bucket(x), x)
    OBVIOUS
  <2> HIDE DEF H
  <2>2. QED
    BY <2>1, ChanDeleted
<1> HIDE DEF H
<1>4. \A s \in SUBSET D : it[s] \in T
  <2> HIDE DEF T
  <2>1. QED
    BY <1>2, <1>3, FoldTyped, Zenon DEF T
<1>5. it = G(it)
  <2>1. ASSUME NEW s \in SUBSET D, s # {}
        PROVE  H[<<Some(s), it[s \ {Some(s)}]>>]
                 = DeletedFrom(it[s \ {Some(s)}], Bucket(Some(s)), Some(s))
    <3>1. Some(s) \in D /\ s \ {Some(s)} \in SUBSET D
      BY <2>1, FirstFacts
    <3>2. it[s \ {Some(s)}] \in T
      BY <1>4, <3>1, Zenon
    <3>3. QED
      BY <1>3, <3>1, <3>2, Zenon
  <2>2. it = [s \in SUBSET D |-> IF s = {} THEN t ELSE H[<<Some(s), it[s \ {Some(s)}]>>]]
    BY <1>2 DEF FoldOf
  <2>3. QED
    BY <2>1, <2>2
<1>6. iter = G(iter)
  <2> HIDE DEF G
  <2>1. QED
    BY <1>5, Zenon
<1> HIDE DEF iter
<1>7. ASSUME NEW s \in SUBSET D
      PROVE  iter[s] = IF s = {} THEN t ELSE DeletedFrom(iter[s \ {Some(s)}], Bucket(Some(s)), Some(s))
  BY <1>6
<1> DEFINE Fits(s, x) == x \in T /\ \A d : d \notin s /\ HasChan(t, d) => HasChan(x, d)
           S == {s \in SUBSET D : Fits(s, iter[s])}
<1>8. {} \in S
  BY <1>7
<1>9. ASSUME NEW s \in SUBSET D, s # {}, s \ {Some(s)} \in S PROVE s \in S
  <2> DEFINE c == Some(s)
             y == iter[s \ {c}]
  <2>1. c \in s
    BY <1>9, FirstFacts
  <2>2. Fits(s \ {c}, y)
    BY <1>9
  <2>3. iter[s] = DeletedFrom(y, Bucket(c), c)
    BY <1>7, <1>9
  <2> HIDE DEF c, y
  <2>4. iter[s] \in T /\ \A d : d # c /\ HasChan(y, d) => HasChan(iter[s], d)
    BY <2>2, <2>3, ChanDeleted
  <2>5. Fits(s, iter[s])
    BY <2>1, <2>2, <2>4
  <2> HIDE DEF Fits
  <2>6. QED
    BY <2>5
<1> HIDE DEF S
<1>10. \A s \in SUBSET D : s \in S
  BY <1>8, <1>9, SetSteps
<1>11. D \in S
  BY <1>10
<1>12. QED
  BY <1>1, <1>11 DEF S

-----------------------------------------------------------------------------
(* irc_StartConnect walks through the table: first one chain, then the     *)
(* other.                                                                  *)
Stop(n, c) == [next_index |-> n, current |-> c]

StopAt(t, k) ==
  IF k = 0 THEN Stop(0, <<>>)
  ELSE IF k <= Len(t[0]) THEN Stop(1, SubSeq(t[0], k, Len(t[0])))
  ELSE Stop(2, SubSeq(t[1], k - Len(t[0]), Len(t[1])))

LEMMA FromFirst ==
  ASSUME NEW A, NEW s \in Seq(A), NEW j \in 1..Len(s)
  PROVE  /\ SubSeq(s, j, Len(s)) # <<>> /\ Head(SubSeq(s, j, Len(s))) = s[j]
         /\ Tail(SubSeq(s, j, Len(s))) = SubSeq(s, j + 1, Len(s))
         /\ SubSeq(s, 1, Len(s)) = s /\ SubSeq(s, Len(s) + 1, Len(s)) = <<>>
<1>1. Len(s) \in Nat /\ j \in Int
  BY LenProperties
<1>2. /\ Head(SubSeq(s, j, Len(s))) = s[j]
      /\ Tail(SubSeq(s, j, Len(s))) = SubSeq(s, j + 1, Len(s))
  <2>1. Len(s) \in j..Len(s)
    BY <1>1
  <2>2. QED
    BY <2>1, HeadTailOfSubSeq
<1>3. SubSeq(s, j, Len(s)) # <<>>
  <2>1. \A i \in j..Len(s) : s[i] \in A
    BY <1>1, ElementOfSeq
  <2>2. Len(SubSeq(s, j, Len(s))) = Len(s) - j + 1
    BY <1>1, <2>1, SubSeqProperties
  <2>3. QED
    BY <1>1, <2>2, EmptySeq
<1>4. SubSeq(s, 1, Len(s)) = s
  BY SubSeqFull
<1>5. SubSeq(s, Len(s) + 1, Len(s)) = <<>>
  BY <1>1, SubSeqEmpty
<1>6. QED
  BY <1>2, <1>3, <1>4, <1>5

LEMMA NextOfStop ==
  ASSUME NEW t \in Tables(Locals), NEW n, NEW c
  PROVE  /\ Tail(c) # <<>> /\ c # <<>> => NextEntry(t, Stop(n, c)) = Stop(n, Tail(c))
         /\ (c = <<>> \/ Tail(c) = <<>>) /\ n = 0 /\ t[0] # <<>> => NextEntry(t, Stop(n, c)) = Stop(1, t[0])
         /\ (c = <<>> \/ Tail(c) = <<>>) /\ (n = 1 \/ (n = 0 /\ t[0] = <<>>)) /\ t[1] # <<>>
               => NextEntry(t, Stop(n, c)) = Stop(2, t[1])
         /\ (c = <<>> \/ Tail(c) = <<>>) /\ n \in {0, 1, 2} /\ (n = 0 => t[0] = <<>>) /\ (n # 2 => t[1] = <<>>)
               => NextEntry(t, Stop(n, c)).current = <<>>
<1> DEFINE rest == IF c = <<>> THEN <<>> ELSE Tail(c)
           used == {b \in DOMAIN t : b >= n /\ t[b] # <<>>}
           next == CHOOSE b \in used : \A d \in used : b <= d
<1>1. NextEntry(t, Stop(n, c)) = IF rest # <<>> \/ used = {} THEN Stop(n, rest) ELSE Stop(next + 1, t[next])
  <2> DEFINE it == Stop(n, c)
  <2>1. it.next_index = n /\ it.current = c /\ \A r : [it EXCEPT !.current = r] = Stop(n, r)
    BY DEF Stop
  <2>2. Stop(next + 1, t[next]) = [next_index |-> next + 1, current |-> t[next]]
    BY DEF Stop
  <2> HIDE DEF it, next
  <2>3. used = {b \in DOMAIN t : b >= it.next_index /\ t[b] # <<>>}
    BY <2>1
  <2>4. rest = IF it.current = <<>> THEN <<>> ELSE Tail(it.current)
    BY <2>1
  <2> HIDE DEF used, rest
  <2>5. NextEntry(t, it) = IF rest # <<>> \/ used = {} THEN [it EXCEPT !.current = rest]
                           ELSE [next_index |-> next + 1, current |-> t[next]]
    BY <2>3, <2>4, Zenon DEF NextEntry, next, used
  <2>6. QED
    BY <2>1, <2>2, <2>5 DEF it
<1>2. DOMAIN t = {0, 1}
  BY DEF Tables
<1>3. ASSUME n = 0, t[0] # <<>> PROVE used # {} /\ next = 0
  <2>1. 0 \in used /\ \A d \in used : 0 <= d
    BY <1>2, <1>3
  <2>2. \A b \in used : (\A d \in used : b <= d) => b = 0
    BY <1>2, <1>3
  <2> HIDE DEF used
  <2>3. QED
    BY <2>1, <2>2
<1>4. ASSUME n = 1 \/ (n = 0 /\ t[0] = <<>>), t[1] # <<>> PROVE used # {} /\ next = 1
  <2>1. used = {1}
    BY <1>2, <1>4
  <2> HIDE DEF used
  <2>2. QED
    BY <2>1
<1>5. ASSUME n \in {0, 1, 2}, n = 0 => t[0] = <<>>, n # 2 => t[1] = <<>> PROVE used = {}
  BY <1>2, <1>5
<1>6. ASSUME Tail(c) # <<>>, c # <<>> PROVE NextEntry(t, Stop(n, c)) = Stop(n, Tail(c))
  BY <1>1, <1>6
<1> HIDE DEF used, next
<1>7. ASSUME c = <<>> \/ Tail(c) = <<>>
      PROVE  NextEntry(t, Stop(n, c)) = IF used = {} THEN Stop(n, <<>>) ELSE Stop(next + 1, t[next])
  BY <1>1, <1>7
<1>8. Stop(n, <<>>).current = <<>> /\ 0 + 1 = 1 /\ 1 + 1 = 2
  BY DEF Stop
<1>9. QED
  BY <1>3, <1>4, <1>5, <1>6, <1>7, <1>8

LEMMA StopFacts ==
  ASSUME NEW t \in Tables(Locals)
  PROVE  LET M == Len(t[0]) + Len(t[1])
         IN  /\ M \in Nat
             /\ \A k \in 1..M : /\ StopAt(t, k) = NextEntry(t, StopAt(t, k - 1))
                                /\ StopAt(t, k).current # <<>>
                                /\ Head(StopAt(t, k).current)
                                     = IF k <= Len(t[0]) THEN t[0][k] ELSE t[1][k - Len(t[0])]
             /\ NextEntry(t, StopAt(t, M)).current = <<>>
<1> DEFINE a == t[0]
           b == t[1]
           p == Len(a)
           q == Len(b)
           M == p + q
<1>1. a \in Seq(Locals) /\ b \in Seq(Locals) /\ p \in Nat /\ q \in Nat
  <2>1. a \in Seq(Locals) /\ b \in Seq(Locals)
    BY DEF Tables
  <2>2. QED
    BY <2>1
<1>2. /\ \A k \in 1..p : /\ SubSeq(a, k, p) # <<>> /\ Head(SubSeq(a, k, p)) = a[k]
                         /\ Tail(SubSeq(a, k, p)) = SubSeq(a, k + 1, p)
      /\ \A k \in 1..q : /\ SubSeq(b, k, q) # <<>> /\ Head(SubSeq(b, k, q)) = b[k]
                         /\ Tail(SubSeq(b, k, q)) = SubSeq(b, k + 1, q)
  BY <1>1, FromFirst
<1>3. /\ SubSeq(a, 1, p) = a /\ SubSeq(a, p + 1, p) = <<>>
      /\ SubSeq(b, 1, q) = b /\ SubSeq(b, q + 1, q) = <<>>
      /\ (a = <<>> <=> p = 0) /\ (b = <<>> <=> q = 0)
  <2>1. \A s \in Seq(Locals) : /\ SubSeq(s, 1, Len(s)) = s /\ SubSeq(s, Len(s) + 1, Len(s)) = <<>>
                               /\ s = <<>> <=> Len(s) = 0
    <3>1. ASSUME NEW s \in Seq(Locals) PROVE SubSeq(s, Len(s) + 1, Len(s)) = <<>>
      BY SubSeqEmpty
    <3>2. QED
      BY <3>1, SubSeqFull, EmptySeq
  <2>2. QED
    BY <1>1, <2>1, Zenon
<1>4. \A k \in 1..p : StopAt(t, k) = Stop(1, SubSeq(a, k, p))
  BY <1>1 DEF StopAt
<1>5. \A k \in p + 1..M : StopAt(t, k) = Stop(2, SubSeq(b, k - p, q))
  BY <1>1 DEF StopAt
<1>6. StopAt(t, 0) = Stop(0, <<>>)
  BY DEF StopAt
<1>7. \A i, c : Stop(i, c).current = c
  BY DEF Stop
<1> HIDE DEF p, q
<1>8. ASSUME NEW k \in 1..p
      PROVE  StopAt(t, k).current # <<>> /\ Head(StopAt(t, k).current) = a[k]
  <2>1. StopAt(t, k).current = SubSeq(a, k, p)
    BY <1>4, <1>7, Zenon
  <2>2. QED
    BY <1>2, <2>1, Zenon
<1>9. ASSUME NEW k \in p + 1..M
      PROVE  StopAt(t, k).current # <<>> /\ Head(StopAt(t, k).current) = b[k - p]
  <2>1. k - p \in 1..q
    BY <1>1
  <2>2. StopAt(t, k).current = SubSeq(b, k - p, q)
    BY <1>5, <1>7, Zenon
  <2>3. QED
    BY <1>2, <2>1, <2>2, Zenon
<1>10. ASSUME NEW k \in 1..p PROVE StopAt(t, k) = NextEntry(t, StopAt(t, k - 1))
  <2>1. CASE k = 1
    <3>1. a # <<>> /\ k - 1 = 0
      BY <1>1, <1>3, <2>1
    <3>2. NextEntry(t, Stop(0, <<>>)) = Stop(1, a)
      BY <3>1, NextOfStop
    <3>3. QED
      BY <1>3, <1>4, <1>6, <2>1, <3>1, <3>2
  <2>2. CASE k # 1
    <3> DEFINE c == SubSeq(a, k - 1, p)
    <3>1. k - 1 \in 1..p /\ (k - 1) + 1 = k
      BY <1>1, <2>2
    <3>2. c # <<>> /\ Tail(c) = SubSeq(a, k, p) /\ Tail(c) # <<>>
      BY <1>2, <3>1
    <3>3. StopAt(t, k - 1) = Stop(1, c)
      BY <1>4, <3>1
    <3> HIDE DEF c
    <3>4. NextEntry(t, Stop(1, c)) = Stop(1, Tail(c))
      BY <3>2, NextOfStop
    <3>5. QED
      BY <1>4, <3>2, <3>3, <3>4
  <2>3. QED
    BY <2>1, <2>2
<1>11. ASSUME NEW k \in p + 1..M PROVE StopAt(t, k) = NextEntry(t, StopAt(t, k - 1))
  <2>1. CASE k = p + 1
    <3>1. b # <<>> /\ k - 1 = p /\ k - p = 1
      BY <1>1, <1>3, <2>1
    <3>2. StopAt(t, k) = Stop(2, b)
      BY <1>3, <1>5, <3>1
    <3>3. CASE p = 0
      <4>1. a = <<>>
        BY <1>3, <3>3
      <4>2. NextEntry(t, Stop(0, <<>>)) = Stop(2, b)
        BY <3>1, <4>1, NextOfStop
      <4>3. QED
        BY <1>6, <3>1, <3>2, <3>3, <4>2
    <3>4. CASE p # 0
      <4> DEFINE c == SubSeq(a, p, p)
      <4>1. p \in 1..p
        BY <1>1, <3>4
      <4>2. Tail(c) = <<>> /\ StopAt(t, p) = Stop(1, c)
        BY <1>2, <1>3, <1>4, <4>1
      <4> HIDE DEF c
      <4>3. NextEntry(t, Stop(1, c)) = Stop(2, b)
        BY <3>1, <4>2, NextOfStop
      <4>4. QED
        BY <3>1, <3>2, <4>2, <4>3
    <3>5. QED
      BY <3>3, <3>4
  <2>2. CASE k # p + 1
    <3> DEFINE c == SubSeq(b, k - 1 - p, q)
    <3>1. k - 1 - p \in 1..q /\ (k - 1 - p) + 1 = k - p /\ k - p \in 1..q /\ k - 1 \in p + 1..M
      BY <1>1, <2>2
    <3>2. c # <<>> /\ Tail(c) = SubSeq(b, k - p, q) /\ Tail(c) # <<>>
      BY <1>2, <3>1
    <3>3. StopAt(t, k - 1) = Stop(2, c)
      BY <1>5, <3>1
    <3> HIDE DEF c
    <3>4. NextEntry(t, Stop(2, c)) = Stop(2, Tail(c))
      BY <3>2, NextOfStop
    <3>5. QED
      BY <1>5, <3>2, <3>3, <3>4
  <2>3. QED
    BY <2>1, <2>2
<1>12. NextEntry(t, StopAt(t, M)).current = <<>>
  <2>1. CASE q # 0
    <3> DEFINE c == SubSeq(b, q, q)
    <3>1. q \in 1..q /\ M \in p + 1..M /\ M - p = q
      BY <1>1, <2>1
    <3>2. Tail(c) = <<>> /\ StopAt(t, M) = Stop(2, c)
      BY <1>2, <1>3, <1>5, <3>1
    <3> HIDE DEF c
    <3>3. NextEntry(t, Stop(2, c)).current = <<>>
      BY <3>2, NextOfStop
    <3>4. QED
      BY <3>2, <3>3
  <2>2. CASE q = 0 /\ p # 0
    <3> DEFINE c == SubSeq(a, p, p)
    <3>1. p \in 1..p /\ M = p /\ b = <<>>
      BY <1>1, <1>3, <2>2
    <3>2. Tail(c) = <<>> /\ StopAt(t, M) = Stop(1, c)
      BY <1>2, <1>3, <1>4, <3>1
    <3> HIDE DEF c
    <3>3. NextEntry(t, Stop(1, c)).current = <<>>
      BY <3>1, <3>2, NextOfStop
    <3>4. QED
      BY <3>2, <3>3
  <2>3. CASE q = 0 /\ p = 0
    <3>1. M = 0 /\ a = <<>> /\ b = <<>>
      BY <1>1, <1>3, <2>3
    <3>2. NextEntry(t, Stop(0, <<>>)).current = <<>>
      BY <3>1, NextOfStop
    <3>3. QED
      BY <1>6, <3>1, <3>2
  <2>4. QED
    BY <2>1, <2>2, <2>3
<1>13. ASSUME NEW k \in 1..M
       PROVE  /\ StopAt(t, k) = NextEntry(t, StopAt(t, k - 1))
              /\ StopAt(t, k).current # <<>>
              /\ Head(StopAt(t, k).current) = IF k <= p THEN a[k] ELSE b[k - p]
  <2>1. CASE k <= p
    <3>1. k \in 1..p
      BY <1>1, <2>1
    <3>2. QED
      BY <1>8, <1>10, <2>1, <3>1
  <2>2. CASE ~(k <= p)
    <3>1. k \in p + 1..M
      BY <1>1, <2>2
    <3>2. QED
      BY <1>9, <1>11, <2>2, <3>1
  <2>3. QED
    BY <2>1, <2>2
<1>14. M \in Nat
  BY <1>1
<1>15. QED
  BY <1>12, <1>13, <1>14, Zenon DEF p, q

LEMMA EntriesAre ==
  ASSUME NEW t, LocalsOnce(t)
  PROVE  Entries(t) = UsersIn(t)
<1>1. DOMAIN t = {0, 1} /\ \A b \in {0, 1} : t[b] \in Seq(Locals)
  BY DEF LocalsOnce, Tables
<1>2. \A b \in {0, 1} : ToSet(t[b]) = {u \in Locals : Contains(t[b], u)}
  BY <1>1 DEF ToSet, Contains
<1>3. \A u \in Locals : (\E b \in {0, 1} : Contains(t[b], u)) <=> Contains(t[Bucket(u)], u)
  BY BucketType DEF LocalsOnce
<1>4. QED
  BY <1>1, <1>2, <1>3 DEF Entries, UsersIn, FoundIn

LEMMA WalkedAll ==
  ASSUME NEW t, LocalsOnce(t)
  PROVE  Walked(t) = UsersIn(t)
<1> DEFINE p == Len(t[0])
           q == Len(t[1])
           M == p + q
           f == [k \in 1..M |-> IF k <= p THEN t[0][k] ELSE t[1][k - p]]
           E == Entries(t)
           n == Cardinality(E) + 1
           Step(it) == [k \in 0..n |-> IF k = 0 THEN [next_index |-> 0, current |-> <<>>]
                                       ELSE NextEntry(t, it[k - 1])]
           it == CHOOSE at : at = Step(at)
<1>1. /\ t \in Tables(Locals) /\ t[0] \in Seq(Locals) /\ t[1] \in Seq(Locals)
      /\ p \in Nat /\ q \in Nat /\ M \in Nat
  <2>1. t \in Tables(Locals) /\ t[0] \in Seq(Locals) /\ t[1] \in Seq(Locals)
    BY DEF LocalsOnce, Tables
  <2>2. p \in Nat /\ q \in Nat
    BY <2>1, LenProperties
  <2> HIDE DEF p, q
  <2>3. M \in Nat
    BY <2>2
  <2>4. QED
    BY <2>1, <2>2, <2>3
<1>2. /\ \A k \in 1..M : /\ StopAt(t, k) = NextEntry(t, StopAt(t, k - 1))
                         /\ StopAt(t, k).current # <<>>
                         /\ Head(StopAt(t, k).current) = f[k]
      /\ NextEntry(t, StopAt(t, M)).current = <<>>
  <2>1. \A k \in 1..M : f[k] = IF k <= p THEN t[0][k] ELSE t[1][k - p]
    OBVIOUS
  <2>2. /\ \A k \in 1..M : /\ StopAt(t, k) = NextEntry(t, StopAt(t, k - 1))
                           /\ StopAt(t, k).current # <<>>
                           /\ Head(StopAt(t, k).current) = IF k <= p THEN t[0][k] ELSE t[1][k - p]
        /\ NextEntry(t, StopAt(t, M)).current = <<>>
    BY <1>1, StopFacts, Zenon
  <2> HIDE DEF f, M, p, q
  <2>3. QED
    BY <2>1, <2>2, Zenon
<1>21. p = Len(t[0]) /\ q = Len(t[1])
  OBVIOUS
<1> HIDE DEF p, q
<1>3. f \in Bijection(1..M, E)
  <2>1. /\ Unique(t[0]) /\ Unique(t[1])
        /\ \A u : ~(Contains(t[0], u) /\ Contains(t[1], u))
    BY DEF LocalsOnce
  <2>2. E = {u \in Locals : Contains(t[0], u) \/ Contains(t[1], u)}
    <3>1. DOMAIN t = {0, 1}
      BY <1>1 DEF Tables
    <3>2. ToSet(t[0]) = {u \in Locals : Contains(t[0], u)} /\ ToSet(t[1]) = {u \in Locals : Contains(t[1], u)}
      BY <1>1 DEF ToSet, Contains
    <3>3. E = ToSet(t[0]) \union ToSet(t[1])
      BY <3>1 DEF Entries
    <3>4. QED
      BY <3>2, <3>3
  <2>3. ASSUME NEW k \in 1..M
        PROVE  \/ k <= p /\ k \in 1..p /\ f[k] = t[0][k] /\ Contains(t[0], f[k]) /\ f[k] \in Locals
               \/ /\ ~(k <= p) /\ k - p \in 1..q /\ f[k] = t[1][k - p]
                  /\ Contains(t[1], f[k]) /\ f[k] \in Locals
    <3>1. CASE k <= p
      BY <1>1, <1>21, <3>1 DEF Contains
    <3>2. CASE ~(k <= p)
      <4>1. k - p \in 1..q
        BY <1>1, <3>2
      <4>2. f[k] = t[1][k - p]
        BY <3>2
      <4>3. QED
        BY <1>1, <1>21, <3>2, <4>1, <4>2 DEF Contains
    <3>3. QED
      BY <3>1, <3>2
  <2>4. ASSUME NEW i \in 1..M, NEW j \in 1..M, f[i] = f[j] PROVE i = j
    <3>1. CASE i <= p /\ j <= p
      BY <1>1, <1>21, <2>1, <2>3, <2>4, <3>1 DEF Unique
    <3>2. CASE ~(i <= p) /\ ~(j <= p)
      <4>1. i - p = j - p
        BY <1>1, <1>21, <2>1, <2>3, <2>4, <3>2 DEF Unique
      <4>2. QED
        BY <1>1, <4>1
    <3>3. CASE (i <= p /\ ~(j <= p)) \/ (~(i <= p) /\ j <= p)
      BY <2>1, <2>3, <2>4, <3>3
    <3>4. QED
      BY <3>1, <3>2, <3>3
  <2>5. ASSUME NEW u \in E PROVE \E k \in 1..M : f[k] = u
    <3>1. CASE Contains(t[0], u)
      <4>1. PICK k \in 1..p : t[0][k] = u
        BY <1>1, <1>21, <3>1 DEF Contains
      <4>2. k \in 1..M /\ f[k] = u
        BY <1>1, <4>1
      <4>3. QED
        BY <4>2
    <3>2. CASE Contains(t[1], u)
      <4>1. PICK k \in 1..q : t[1][k] = u
        BY <1>1, <1>21, <3>2 DEF Contains
      <4>2. p + k \in 1..M /\ ~(p + k <= p) /\ p + k - p = k
        BY <1>1
      <4>3. PICK j \in 1..M : j = p + k
        BY <4>2
      <4>4. f[j] = t[1][j - p]
        BY <4>2, <4>3
      <4>5. j - p = k
        <5> HIDE DEF p, q, M
        <5>1. p \in Nat /\ k \in Nat /\ j = p + k
          BY <1>1, <4>3
        <5>2. QED
          BY <5>1
      <4>6. f[j] = u
        BY <4>1, <4>4, <4>5, Zenon
      <4>7. QED
        BY <4>6
    <3>3. QED
      BY <2>2, <3>1, <3>2
  <2>6. f \in [1..M -> E]
    <3>1. \A k \in 1..M : f[k] \in E
      BY <2>2, <2>3
    <3>2. f = [k \in 1..M |-> f[k]]
      OBVIOUS
    <3> HIDE DEF f, E, M
    <3>3. QED
      BY <3>1, <3>2
  <2> HIDE DEF f, E, M
  <2>7. QED
    BY <2>4, <2>5, <2>6 DEF Bijection, Injection, Surjection, IsInjective
<1> HIDE DEF f
<1>4. n = M + 1
  <2> HIDE DEF E, M
  <2>1. ExistsBijection(1..M, E)
    BY <1>3 DEF ExistsBijection
  <2>2. Cardinality(E) = M
    BY <1>1, <2>1, FS_CountingElements
  <2>3. QED
    BY <2>2
<1>5. Walked(t) = {Head(it[k].current) : k \in {i \in 1..n : \A j \in 1..i : it[j].current # <<>>}}
  BY Zenon DEF Walked
<1> HIDE DEF M, n, E
<1>6. it = Step(it)
  <2> DEFINE w == [k \in 0..n |-> IF k <= M THEN StopAt(t, k) ELSE NextEntry(t, StopAt(t, M))]
  <2>1. ASSUME NEW k \in 0..n
        PROVE  w[k] = IF k = 0 THEN [next_index |-> 0, current |-> <<>>] ELSE NextEntry(t, w[k - 1])
    <3>1. CASE k = 0
      BY <1>1, <3>1 DEF StopAt, Stop
    <3>2. CASE k \in 1..M
      <4>1. k - 1 \in 0..n /\ k - 1 <= M /\ k <= M /\ k # 0
        BY <1>1, <1>4, <3>2
      <4>2. w[k] = StopAt(t, k) /\ w[k - 1] = StopAt(t, k - 1)
        BY <4>1
      <4> HIDE DEF w
      <4>3. QED
        BY <1>2, <3>2, <4>1, <4>2, Zenon
    <3>3. CASE k = M + 1
      <4>1. k - 1 \in 0..n /\ k - 1 = M /\ ~(k <= M) /\ k # 0 /\ M <= M
        BY <1>1, <1>4, <3>3
      <4>2. w[k] = NextEntry(t, StopAt(t, M)) /\ w[k - 1] = StopAt(t, M)
        BY <4>1
      <4> HIDE DEF w
      <4>3. QED
        BY <4>1, <4>2, Zenon
    <3>4. QED
      BY <1>1, <1>4, <3>1, <3>2, <3>3
  <2>2. w = [k \in 0..n |-> w[k]]
    OBVIOUS
  <2> HIDE DEF w
  <2>3. w = Step(w)
    BY <2>1, <2>2
  <2> HIDE DEF Step
  <2>4. QED
    BY <2>3, Zenon
<1> HIDE DEF it
<1>7. \A k \in 0..n : it[k] = IF k = 0 THEN [next_index |-> 0, current |-> <<>>] ELSE NextEntry(t, it[k - 1])
  BY <1>6
<1>8. \A k \in 0..M : it[k] = StopAt(t, k)
  <2> DEFINE S == {k \in 0..M : it[k] = StopAt(t, k)}
  <2>1. 0 \in S
    <3>1. 0 \in 0..M /\ 0 \in 0..n
      BY <1>1, <1>4
    <3>2. StopAt(t, 0) = [next_index |-> 0, current |-> <<>>]
      BY DEF StopAt, Stop
    <3>3. it[0] = StopAt(t, 0)
      BY <1>7, <3>1, <3>2
    <3>4. QED
      BY <3>1, <3>3
  <2>2. ASSUME NEW k \in 0..M, k \in S, k < M PROVE k + 1 \in S
    <3>1. k + 1 \in 1..M /\ k + 1 \in 0..n /\ k + 1 # 0 /\ (k + 1) - 1 = k
      BY <1>1, <1>4, <2>2
    <3>2. it[k + 1] = NextEntry(t, it[k])
      BY <1>7, <3>1
    <3>3. StopAt(t, k + 1) = NextEntry(t, StopAt(t, k))
      BY <1>2, <3>1
    <3>4. QED
      BY <2>2, <3>1, <3>2, <3>3
  <2> HIDE DEF S
  <2>3. \A k \in 0..M : k \in S
    BY <1>1, <2>1, <2>2, Steps
  <2>4. QED
    BY <2>3 DEF S
<1>9. it[M + 1].current = <<>>
  <2>1. M + 1 \in 0..n /\ M + 1 # 0 /\ (M + 1) - 1 = M /\ M \in 0..M
    BY <1>1, <1>4
  <2>2. it[M + 1] = NextEntry(t, StopAt(t, M))
    BY <1>7, <1>8, <2>1
  <2>3. QED
    BY <1>2, <2>2
<1>10. {i \in 1..n : \A j \in 1..i : it[j].current # <<>>} = 1..M
  <2>1. ASSUME NEW i \in 1..M PROVE i \in 1..n /\ \A j \in 1..i : it[j].current # <<>>
    <3>1. \A j \in 1..i : j \in 1..M /\ j \in 0..M
      BY <1>1
    <3>2. i \in 1..n
      BY <1>1, <1>4
    <3>3. QED
      BY <1>2, <1>8, <3>1, <3>2
  <2>2. ASSUME NEW i \in 1..n, i \notin 1..M PROVE M + 1 \in 1..i
    BY <1>1, <1>4, <2>2
  <2>3. QED
    BY <1>9, <2>1, <2>2
<1>11. \A k \in 1..M : Head(it[k].current) = f[k]
  <2>1. \A k \in 1..M : k \in 0..M
    BY <1>1
  <2>2. QED
    BY <1>2, <1>8, <2>1
<1>12. {Head(it[k].current) : k \in 1..M} = E
  <2>1. (\A k \in 1..M : f[k] \in E) /\ \A u \in E : \E k \in 1..M : f[k] = u
    BY <1>3 DEF Bijection, Injection, Surjection
  <2>2. QED
    BY <1>11, <2>1
<1>13. QED
  BY <1>5, <1>10, <1>12, EntriesAre DEF E

-----------------------------------------------------------------------------
(* What the daemon knows of the local users and their channels. A member   *)
(* is a local user and its channel is found; no bot is there before the    *)
(* first server.                                                           *)
LiveInv ==
  /\ LocalsOnce(localuserTable)
  /\ channelTable \in Tables(Chans)
  /\ chanlist \in SUBSET (locals \X Chans)
  /\ \A p \in chanlist : irc_FindChan(p[2])
  /\ ~already_loaded => BotsOfTable \intersect locals = {}

Knows(u) ==
  /\ u \in known <=> u \in locals
  /\ known_on \intersect PairsOf(u) = chanlist \intersect PairsOf(u)

DaemonInv ==
  /\ LiveInv
  /\ phase = "loading" => known = {} /\ known_on = {}
  /\ Listens => /\ known \subseteq locals /\ known_on \subseteq chanlist
                /\ \A u \in Locals : ~Contains(unread, Kill(u)) => Knows(u)

LEMMA DaemonShows == DaemonInv => DaemonFollows
BY DEF DaemonInv, DaemonFollows, Knows

LEMMA LocalsAre == locals = UsersIn(localuserTable)
BY DEF locals, UsersIn, irc_FindLocalUser

LEMMA DaemonInit == MainInit => DaemonInv
<1>1. SUFFICES ASSUME MainInit PROVE DaemonInv
  OBVIOUS
<1>2. /\ phase = "loading" /\ chanlist = {} /\ known = {} /\ known_on = {}
      /\ localuserTable = [b \in {0, 1} |-> <<>>] /\ channelTable = [b \in {0, 1} |-> <<>>]
  BY <1>1 DEF MainInit, ConnectionInit, EmptyTable
<1>3. \A X : [b \in {0, 1} |-> <<>>] \in Tables(X)
  BY DEF Tables
<1>4. Unique(<<>>) /\ \A u : ~Contains(<<>>, u)
  BY DEF Unique, Contains
<1>5. LocalsOnce(localuserTable) /\ channelTable \in Tables(Chans)
  BY <1>2, <1>3, <1>4 DEF LocalsOnce
<1>6. locals = {}
  BY <1>2, <1>4, BucketType DEF locals, irc_FindLocalUser, FoundIn
<1>7. ~Listens
  BY <1>2 DEF Listens, Connected
<1>8. QED
  BY <1>2, <1>5, <1>6, <1>7 DEF DaemonInv, LiveInv

(* Steps of the rest of the connection                                     *)
LEMMA LiveKept ==
  ASSUME LiveInv, UNCHANGED <<livevars, already_loaded, features>>
  PROVE  LiveInv' /\ locals' = locals
<1>1. /\ localuserTable' = localuserTable /\ channelTable' = channelTable /\ chanlist' = chanlist
      /\ firsts' = firsts /\ already_loaded' = already_loaded /\ features' = features
  BY DEF livevars
<1>2. (\A x : Bucket(x)' = Bucket(x)) /\ BotsOfTable' = BotsOfTable
  BY <1>1 DEF Bucket, BotsOfTable
<1>3. locals' = locals /\ \A c : irc_FindChan(c)' = irc_FindChan(c)
  BY <1>1, <1>2 DEF locals, irc_FindLocalUser, irc_FindChan
<1>4. LocalsOnce(localuserTable)'
  BY <1>1, <1>2 DEF LiveInv, LocalsOnce
<1>5. QED
  BY <1>1, <1>2, <1>3, <1>4 DEF LiveInv

LEMMA DaemonKept ==
  ASSUME DaemonInv, UNCHANGED <<livevars, daemonvars, already_loaded, features>>,
         unread' = unread, Listens' => Listens, phase' = "loading" => phase = "loading"
  PROVE  DaemonInv'
<1>1. LiveInv' /\ locals' = locals
  BY LiveKept DEF DaemonInv
<1>2. /\ chanlist' = chanlist /\ known' = known /\ known_on' = known_on
  BY DEF livevars, daemonvars
<1>3. \A u : Knows(u)' = Knows(u) /\ Kill(u)' = Kill(u) /\ PairsOf(u)' = PairsOf(u)
  BY <1>1, <1>2 DEF Knows, Kill, PairsOf
<1>4. QED
  BY <1>1, <1>2, <1>3 DEF DaemonInv

(* While nothing moves to another bucket                                   *)
LEMMA SameBuckets ==
  ASSUME firsts' = firsts
  PROVE  /\ LocalsOnce(localuserTable') => LocalsOnce(localuserTable)'
         /\ locals' = UsersIn(localuserTable')
         /\ \A c : irc_FindChan(c)' <=> HasChan(channelTable', c)
<1>1. \A x : Bucket(x)' = Bucket(x)
  BY DEF Bucket
<1>2. QED
  BY <1>1 DEF LocalsOnce, locals, irc_FindLocalUser, irc_FindChan, UsersIn, HasChan

LEMMA ChansAre == \A c : irc_FindChan(c) <=> HasChan(channelTable, c)
BY DEF irc_FindChan, HasChan

LEMMA SamePairs == \A u : PairsOf(u)' = PairsOf(u) /\ Kill(u)' = Kill(u)
BY DEF PairsOf, Kill

(* A channel goes when its last member does, and no other.                 *)
LEMMA LeftFacts ==
  ASSUME LiveInv, NEW pairs, Left(pairs), firsts' = firsts
  PROVE  /\ channelTable' \in Tables(Chans) /\ chanlist' = chanlist \ pairs
         /\ \A p \in chanlist' : irc_FindChan(p[2])'
<1> DEFINE D == {c \in Chans : irc_FindChan(c) /\ \A p \in chanlist' : p[2] # c}
<1>1. /\ chanlist' = chanlist \ pairs
      /\ channelTable' = FoldSet(LAMBDA c, x : DeletedFrom(x, Bucket(c), c), channelTable, D)
  BY Zenon DEF Left
<1>2. channelTable \in Tables(Chans)
  BY DEF LiveInv
<1>3. IsFiniteSet(D)
  <2> DEFINE R(b) == {channelTable[b][i] : i \in 1..Len(channelTable[b])}
  <2>1. IsFiniteSet(R(0)) /\ IsFiniteSet(R(1))
    <3>1. Len(channelTable[0]) \in Nat /\ Len(channelTable[1]) \in Nat
      BY <1>2 DEF Tables
    <3>2. IsFiniteSet(1..Len(channelTable[0])) /\ IsFiniteSet(1..Len(channelTable[1]))
      <4>1. \A n \in Nat : IsFiniteSet(1..n)
        BY FS_Interval
      <4>2. QED
        BY <3>1, <4>1, Zenon
    <3>3. QED
      BY <3>2, ImageFinite
  <2>2. D \in SUBSET (R(0) \union R(1))
    <3>1. ASSUME NEW c \in D PROVE c \in R(0) \union R(1)
      <4>1. Contains(channelTable[Bucket(c)], c) /\ Bucket(c) \in {0, 1}
        BY BucketType DEF irc_FindChan, FoundIn
      <4>2. QED
        BY <4>1 DEF Contains
    <3> HIDE DEF D, R
    <3>2. QED
      BY <3>1
  <2> HIDE DEF R, D
  <2>3. QED
    BY <2>1, <2>2, FS_Union, FS_Subset
<1>4. /\ channelTable' \in Tables(Chans)
      /\ \A d : d \notin D /\ HasChan(channelTable, d) => HasChan(channelTable', d)
  <2> HIDE DEF D
  <2>1. QED
    BY <1>1, <1>2, <1>3, ChansDeleted, Zenon
<1>5. ASSUME NEW p \in chanlist' PROVE irc_FindChan(p[2])'
  <2>1. p \in chanlist /\ irc_FindChan(p[2]) /\ p[2] \notin D
    BY <1>1, <1>5 DEF LiveInv
  <2> HIDE DEF D
  <2>2. QED
    BY <1>4, <2>1, ChansAre, SameBuckets
<1>6. QED
  BY <1>1, <1>4, <1>5

LEMMA CreateDaemon ==
  ASSUME DaemonInv, NEW u \in Locals, CreateLocal(u),
         UNCHANGED <<phase, wirevars, firsts, already_loaded, features>>
  PROVE  DaemonInv'
<1>1. LiveInv /\ u \notin locals /\ firsts' = firsts /\ unread' = unread /\ closed' = closed /\ phase' = phase
  BY DEF DaemonInv, CreateLocal, locals, wirevars
<1>2. /\ localuserTable' = AddedTo(localuserTable, Bucket(u), u)
      /\ channelTable' = channelTable /\ chanlist' = chanlist
      /\ u \in BotsOfTable => already_loaded
  BY DEF CreateLocal
<1>3. LocalsOnce(localuserTable) /\ u \in Locals \ UsersIn(localuserTable)
  BY <1>1, LocalsAre DEF LiveInv
<1>4. LocalsOnce(localuserTable') /\ UsersIn(localuserTable') = locals \union {u}
  BY <1>2, <1>3, LocalAdded, LocalsAre
<1>5. LocalsOnce(localuserTable)' /\ locals' = locals \union {u}
      /\ \A c : irc_FindChan(c)' <=> irc_FindChan(c)
  <2>1. LocalsOnce(localuserTable)' /\ locals' = locals \union {u}
    BY <1>1, <1>4, SameBuckets
  <2>2. \A c : irc_FindChan(c)' <=> irc_FindChan(c)
    BY <1>1, <1>2, SameBuckets, ChansAre
  <2>3. QED
    BY <2>1, <2>2
<1>6. LiveInv'
  <2>1. BotsOfTable' = BotsOfTable
    BY DEF BotsOfTable
  <2>2. QED
    BY <1>1, <1>2, <1>5, <2>1 DEF LiveInv
<1>7. Listens' = Listens
  BY <1>1 DEF Listens, Connected
<1>8. CASE Listens
  <2>1. NJoins({u}, chanlist) = {}
    BY <1>1 DEF NJoins, LiveInv
  <2>2. known' = known \union {u} /\ known_on' = known_on
    BY <1>8, <2>1 DEF CreateLocal, Introduced
  <2>3. known \subseteq locals /\ known_on \subseteq chanlist
    BY <1>8 DEF DaemonInv
  <2>4. ASSUME NEW v \in Locals, ~Contains(unread, Kill(v)) PROVE Knows(v)'
    <3>1. Knows(v)
      BY <1>8, <2>4 DEF DaemonInv
    <3>2. QED
      BY <1>2, <1>5, <2>2, <3>1, SamePairs DEF Knows
  <2>5. phase # "loading"
    BY <1>8 DEF Listens, Connected
  <2>6. QED
    BY <1>1, <1>2, <1>5, <1>6, <1>7, <2>2, <2>3, <2>4, <2>5, SamePairs DEF DaemonInv
<1>9. CASE ~Listens
  <2>1. known' = known /\ known_on' = known_on
    BY <1>9 DEF CreateLocal, daemonvars
  <2>2. QED
    BY <1>1, <1>6, <1>7, <1>9, <2>1 DEF DaemonInv
<1>10. QED
  BY <1>8, <1>9

LEMMA MembersFacts ==
  ASSUME LiveInv, NEW U \in SUBSET Locals, NEW c \in Chans,
         chanlist' = MembersWith(U, c), channelTable' = ChannelsWith(c), firsts' = firsts
  PROVE  /\ chanlist' = chanlist \union (U \X {c})
         /\ channelTable' \in Tables(Chans)
         /\ \A p \in chanlist' : irc_FindChan(p[2])'
<1>1. chanlist' = chanlist \union (U \X {c})
  BY DEF LiveInv, MembersWith
<1>2. /\ channelTable' \in Tables(Chans) /\ HasChan(channelTable', c)
      /\ \A d : HasChan(channelTable, d) => HasChan(channelTable', d)
  <2>1. channelTable \in Tables(Chans)
    BY DEF LiveInv
  <2>2. CASE irc_FindChan(c)
    BY <2>1, <2>2, ChansAre DEF ChannelsWith
  <2>3. CASE ~irc_FindChan(c)
    <3>1. channelTable' = AddedTo(channelTable, Bucket(c), c)
      BY <2>3 DEF ChannelsWith
    <3>2. QED
      BY <2>1, <3>1, ChanAdded
  <2>4. QED
    BY <2>2, <2>3
<1>3. ASSUME NEW p \in chanlist' PROVE irc_FindChan(p[2])'
  <2>1. HasChan(channelTable, p[2]) \/ p[2] = c
    BY <1>1, <1>3, ChansAre DEF LiveInv
  <2>2. QED
    BY <1>2, <2>1, SameBuckets
<1>4. QED
  BY <1>1, <1>2, <1>3

LEMMA LiveStep ==
  ASSUME LiveInv, LocalsOnce(localuserTable'), channelTable' \in Tables(Chans),
         chanlist' \in SUBSET (locals' \X Chans), \A p \in chanlist' : irc_FindChan(p[2])',
         ~already_loaded' => BotsOfTable \intersect locals' = {},
         firsts' = firsts, features' = features
  PROVE  LiveInv'
<1>1. LocalsOnce(localuserTable)' /\ BotsOfTable' = BotsOfTable
  BY SameBuckets DEF BotsOfTable
<1>2. QED
  BY <1>1 DEF LiveInv

LEMMA JoinDaemon ==
  ASSUME DaemonInv, NEW u \in Locals, NEW c \in Chans, JoinLocal(u, c),
         UNCHANGED <<phase, wirevars, firsts, already_loaded, features>>
  PROVE  DaemonInv'
<1>1. LiveInv /\ u \in locals /\ firsts' = firsts /\ unread' = unread /\ closed' = closed /\ phase' = phase
  BY DEF DaemonInv, JoinLocal, locals, wirevars
<1>2. localuserTable' = localuserTable /\ known' = known
      /\ chanlist' = MembersWith({u}, c) /\ channelTable' = ChannelsWith(c)
      /\ known_on' = IF Listens /\ u \in known THEN known_on \union {<<u, c>>} ELSE known_on
  BY DEF JoinLocal
<1>3. /\ chanlist' = chanlist \union {<<u, c>>}
      /\ channelTable' \in Tables(Chans)
      /\ \A p \in chanlist' : irc_FindChan(p[2])'
  BY <1>1, <1>2, MembersFacts
<1>4. locals' = locals
  BY <1>1, <1>2, SameBuckets, LocalsAre
<1>5. LiveInv'
  <2>1. LocalsOnce(localuserTable') /\ chanlist' \in SUBSET (locals' \X Chans)
        /\ (~already_loaded' => BotsOfTable \intersect locals' = {})
    BY <1>1, <1>2, <1>3, <1>4 DEF LiveInv
  <2>2. QED
    BY <1>1, <1>3, <2>1, LiveStep
<1>6. Listens' = Listens
  BY <1>1 DEF Listens, Connected
<1>7. CASE Listens
  <2>1. known \subseteq locals /\ known_on \subseteq chanlist
    BY <1>7 DEF DaemonInv
  <2>2. ASSUME NEW v \in Locals, ~Contains(unread, Kill(v)) PROVE Knows(v)'
    <3>1. Knows(v)
      BY <1>7, <2>2 DEF DaemonInv
    <3>2. CASE v = u
      BY <1>1, <1>2, <1>3, <1>4, <1>7, <3>1, <3>2, SamePairs DEF Knows
    <3>3. CASE v # u
      <4>1. <<u, c>> \notin PairsOf(v)
        BY <3>3 DEF PairsOf
      <4>2. QED
        BY <1>2, <1>3, <1>4, <3>1, <4>1, SamePairs DEF Knows
    <3>4. QED
      BY <3>2, <3>3
  <2>3. known' \subseteq locals' /\ known_on' \subseteq chanlist'
    BY <1>2, <1>3, <1>4, <2>1
  <2>4. phase # "loading"
    BY <1>7 DEF Listens, Connected
  <2>5. QED
    BY <1>1, <1>5, <1>6, <2>2, <2>3, <2>4, SamePairs DEF DaemonInv
<1>8. CASE ~Listens
  BY <1>1, <1>2, <1>5, <1>6, <1>8 DEF DaemonInv
<1>9. QED
  BY <1>7, <1>8

LEMMA PartDaemon ==
  ASSUME DaemonInv, NEW u \in Locals, NEW c \in Chans, PartLocal(u, c),
         UNCHANGED <<phase, wirevars, firsts, already_loaded, features>>
  PROVE  DaemonInv'
<1>1. LiveInv /\ firsts' = firsts /\ unread' = unread /\ closed' = closed /\ phase' = phase
  BY DEF DaemonInv, PartLocal, wirevars
<1>2. localuserTable' = localuserTable /\ known' = known /\ Left({<<u, c>>})
      /\ known_on' = IF Listens THEN known_on \ {<<u, c>>} ELSE known_on
  BY DEF PartLocal
<1>3. /\ chanlist' = chanlist \ {<<u, c>>}
      /\ channelTable' \in Tables(Chans)
      /\ \A p \in chanlist' : irc_FindChan(p[2])'
  BY <1>1, <1>2, LeftFacts
<1>4. locals' = locals
  BY <1>1, <1>2, SameBuckets, LocalsAre
<1>5. LiveInv'
  <2>1. LocalsOnce(localuserTable') /\ chanlist' \in SUBSET (locals' \X Chans)
        /\ (~already_loaded' => BotsOfTable \intersect locals' = {})
    BY <1>1, <1>2, <1>3, <1>4 DEF LiveInv
  <2>2. QED
    BY <1>1, <1>3, <2>1, LiveStep
<1>6. Listens' = Listens
  BY <1>1 DEF Listens, Connected
<1>7. CASE Listens
  <2>1. known \subseteq locals /\ known_on \subseteq chanlist
    BY <1>7 DEF DaemonInv
  <2>2. ASSUME NEW v \in Locals, ~Contains(unread, Kill(v)) PROVE Knows(v)'
    <3>1. Knows(v)
      BY <1>7, <2>2 DEF DaemonInv
    <3>2. QED
      BY <1>2, <1>3, <1>4, <1>7, <3>1, SamePairs DEF Knows
  <2>3. known' \subseteq locals' /\ known_on' \subseteq chanlist'
    BY <1>2, <1>3, <1>4, <1>7, <2>1
  <2>4. phase # "loading"
    BY <1>7 DEF Listens, Connected
  <2>5. QED
    BY <1>1, <1>5, <1>6, <2>2, <2>3, <2>4, SamePairs DEF DaemonInv
<1>8. CASE ~Listens
  BY <1>1, <1>2, <1>5, <1>6, <1>8 DEF DaemonInv
<1>9. QED
  BY <1>7, <1>8

LEMMA QuitDaemon ==
  ASSUME DaemonInv, NEW u \in Locals, QuitLocal(u),
         UNCHANGED <<phase, wirevars, firsts, already_loaded, features>>
  PROVE  DaemonInv'
<1>1. LiveInv /\ firsts' = firsts /\ unread' = unread /\ closed' = closed /\ phase' = phase
      /\ phase # "loading"
  BY DEF DaemonInv, QuitLocal, wirevars
<1>2. /\ localuserTable' = DeletedFrom(localuserTable, Bucket(u), u) /\ Left(PairsOf(u))
      /\ IF Listens THEN known' = known \ {u} /\ known_on' = known_on \ PairsOf(u)
         ELSE known' = known /\ known_on' = known_on
  BY DEF QuitLocal, daemonvars
<1>3. /\ chanlist' = chanlist \ PairsOf(u)
      /\ channelTable' \in Tables(Chans)
      /\ \A p \in chanlist' : irc_FindChan(p[2])'
  BY <1>1, <1>2, LeftFacts
<1>4. LocalsOnce(localuserTable') /\ locals' = locals \ {u}
  <2>1. LocalsOnce(localuserTable') /\ UsersIn(localuserTable') = UsersIn(localuserTable) \ {u}
    BY <1>1, <1>2, LocalDeleted DEF LiveInv
  <2>2. QED
    BY <1>1, <2>1, SameBuckets, LocalsAre
<1>5. LiveInv'
  <2>1. chanlist' \in SUBSET (locals' \X Chans)
    BY <1>1, <1>3, <1>4 DEF LiveInv, PairsOf, locals
  <2>2. ~already_loaded' => BotsOfTable \intersect locals' = {}
    BY <1>1, <1>4 DEF LiveInv
  <2>3. QED
    BY <1>1, <1>3, <1>4, <2>1, <2>2, LiveStep
<1>6. Listens' = Listens
  BY <1>1 DEF Listens, Connected
<1>7. CASE Listens
  <2>1. known \subseteq locals /\ known_on \subseteq chanlist
    BY <1>7 DEF DaemonInv
  <2>2. ASSUME NEW v \in Locals, ~Contains(unread, Kill(v)) PROVE Knows(v)'
    <3>1. Knows(v)
      BY <1>7, <2>2 DEF DaemonInv
    <3>2. QED
      BY <1>2, <1>3, <1>4, <1>7, <3>1, SamePairs DEF Knows
  <2>3. known' \subseteq locals' /\ known_on' \subseteq chanlist'
    BY <1>2, <1>3, <1>4, <1>7, <2>1
  <2>4. QED
    BY <1>1, <1>5, <1>6, <2>2, <2>3, SamePairs DEF DaemonInv
<1>8. CASE ~Listens
  BY <1>1, <1>2, <1>5, <1>6, <1>8 DEF DaemonInv
<1>9. QED
  BY <1>7, <1>8

LEMMA SentContains ==
  ASSUME WireInv, NEW l \in Lines, Sends(l), NEW x, ~Contains(unread', x)
  PROVE  ~Contains(unread, x) /\ l # x
<1>1. unread \in Seq(Lines) /\ unread' = Append(unread, l)
  BY DEF WireInv, Stands, Sends
<1>2. /\ Len(unread) \in Nat /\ Len(unread') = Len(unread) + 1
      /\ unread'[Len(unread) + 1] = l
      /\ \A i \in 1..Len(unread) : unread'[i] = unread[i]
  BY <1>1, AppendProperties
<1>3. (\A i \in 1..Len(unread) : i \in 1..Len(unread')) /\ Len(unread) + 1 \in 1..Len(unread')
  BY <1>2
<1>4. QED
  BY <1>2, <1>3 DEF Contains

LEMMA DaemonSendsDaemon ==
  ASSUME DaemonInv, WireInv, NEW l \in Lines, Sends(l),
         \/ known' = known /\ known_on' = known_on
         \/ \E u \in Locals : l = Kill(u) /\ known' = known \ {u} /\ known_on' = known_on \ PairsOf(u)
  PROVE  DaemonInv'
<1>1. /\ Listens /\ phase' = phase /\ closed' = closed
      /\ UNCHANGED livevars /\ UNCHANGED already_loaded /\ UNCHANGED features
  BY DEF Sends
<1>2. LiveInv' /\ locals' = locals /\ chanlist' = chanlist
  BY <1>1, LiveKept DEF DaemonInv, livevars
<1>3. phase # "loading"
  BY <1>1 DEF Listens, Connected
<1>4. known \subseteq locals /\ known_on \subseteq chanlist
  BY <1>1 DEF DaemonInv
<1>5. ASSUME NEW v \in Locals, ~Contains(unread', Kill(v)) PROVE Knows(v)'
  <2>1. ~Contains(unread, Kill(v)) /\ l # Kill(v)
    BY <1>5, SentContains
  <2>2. Knows(v)
    BY <1>1, <2>1 DEF DaemonInv
  <2>3. CASE known' = known /\ known_on' = known_on
    BY <1>2, <2>2, <2>3, SamePairs DEF Knows
  <2>4. CASE \E u \in Locals : l = Kill(u) /\ known' = known \ {u} /\ known_on' = known_on \ PairsOf(u)
    <3>1. PICK u \in Locals : l = Kill(u) /\ known' = known \ {u} /\ known_on' = known_on \ PairsOf(u)
      BY <2>4
    <3>2. u # v
      BY <2>1, <3>1
    <3>3. PairsOf(u) \intersect PairsOf(v) = {}
      BY <3>2 DEF PairsOf
    <3>4. QED
      BY <1>2, <2>2, <3>1, <3>2, <3>3, SamePairs DEF Knows
  <2>5. QED
    BY <2>3, <2>4
<1>6. known' \subseteq locals' /\ known_on' \subseteq chanlist'
  BY <1>2, <1>4
<1>7. QED
  BY <1>1, <1>2, <1>3, <1>5, <1>6, SamePairs DEF DaemonInv

LEMMA ConnectsDaemon ==
  ASSUME DaemonInv, Connects
  PROVE  DaemonInv'
<1>1. /\ phase = "loading" /\ phase' = "netjoin"
      /\ UNCHANGED livevars /\ UNCHANGED already_loaded /\ UNCHANGED features
      /\ Introduced(Walked(localuserTable), chanlist)
  BY DEF Connects, Starts
<1>2. LiveInv /\ known = {} /\ known_on = {}
  BY <1>1 DEF DaemonInv
<1>3. LiveInv' /\ locals' = locals /\ chanlist' = chanlist
  BY <1>1, <1>2, LiveKept DEF livevars
<1>4. Walked(localuserTable) = locals
  BY <1>2, WalkedAll, LocalsAre DEF LiveInv
<1>5. known' = locals /\ known_on' = chanlist
  <2>1. NJoins(locals, chanlist) = chanlist
    BY <1>2 DEF NJoins, LiveInv
  <2>2. QED
    BY <1>1, <1>2, <1>4, <2>1 DEF Introduced
<1>6. \A v : Knows(v)'
  BY <1>3, <1>5, SamePairs DEF Knows
<1>7. QED
  BY <1>1, <1>3, <1>5, <1>6 DEF DaemonInv

LEMMA ReadsDaemon ==
  ASSUME DaemonInv, WireInv, Connected, NEW k \in MayRead, Reads(k)
  PROVE  DaemonInv'
<1> DEFINE lines == LinesIn(buffer \o SubSeq(stream, 1, k))
<1>1. PICK n \in 0..Len(unread) :
        lines = SubSeq(unread, 1, n) /\ unread' = SubSeq(unread, n + 1, Len(unread))
  BY ReadsLines
<1>2. Parsed(lines) /\ closed' = closed /\ firsts' = firsts /\ features' = features
  BY DEF Reads
<1> HIDE DEF lines
<1>3. ASSUME NEW x, Contains(unread, x) PROVE Contains(lines, x) \/ Contains(unread', x)
  <2>1. unread \in Seq(Lines) /\ Len(unread) \in Nat
    BY DEF WireInv, Stands
  <2>2. PICK i \in 1..Len(unread) : unread[i] = x
    BY <1>3 DEF Contains
  <2>3. n \in Int /\ n + 1 \in Int /\ Len(unread) \in Int
        /\ (\A j \in 1..n : unread[j] \in Lines) /\ (\A j \in n + 1..Len(unread) : unread[j] \in Lines)
    BY <2>1
  <2>4. CASE i <= n
    <3>1. /\ Len(lines) = IF 1 <= n THEN n - 1 + 1 ELSE 0
          /\ \A j \in 1..n - 1 + 1 : lines[j] = unread[1 + j - 1]
      BY <1>1, <2>3, SubSeqProperties
    <3>2. i \in 1..n - 1 + 1 /\ 1 + i - 1 = i /\ 1 <= n /\ n - 1 + 1 = n /\ i \in 1..n
      BY <2>3, <2>4
    <3>3. lines[i] = x /\ i \in 1..Len(lines)
      BY <2>2, <3>1, <3>2
    <3>4. QED
      BY <3>3 DEF Contains
  <2>5. CASE ~(i <= n)
    <3> DEFINE w == unread'
               d == i - n
    <3>1. /\ Len(w) = IF n + 1 <= Len(unread) THEN Len(unread) - (n + 1) + 1 ELSE 0
          /\ \A j \in 1..Len(unread) - (n + 1) + 1 : w[j] = unread[n + 1 + j - 1]
      BY <1>1, <2>3, SubSeqProperties
    <3>2. /\ d \in 1..Len(unread) - (n + 1) + 1 /\ n + 1 + d - 1 = i /\ n + 1 <= Len(unread)
      BY <2>1, <2>3, <2>5
    <3> HIDE DEF w, d
    <3>3. w[d] = x /\ d \in 1..Len(w)
      BY <2>2, <3>1, <3>2
    <3>4. QED
      BY <3>3 DEF Contains, w
  <2>6. QED
    BY <2>4, <2>5
<1>4. LiveInv /\ (Listens' => ~closed /\ Listens) /\ phase # "loading" /\ phase' # "loading"
  BY <1>2 DEF DaemonInv, Listens, Connected, Parsed
<1> DEFINE F == IF FirstServer(lines) THEN BotsOfTable ELSE {}
<1>5. /\ BotsOfTable \in SUBSET Locals /\ IsFiniteSet(BotsOfTable) /\ BotChan \in Chans
  BY ConnectionAssumption, FS_EmptySet DEF BotsOfTable
<1>6. /\ LiveInv' /\ locals' = locals \union F /\ chanlist' = chanlist \union (F \X {BotChan})
  <2>1. CASE FirstServer(lines)
    <3>1. /\ ~already_loaded /\ localuserTable' = BotsLoaded
          /\ chanlist' = MembersWith(BotsOfTable, BotChan) /\ channelTable' = ChannelsWith(BotChan)
          /\ already_loaded'
      BY <1>2, <2>1 DEF Parsed, FirstServer
    <3>2. BotsOfTable \in SUBSET (Locals \ UsersIn(localuserTable)) /\ LocalsOnce(localuserTable)
      BY <1>4, <1>5, <3>1, LocalsAre DEF LiveInv
    <3>3. LocalsOnce(localuserTable') /\ UsersIn(localuserTable') = UsersIn(localuserTable) \union BotsOfTable
      BY <1>5, <3>1, <3>2, AllAdded, Zenon DEF BotsLoaded
    <3>4. /\ chanlist' = chanlist \union (BotsOfTable \X {BotChan})
          /\ channelTable' \in Tables(Chans)
          /\ \A p \in chanlist' : irc_FindChan(p[2])'
      BY <1>2, <1>4, <1>5, <3>1, MembersFacts
    <3>5. locals' = locals \union BotsOfTable
      BY <1>2, <3>3, SameBuckets, LocalsAre
    <3>6. chanlist' \in SUBSET (locals' \X Chans)
      BY <1>4, <1>5, <3>4, <3>5 DEF LiveInv
    <3>7. LiveInv'
      BY <1>2, <1>4, <3>1, <3>3, <3>4, <3>6, LiveStep
    <3>8. QED
      BY <2>1, <3>4, <3>5, <3>7
  <2>2. CASE ~FirstServer(lines)
    <3>1. /\ UNCHANGED <<localuserTable, channelTable, chanlist>>
          /\ already_loaded' <=> already_loaded
      BY <1>2, <2>2 DEF Parsed
    <3>2. /\ LocalsOnce(localuserTable') /\ locals' = locals
          /\ \A c : irc_FindChan(c)' <=> irc_FindChan(c)
      BY <1>2, <1>4, <3>1, SameBuckets, LocalsAre, ChansAre DEF LiveInv
    <3>3. LiveInv'
      BY <1>2, <1>4, <3>1, <3>2, LiveStep DEF LiveInv
    <3>4. QED
      BY <2>2, <3>1, <3>2, <3>3
  <2>3. QED
    BY <2>1, <2>2
<1>7. ASSUME Listens'
      PROVE  /\ known' \subseteq locals' /\ known_on' \subseteq chanlist'
             /\ \A v \in Locals : ~Contains(unread', Kill(v)) => Knows(v)'
  <2>1. /\ known \subseteq locals /\ known_on \subseteq chanlist
        /\ \A v \in Locals : ~Contains(unread, Kill(v)) => Knows(v)
    BY <1>4, <1>7 DEF DaemonInv
  <2>2. Introduced(F \union Killed(lines), chanlist')
    BY <1>2, <1>4, <1>7 DEF Parsed
  <2> DEFINE U == F \union Killed(lines)
  <2>3. known' = known \union U /\ known_on' = known_on \union {p \in chanlist' : p[1] \in U}
    BY <2>2 DEF Introduced, NJoins
  <2>4. U \subseteq locals' /\ chanlist \in SUBSET (locals \X Chans)
    BY <1>4, <1>6 DEF Killed, LiveInv
  <2>5. ASSUME NEW v \in Locals, ~Contains(unread', Kill(v)) PROVE Knows(v)'
    <3>1. CASE v \in U
      BY <1>6, <2>1, <2>3, <2>4, <3>1, SamePairs DEF Knows, PairsOf
    <3>2. CASE v \notin U
      <4>1. locals' \intersect {v} = locals \intersect {v}
        BY <1>6, <3>2
      <4>2. chanlist' \intersect PairsOf(v) = chanlist \intersect PairsOf(v)
        BY <1>6, <3>2 DEF PairsOf
      <4>3. known' \intersect {v} = known \intersect {v} /\ known_on' \intersect PairsOf(v) = known_on \intersect PairsOf(v)
        BY <2>3, <3>2 DEF PairsOf
      <4>4. Knows(v)
        <5>1. CASE Contains(unread, Kill(v))
          <6>1. Contains(lines, Kill(v)) /\ v \notin locals
            BY <1>3, <2>5, <3>2, <5>1 DEF Killed
          <6>2. chanlist \intersect PairsOf(v) = {}
            BY <2>4, <6>1 DEF PairsOf
          <6>3. QED
            BY <2>1, <6>1, <6>2 DEF Knows
        <5>2. CASE ~Contains(unread, Kill(v))
          BY <2>1, <5>2
        <5>3. QED
          BY <5>1, <5>2
      <4>5. QED
        BY <4>1, <4>2, <4>3, <4>4, SamePairs DEF Knows
    <3>3. QED
      BY <3>1, <3>2
  <2>6. known' \subseteq locals' /\ known_on' \subseteq chanlist'
    BY <1>6, <2>1, <2>3, <2>4
  <2>7. QED
    BY <2>5, <2>6
<1>8. QED
  BY <1>4, <1>6, <1>7, SamePairs DEF DaemonInv

LEMMA DaemonInvStep ==
  ASSUME DaemonInv, WireInv, [MainNext]_mainvars
  PROVE  DaemonInv'
<1>1. CASE Startup
  <2>1. CASE Connects
    BY <2>1, ConnectsDaemon
  <2>2. CASE ~Connects
    <3>1. /\ UNCHANGED <<livevars, daemonvars, already_loaded, features>> /\ unread' = unread
          /\ closed' = closed /\ phase = "loading" /\ phase' \in {"loading", "ended"}
      BY <1>1, <2>2 DEF Startup, ConnectFails, Ends, connvars, wirevars
    <3>2. Listens' => Listens
      BY <3>1 DEF Listens, Connected
    <3>3. QED
      BY <3>1, <3>2, DaemonKept
  <2>3. QED
    BY <2>1, <2>2
<1>2. CASE TimersTurn \/ Handlers \/ Clock \/ UNCHANGED mainvars
  <2>1. /\ UNCHANGED <<livevars, daemonvars, already_loaded, features>>
        /\ unread' = unread /\ closed' = closed /\ phase' = phase
    BY <1>2 DEF TimersTurn, Handlers, Clock, mainvars, connvars, wirevars
  <2>2. Listens' => Listens
    BY <2>1 DEF Listens, Connected
  <2>3. QED
    BY <2>1, <2>2, DaemonKept
<1>3. CASE BufferTurn
  <2>1. CASE \E k \in MayRead : Reads(k)
    BY <1>3, <2>1, ReadsDaemon DEF BufferTurn
  <2>2. CASE Ends \/ NothingRead
    <3>1. /\ UNCHANGED <<livevars, daemonvars, already_loaded, features>>
          /\ unread' = unread /\ closed' = closed /\ phase' \in {phase, "ended"}
      BY <2>2 DEF Ends, NothingRead, connvars, wirevars
    <3>2. (Listens' => Listens) /\ (phase' = "loading" => phase = "loading")
      BY <3>1 DEF Listens, Connected
    <3>3. QED
      BY <3>1, <3>2, DaemonKept
  <2>3. QED
    BY <1>3, <2>1, <2>2 DEF BufferTurn, CheckBuffer
<1>4. CASE Network
  <2>1. CASE SlineStep \/ Sigpipe \/ DaemonCloses
    <3>1. /\ UNCHANGED <<livevars, daemonvars, already_loaded, features>>
          /\ unread' = unread /\ (closed' = closed \/ closed') /\ phase' \in {phase, "ended"}
      BY <2>1 DEF SlineStep, Sigpipe, Ends, DaemonCloses, wirevars
    <3>2. (Listens' => Listens) /\ (phase' = "loading" => phase = "loading")
      BY <3>1 DEF Listens, Connected
    <3>3. QED
      BY <3>1, <3>2, DaemonKept
  <2>2. CASE LocalStep
    <3>1. UNCHANGED <<phase, wirevars, firsts, already_loaded, features>>
      BY <2>2 DEF LocalStep
    <3>2. PICK u \in Locals : CreateLocal(u) \/ QuitLocal(u) \/ \E c \in Chans : JoinLocal(u, c) \/ PartLocal(u, c)
      BY <2>2 DEF LocalStep
    <3>3. QED
      BY <3>1, <3>2, CreateDaemon, QuitDaemon, JoinDaemon, PartDaemon
  <2>3. CASE DaemonSends
    <3>1. PICK l \in Lines : Sends(l)
      BY <2>3 DEF DaemonSends, Lines
    <3>2. known' = known /\ known_on' = known_on
      BY <2>3 DEF DaemonSends, daemonvars
    <3>3. QED
      BY <3>1, <3>2, DaemonSendsDaemon
  <2>4. CASE \E u \in Locals : DaemonKills(u)
    <3>1. PICK u \in Locals : DaemonKills(u)
      BY <2>4
    <3>2. Kill(u) \in Lines /\ Sends(Kill(u))
      BY <3>1 DEF DaemonKills, Lines
    <3>3. known' = known \ {u} /\ known_on' = known_on \ PairsOf(u)
      BY <3>1 DEF DaemonKills
    <3>4. QED
      BY <3>2, <3>3, DaemonSendsDaemon
  <2>5. QED
    BY <1>4, <2>1, <2>2, <2>3, <2>4 DEF Network, DaemonStep
<1>5. QED
  BY <1>1, <1>2, <1>3, <1>4 DEF MainNext

(* initconn.c:160 "lets introduce our local clients": what the daemon knows *)
(* of the local users and of the channels they are on is what there is,     *)
(* whenever they came, joined, parted or were dropped before or after the   *)
(* connection, except for a user whose KILL is not read yet, for any        *)
(* number of users and channels and any bucket they fall in.                *)
THEOREM DaemonAlwaysFollows == MainSpec => []DaemonFollows
<1> DEFINE Both == DaemonInv /\ WireInv
<1>1. MainInit => Both
  BY DaemonInit, WireInit
<1>2. Both /\ [MainNext]_mainvars => Both'
  BY DaemonInvStep, WireStep
<1>3. Both => DaemonFollows
  BY DaemonShows
<1> HIDE DEF Both
<1>4. QED
  BY <1>1, <1>2, <1>3, PTL DEF MainSpec

-----------------------------------------------------------------------------
(* The versions of the tables. The state that a start finds, or has made   *)
(* with the statements so far, by the version that is recorded.            *)
Version(c) ==
  /\ c = 0 => ircsvs_tables = {}
  /\ c # 0 => c \in ircsvs_tables
  /\ \A v \in ircsvs_tables : v \in 1..c

Nick == Snids \union LostSnids \union {0, NULL}

Channel == [scid : Scids, founder : Nick, successor : Nick, suspended : BOOLEAN]

TablesTyped ==
  /\ chanserv \subseteq Channel /\ registered \subseteq Channel
  /\ columns \in [tmp : BOOLEAN, converted : Nat, nullable : BOOLEAN]
  /\ keys \subseteq ForeignKeys /\ stops \in Nat /\ misread \in BOOLEAN

(* Where a registered channel is on the way from its founder to its        *)
(* successor                                                               *)
OnItsWay(r, q) ==
  /\ q.scid = r.scid
  /\ \/ q.founder = r.founder /\ (r.founder \in LostSnids => q.successor = r.successor)
     \/ r.founder \in LostSnids /\ r.successor \in Snids /\ q.founder = r.successor
     \/ r.founder = 0 /\ q.founder \in {0, NULL}

ChannelsKept ==
  \A r \in registered :
    \/ r.founder \in LostSnids /\ r.successor \notin Snids
    \/ \E q \in chanserv : OnItsWay(r, q)

NoLostSuccessor == \A q \in chanserv : q.successor \notin LostSnids

NoLostFounder == \A q \in chanserv : q.founder \notin LostSnids

(* What holds between version c and the next, wherever starts were cut.    *)
Converted(c) == c >= 2 => /\ ~columns.tmp /\ columns.converted >= 1
                          /\ stops = 0 => columns.converted = 1

Suspended == {r.scid : r \in {q \in chanserv : q.suspended}}

RowsFit(c) ==
  /\ c = 0 => registered = {} /\ chanserv = {} /\ columns.converted <= 1
  /\ c = 1 => ~columns.nullable /\ keys = {}
  /\ c = 2 /\ columns.nullable =>
       \A q \in chanserv : {q.founder, q.successor} \subseteq Snids \union {NULL}
  /\ c = 2 /\ ~columns.nullable => keys = {}
  /\ c \in {1, 2} /\ ~columns.nullable =>
       \A q \in chanserv : NULL \notin {q.founder, q.successor}
  /\ c >= 3 => keys = ForeignKeys
  /\ c = 4 => chanserv_suspensions = Suspended

(* What is to be done after version 1, a statement after the other: the    *)
(* first of version c + 1 has the place First(c).                          *)
Names == {"add_columns", "change_columns", "lost_successors", "lost_founders", "nullable",
          "founder", "successor", "create_suspensions", "import_suspensions", "drop", "create",
          "record"}

Item == [version : 1..4, do : Names]

Upgrades == Upgrade(2) \o Upgrade(3) \o Upgrade(4)

First(c) == CASE c = 1 -> 1 [] c = 2 -> 4 [] c = 3 -> 10 [] OTHER -> 13

From(s, j) == SubSeq(s, j, Len(s))

(* What the statements before place k have brought about                   *)
NotYetKeyed == stops = 0 => keys = {}

Stage(k) ==
  /\ k = 1 => (stops = 0 => ~columns.tmp /\ columns.converted = 0)
  /\ k = 2 => columns.tmp /\ (stops = 0 => columns.converted = 0)
  /\ k = 3 => Converted(2)
  /\ k = 4 => NotYetKeyed
  /\ k = 5 => NoLostSuccessor /\ NotYetKeyed
  /\ k = 6 => NoLostSuccessor /\ NoLostFounder /\ NotYetKeyed
  /\ k = 7 => columns.nullable /\ NotYetKeyed
  /\ k = 8 => columns.nullable /\ "founder" \in keys /\ (stops = 0 => keys = {"founder"})
  /\ k = 9 => columns.nullable /\ keys = ForeignKeys
  /\ k = 11 => chanserv_suspensions = {}
  /\ k = 12 => chanserv_suspensions = Suspended

Installed(j) ==
  /\ j >= 3 => /\ keys = ForeignKeys
               /\ ~columns.tmp /\ columns.converted = 1
  /\ j = 4 => chanserv_suspensions = {}

Progress(c) ==
  \/ todo = <<>> /\ (c \in 1..3 => Stage(First(c)))
  \/ c = 0 /\ \E j \in 1..4 : todo = From(Installation, j) /\ Installed(j)
  \/ /\ c \in 1..3
     /\ \E k \in First(c)..First(c + 1) - 1 : todo = From(Upgrades, k) /\ Stage(k)

Level(c) == Version(c) /\ ChannelsKept /\ Converted(c) /\ RowsFit(c)

TablesInv ==
  /\ TablesTyped
  /\ ~checked => todo = <<>>
  /\ ~misread => \E c \in 0..4 : Level(c) /\ Progress(c)

LEMMA SeqOfLength ==
  ASSUME NEW n \in Nat, NEW s \in [1..n -> Item]
  PROVE  s \in Seq(Item) /\ Len(s) = n
BY LengthOfSeq, Zenon

(* What Do makes of a list of one, two or three statements                 *)
Is(x, v, a) == x.do = a /\ x.version = v

One(s, v, a) == s \in Seq(Item) /\ Len(s) = 1 /\ s[1] = [version |-> v, do |-> a]

Two(s, v, a, b) ==
  s \in Seq(Item) /\ Len(s) = 2 /\ Is(s[1], v, a) /\ Is(s[2], v, b)

Three(s, v, a, b, d) ==
  s \in Seq(Item) /\ Len(s) = 3 /\ Is(s[1], v, a) /\ Is(s[2], v, b) /\ Is(s[3], v, d)

LEMMA Do1 ==
  ASSUME NEW v \in 1..4, NEW a \in Names
  PROVE  One(Do(v, <<a>>), v, a)
<1>1. Do(v, <<a>>) \in [1..1 -> Item]
  BY DEF Do, Item
<1>2. Do(v, <<a>>) \in Seq(Item) /\ Len(Do(v, <<a>>)) = 1
  BY <1>1, SeqOfLength
<1>3. QED
  BY <1>2 DEF Do, One

LEMMA Do2 ==
  ASSUME NEW v \in 1..4, NEW a \in Names, NEW b \in Names
  PROVE  Two(Do(v, <<a, b>>), v, a, b)
<1>1. Do(v, <<a, b>>) \in [1..2 -> Item]
  BY DEF Do, Item
<1>2. Do(v, <<a, b>>) \in Seq(Item) /\ Len(Do(v, <<a, b>>)) = 2
  BY <1>1, SeqOfLength
<1>3. QED
  BY <1>2 DEF Do, Two, Is

LEMMA Do3 ==
  ASSUME NEW v \in 1..4, NEW a \in Names, NEW b \in Names, NEW d \in Names
  PROVE  Three(Do(v, <<a, b, d>>), v, a, b, d)
<1>1. Do(v, <<a, b, d>>) \in [1..3 -> Item]
  BY DEF Do, Item
<1>2. Do(v, <<a, b, d>>) \in Seq(Item) /\ Len(Do(v, <<a, b, d>>)) = 3
  BY <1>1, SeqOfLength
<1>3. QED
  BY <1>2 DEF Do, Three, Is

LEMMA Concatenation ==
  ASSUME NEW s \in Seq(Item), NEW t \in Seq(Item)
  PROVE  /\ s \o t \in Seq(Item) /\ Len(s \o t) = Len(s) + Len(t)
         /\ \A i \in 1..Len(s) : (s \o t)[i] = s[i]
         /\ \A i \in 1..Len(t) : (s \o t)[Len(s) + i] = t[i]
<1> DEFINE w == s \o t
<1>1. w \in Seq(Item) /\ Joins(w, s, t)
  BY Joined, Zenon
<1> HIDE DEF w
<1>2. /\ w \in Seq(Item) /\ Len(w) = Len(s) + Len(t)
      /\ \A i \in 1..Len(s) : w[i] = s[i]
      /\ \A i \in 1..Len(t) : w[Len(s) + i] = t[i]
  BY <1>1 DEF Joins
<1>3. QED
  BY <1>2 DEF w

(* Two or three statements and what records the version                    *)
LEMMA Upgrade2Items ==
  /\ Upgrade(2) \in Seq(Item) /\ Len(Upgrade(2)) = 3
  /\ Upgrade(2)[1].do = "add_columns" /\ Upgrade(2)[2].do = "change_columns"
  /\ Upgrade(2)[3] = [version |-> 2, do |-> "record"]
<1> DEFINE s == Do(2, <<"add_columns", "change_columns">>)
           t == Do(2, <<"record">>)
           x == s \o t
<1>1. 2 \in 1..4 /\ "add_columns" \in Names /\ "change_columns" \in Names /\ "record" \in Names
  BY DEF Names
<1>2. /\ s \in Seq(Item) /\ Len(s) = 2
      /\ s[1].do = "add_columns" /\ s[2].do = "change_columns"
  <2>1. Two(s, 2, "add_columns", "change_columns")
    BY <1>1, Do2, Zenon
  <2>2. QED
    BY <2>1, Zenon DEF Two, Is
<1>3. t \in Seq(Item) /\ Len(t) = 1 /\ t[1] = [version |-> 2, do |-> "record"]
  BY <1>1, Do1, Zenon DEF One
<1>4. Upgrade(2) = x
  <2>1. Pre(2) = <<>> /\ Script(2) = s
    BY DEF Pre, Script
  <2>2. Upgrade(2) = <<>> \o s \o t
    BY <2>1 DEF Upgrade
  <2>3. <<>> \o s = s
    BY <1>2, ConcatEmptySeq, Zenon
  <2>4. QED
    BY <2>2, <2>3
<1> HIDE DEF s, t
<1>5. /\ x \in Seq(Item) /\ Len(x) = Len(s) + Len(t)
      /\ \A i \in 1..Len(s) : x[i] = s[i]
      /\ \A i \in 1..Len(t) : x[Len(s) + i] = t[i]
  BY <1>2, <1>3, Concatenation, Zenon
<1> HIDE DEF x
<1>6. Len(s) = 2 /\ Len(t) = 1
  BY <1>2, <1>3
<1>7. Len(x) = 3 /\ x[1] = s[1] /\ x[2] = s[2] /\ x[3] = t[1]
  BY <1>5, <1>6
<1>8. QED
  BY <1>2, <1>3, <1>4, <1>5, <1>7, Zenon

LEMMA Upgrade3Items ==
  /\ Upgrade(3) \in Seq(Item) /\ Len(Upgrade(3)) = 6
  /\ Upgrade(3)[1].do = "lost_successors" /\ Upgrade(3)[2].do = "lost_founders"
  /\ Upgrade(3)[3].do = "nullable" /\ Upgrade(3)[4].do = "founder"
  /\ Upgrade(3)[5].do = "successor"
  /\ Upgrade(3)[6] = [version |-> 3, do |-> "record"]
<1> DEFINE s == Do(3, <<"lost_successors", "lost_founders">>)
           t == Do(3, <<"nullable", "founder", "successor">>)
           u == Do(3, <<"record">>)
           st == s \o t
           x == st \o u
<1>1. /\ 3 \in 1..4 /\ "lost_successors" \in Names /\ "lost_founders" \in Names
      /\ "nullable" \in Names /\ "founder" \in Names /\ "successor" \in Names
      /\ "record" \in Names
  BY DEF Names
<1>2. /\ s \in Seq(Item) /\ Len(s) = 2
      /\ s[1].do = "lost_successors" /\ s[2].do = "lost_founders"
  <2>1. Two(s, 3, "lost_successors", "lost_founders")
    BY <1>1, Do2, Zenon
  <2>2. QED
    BY <2>1, Zenon DEF Two, Is
<1>3. /\ t \in Seq(Item) /\ Len(t) = 3
      /\ t[1].do = "nullable" /\ t[2].do = "founder" /\ t[3].do = "successor"
  <2>1. Three(t, 3, "nullable", "founder", "successor")
    BY <1>1, Do3, Zenon
  <2>2. QED
    BY <2>1, Zenon DEF Three, Is
<1>4. u \in Seq(Item) /\ Len(u) = 1 /\ u[1] = [version |-> 3, do |-> "record"]
  BY <1>1, Do1, Zenon DEF One
<1>5. Upgrade(3) = x
  <2>1. Pre(3) = s /\ Script(3) = t
    BY DEF Pre, Script
  <2>2. QED
    BY <2>1 DEF Upgrade
<1> HIDE DEF s, t, u
<1>6. /\ st \in Seq(Item) /\ Len(st) = Len(s) + Len(t)
      /\ \A i \in 1..Len(s) : st[i] = s[i]
      /\ \A i \in 1..Len(t) : st[Len(s) + i] = t[i]
  BY <1>2, <1>3, Concatenation, Zenon
<1> HIDE DEF st
<1>7. /\ x \in Seq(Item) /\ Len(x) = Len(st) + Len(u)
      /\ \A i \in 1..Len(st) : x[i] = st[i]
      /\ \A i \in 1..Len(u) : x[Len(st) + i] = u[i]
  BY <1>4, <1>6, Concatenation, Zenon
<1> HIDE DEF x
<1>8. Len(s) = 2 /\ Len(t) = 3 /\ Len(u) = 1
  BY <1>2, <1>3, <1>4
<1>9. Len(st) = 5 /\ st[1] = s[1] /\ st[2] = s[2] /\ st[3] = t[1] /\ st[4] = t[2]
      /\ st[5] = t[3]
  BY <1>6, <1>8
<1>10. Len(x) = 6 /\ x[1] = s[1] /\ x[2] = s[2] /\ x[3] = t[1] /\ x[4] = t[2]
      /\ x[5] = t[3] /\ x[6] = u[1]
  BY <1>7, <1>8, <1>9
<1>11. /\ x[1].do = "lost_successors" /\ x[2].do = "lost_founders"
       /\ x[3].do = "nullable" /\ x[4].do = "founder" /\ x[5].do = "successor"
  BY <1>2, <1>3, <1>10, Zenon
<1>12. QED
  BY <1>4, <1>5, <1>7, <1>10, <1>11, Zenon

LEMMA Upgrade4Items ==
  /\ Upgrade(4) \in Seq(Item) /\ Len(Upgrade(4)) = 3
  /\ Upgrade(4)[1].do = "create_suspensions" /\ Upgrade(4)[2].do = "import_suspensions"
  /\ Upgrade(4)[3] = [version |-> 4, do |-> "record"]
<1> DEFINE s == Do(4, <<"create_suspensions", "import_suspensions">>)
           t == Do(4, <<"record">>)
           x == s \o t
<1>1. 4 \in 1..4 /\ "create_suspensions" \in Names /\ "import_suspensions" \in Names /\ "record" \in Names
  BY DEF Names
<1>2. /\ s \in Seq(Item) /\ Len(s) = 2
      /\ s[1].do = "create_suspensions" /\ s[2].do = "import_suspensions"
  <2>1. Two(s, 4, "create_suspensions", "import_suspensions")
    BY <1>1, Do2, Zenon
  <2>2. QED
    BY <2>1, Zenon DEF Two, Is
<1>3. t \in Seq(Item) /\ Len(t) = 1 /\ t[1] = [version |-> 4, do |-> "record"]
  BY <1>1, Do1, Zenon DEF One
<1>4. Upgrade(4) = x
  <2>1. Pre(4) = <<>> /\ Script(4) = s
    BY DEF Pre, Script
  <2>2. Upgrade(4) = <<>> \o s \o t
    BY <2>1 DEF Upgrade
  <2>3. <<>> \o s = s
    BY <1>2, ConcatEmptySeq, Zenon
  <2>4. QED
    BY <2>2, <2>3
<1> HIDE DEF s, t
<1>5. /\ x \in Seq(Item) /\ Len(x) = Len(s) + Len(t)
      /\ \A i \in 1..Len(s) : x[i] = s[i]
      /\ \A i \in 1..Len(t) : x[Len(s) + i] = t[i]
  BY <1>2, <1>3, Concatenation, Zenon
<1> HIDE DEF x
<1>6. Len(s) = 2 /\ Len(t) = 1
  BY <1>2, <1>3
<1>7. Len(x) = 3 /\ x[1] = s[1] /\ x[2] = s[2] /\ x[3] = t[1]
  BY <1>5, <1>6
<1>8. QED
  BY <1>2, <1>3, <1>4, <1>5, <1>7, Zenon

(* The statement at each place                                             *)
LEMMA UpgradesItems ==
  /\ Upgrades \in Seq(Item) /\ Len(Upgrades) = 12
  /\ Upgrades[1].do = "add_columns" /\ Upgrades[2].do = "change_columns"
  /\ Upgrades[3] = [version |-> 2, do |-> "record"]
  /\ Upgrades[4].do = "lost_successors" /\ Upgrades[5].do = "lost_founders"
  /\ Upgrades[6].do = "nullable" /\ Upgrades[7].do = "founder"
  /\ Upgrades[8].do = "successor"
  /\ Upgrades[9] = [version |-> 3, do |-> "record"]
  /\ Upgrades[10].do = "create_suspensions" /\ Upgrades[11].do = "import_suspensions"
  /\ Upgrades[12] = [version |-> 4, do |-> "record"]
<1> DEFINE a == Upgrade(2)
           b == Upgrade(3)
           d == Upgrade(4)
           ab == a \o b
           x == ab \o d
<1>1. /\ a \in Seq(Item) /\ Len(a) = 3
      /\ a[1].do = "add_columns" /\ a[2].do = "change_columns"
      /\ a[3] = [version |-> 2, do |-> "record"]
  BY Upgrade2Items
<1>2. /\ b \in Seq(Item) /\ Len(b) = 6
      /\ b[1].do = "lost_successors" /\ b[2].do = "lost_founders"
      /\ b[3].do = "nullable" /\ b[4].do = "founder" /\ b[5].do = "successor"
      /\ b[6] = [version |-> 3, do |-> "record"]
  BY Upgrade3Items
<1>3. /\ d \in Seq(Item) /\ Len(d) = 3
      /\ d[1].do = "create_suspensions" /\ d[2].do = "import_suspensions"
      /\ d[3] = [version |-> 4, do |-> "record"]
  BY Upgrade4Items
<1>4. Upgrades = x
  BY DEF Upgrades
<1> HIDE DEF a, b, d
<1>5. /\ ab \in Seq(Item) /\ Len(ab) = Len(a) + Len(b)
      /\ \A i \in 1..Len(a) : ab[i] = a[i]
      /\ \A i \in 1..Len(b) : ab[Len(a) + i] = b[i]
  BY <1>1, <1>2, Concatenation, Zenon
<1> HIDE DEF ab
<1>6. /\ x \in Seq(Item) /\ Len(x) = Len(ab) + Len(d)
      /\ \A i \in 1..Len(ab) : x[i] = ab[i]
      /\ \A i \in 1..Len(d) : x[Len(ab) + i] = d[i]
  BY <1>3, <1>5, Concatenation, Zenon
<1> HIDE DEF x
<1>7. Len(a) = 3 /\ Len(b) = 6 /\ Len(d) = 3
  BY <1>1, <1>2, <1>3
<1>8. /\ Len(ab) = 9 /\ ab[1] = a[1] /\ ab[2] = a[2] /\ ab[3] = a[3] /\ ab[4] = b[1]
      /\ ab[5] = b[2] /\ ab[6] = b[3] /\ ab[7] = b[4] /\ ab[8] = b[5] /\ ab[9] = b[6]
  BY <1>5, <1>7
<1>9. /\ x[1] = a[1] /\ x[2] = a[2] /\ x[3] = a[3] /\ x[4] = b[1] /\ x[5] = b[2]
      /\ x[6] = b[3] /\ x[7] = b[4] /\ x[8] = b[5] /\ x[9] = b[6]
  BY <1>6, <1>8
<1>10. Len(x) = 12 /\ x[10] = d[1] /\ x[11] = d[2] /\ x[12] = d[3]
  BY <1>6, <1>7, <1>8
<1>11. /\ x[1].do = "add_columns" /\ x[2].do = "change_columns"
       /\ x[4].do = "lost_successors" /\ x[5].do = "lost_founders"
       /\ x[6].do = "nullable" /\ x[7].do = "founder" /\ x[8].do = "successor"
       /\ x[10].do = "create_suspensions" /\ x[11].do = "import_suspensions"
  BY <1>1, <1>2, <1>3, <1>9, <1>10, Zenon
<1>12. /\ x[3] = [version |-> 2, do |-> "record"] /\ x[9] = [version |-> 3, do |-> "record"]
       /\ x[12] = [version |-> 4, do |-> "record"]
  BY <1>1, <1>2, <1>3, <1>9, <1>10, Zenon
<1>13. QED
  BY <1>4, <1>6, <1>10, <1>11, <1>12, Zenon

LEMMA InstallationItems ==
  /\ Installation \in Seq(Item) /\ Len(Installation) = 4
  /\ Installation[1].do = "drop" /\ Installation[2].do = "create"
  /\ Installation[3].do = "create_suspensions"
  /\ Installation[4] = [version |-> 4, do |-> "record"]
<1> DEFINE names == <<"drop", "create", "create_suspensions", "record">>
           x == Installation
<1>1. DOMAIN names = 1..4
  OBVIOUS
<1>2. /\ names[1] = "drop" /\ names[2] = "create"
      /\ names[3] = "create_suspensions" /\ names[4] = "record"
  OBVIOUS
<1>3. x = Do(4, names)
  BY DEF Installation, DB_VERSION
<1> HIDE DEF names, x
<1>4. x = [k \in 1..4 |-> [version |-> 4, do |-> names[k]]]
  BY <1>1, <1>3 DEF Do
<1>5. \A k \in 1..4 : x[k] = [version |-> 4, do |-> names[k]]
  BY <1>4
<1>6. 1 \in 1..4 /\ 2 \in 1..4 /\ 3 \in 1..4 /\ 4 \in 1..4
  OBVIOUS
<1>7. /\ x[1] = [version |-> 4, do |-> "drop"] /\ x[2] = [version |-> 4, do |-> "create"]
      /\ x[3] = [version |-> 4, do |-> "create_suspensions"]
      /\ x[4] = [version |-> 4, do |-> "record"]
  BY <1>2, <1>5, <1>6, Zenon
<1>8. x \in Seq(Item) /\ Len(x) = 4
  <2>1. names[1] \in Names /\ names[2] \in Names /\ names[3] \in Names /\ names[4] \in Names
    BY <1>2 DEF Names
  <2>2. \A k \in 1..4 : k = 1 \/ k = 2 \/ k = 3 \/ k = 4
    OBVIOUS
  <2>3. \A k \in 1..4 : names[k] \in Names
    BY <2>1, <2>2, Zenon
  <2>4. x \in [1..4 -> Item]
    BY <1>4, <2>3 DEF Item
  <2>5. QED
    BY <2>4, SeqOfLength
<1>9. x[1].do = "drop" /\ x[2].do = "create" /\ x[3].do = "create_suspensions"
  <2>1. \A k \in 1..4 : x[k].do = names[k]
    BY <1>5
  <2>2. QED
    BY <1>2, <1>6, <2>1, Zenon
<1>10. QED
  BY <1>7, <1>8, <1>9, Zenon DEF x

LEMMA Associative ==
  ASSUME NEW a \in Seq(Item), NEW b \in Seq(Item), NEW d \in Seq(Item)
  PROVE  (a \o b) \o d = a \o (b \o d)
BY ConcatAssociative

(* What is left after a statement                                          *)
LEMMA FromFacts ==
  ASSUME NEW s \in Seq(Item), NEW j \in 1..Len(s)
  PROVE  /\ From(s, j) # <<>> /\ Head(From(s, j)) = s[j]
         /\ Tail(From(s, j)) = From(s, j + 1)
         /\ From(s, 1) = s /\ From(s, Len(s) + 1) = <<>>
<1>1. Len(s) \in Nat /\ j \in Int
  BY LenProperties
<1>2. Head(From(s, j)) = s[j] /\ Tail(From(s, j)) = From(s, j + 1)
  <2>1. Len(s) \in j..Len(s)
    BY <1>1
  <2>2. QED
    BY <2>1, HeadTailOfSubSeq DEF From
<1>3. From(s, j) # <<>>
  <2>1. \A i \in j..Len(s) : s[i] \in Item
    BY <1>1, ElementOfSeq
  <2>2. Len(From(s, j)) = Len(s) - j + 1
    BY <1>1, <2>1, SubSeqProperties DEF From
  <2>3. QED
    BY <1>1, <2>2, EmptySeq
<1>4. From(s, 1) = s
  BY SubSeqFull DEF From
<1>5. From(s, Len(s) + 1) = <<>>
  BY <1>1, SubSeqEmpty DEF From
<1>6. QED
  BY <1>2, <1>3, <1>4, <1>5

LEMMA InstallationFrom ==
  ASSUME NEW j \in 1..4
  PROVE  /\ From(Installation, j) # <<>> /\ Head(From(Installation, j)) = Installation[j]
         /\ Tail(From(Installation, j)) = From(Installation, j + 1)
         /\ From(Installation, 5) = <<>>
<1>1. Installation \in Seq(Item) /\ Len(Installation) = 4
  BY InstallationItems, Zenon
<1>2. j \in 1..Len(Installation) /\ Len(Installation) + 1 = 5
  BY <1>1
<1>3. /\ From(Installation, j) # <<>> /\ Head(From(Installation, j)) = Installation[j]
      /\ Tail(From(Installation, j)) = From(Installation, j + 1)
      /\ From(Installation, Len(Installation) + 1) = <<>>
  BY <1>1, <1>2, FromFacts, Zenon
<1>4. QED
  BY <1>2, <1>3, Zenon

LEMMA UpgradesFrom ==
  ASSUME NEW k \in 1..12
  PROVE  /\ From(Upgrades, k) # <<>> /\ Head(From(Upgrades, k)) = Upgrades[k]
         /\ Tail(From(Upgrades, k)) = From(Upgrades, k + 1)
         /\ From(Upgrades, 13) = <<>>
<1>1. Upgrades \in Seq(Item) /\ Len(Upgrades) = 12
  BY UpgradesItems, Zenon
<1>2. k \in 1..Len(Upgrades) /\ Len(Upgrades) + 1 = 13
  BY <1>1
<1>3. /\ From(Upgrades, k) # <<>> /\ Head(From(Upgrades, k)) = Upgrades[k]
      /\ Tail(From(Upgrades, k)) = From(Upgrades, k + 1)
      /\ From(Upgrades, Len(Upgrades) + 1) = <<>>
  BY <1>1, <1>2, FromFacts, Zenon
<1>4. QED
  BY <1>2, <1>3, Zenon

LEMMA PlanFrom ==
  /\ Plan(0) = From(Installation, 1)
  /\ Plan(1) = From(Upgrades, First(1)) /\ Plan(2) = From(Upgrades, First(2))
  /\ Plan(3) = From(Upgrades, First(3)) /\ Plan(4) = <<>>
<1> DEFINE a == Upgrade(2)
           b == Upgrade(3)
           d == Upgrade(4)
<1>1. a \in Seq(Item) /\ Len(a) = 3 /\ b \in Seq(Item) /\ Len(b) = 6
      /\ d \in Seq(Item) /\ Len(d) = 3
  BY Upgrade2Items, Upgrade3Items, Upgrade4Items
<1>2. Upgrades = a \o b \o d /\ Upgrades \in Seq(Item) /\ Len(Upgrades) = 12
  BY UpgradesItems DEF Upgrades
<1>3. /\ Plan(0) = Installation /\ Plan(1) = a \o b \o d
      /\ Plan(2) = <<>> \o b \o d /\ Plan(3) = <<>> \o <<>> \o d
      /\ Plan(4) = <<>> \o <<>> \o <<>>
  BY DEF Plan
<1> HIDE DEF a, b, d
<1>4. Plan(0) = From(Installation, 1)
  <2>1. Len(Installation) = 4
    BY InstallationItems, Zenon
  <2>11. 1 \in 1..Len(Installation)
    BY <2>1
  <2>2. QED
    BY <1>3, <2>11, InstallationItems, FromFacts, Zenon
<1>5. From(Upgrades, 1) = Upgrades
  <2>1. 1 \in 1..Len(Upgrades)
    BY <1>2
  <2>2. QED
    BY <1>2, <2>1, FromFacts
<1>6. Plan(2) = b \o d /\ Plan(3) = d /\ Plan(4) = <<>>
  <2>1. <<>> \o b = b /\ <<>> \o d = d
    BY <1>1, ConcatEmptySeq
  <2>2. <<>> \o <<>> = <<>>
    BY EmptySeq, ConcatEmptySeq
  <2>3. QED
    BY <1>3, <2>1, <2>2
<1>7. From(Upgrades, 10) = d
  <2> DEFINE x == a \o b
  <2>0. x \in Seq(Item) /\ Len(x) = Len(a) + Len(b)
    BY <1>1, Concatenation, Zenon
  <2>01. Upgrades = x \o d
    BY <1>2
  <2> HIDE DEF x
  <2>1. x \in Seq(Item) /\ Len(x) = 9 /\ Upgrades = x \o d
    BY <1>1, <2>0, <2>01
  <2>2. 10 \in Len(x) + 1..Len(x) + Len(d) /\ 12 \in Len(x) + 1..Len(x) + Len(d)
    BY <1>1, <2>1
  <2>3. SubSeq(x \o d, 10, 12) = SubSeq(d, 10 - Len(x), 12 - Len(x))
    BY <1>1, <2>1, <2>2, SubSeqOfConcat2
  <2>4. SubSeq(d, 1, 3) = d
    BY <1>1, SubSeqFull
  <2>5. 10 - Len(x) = 1 /\ 12 - Len(x) = 3
    BY <2>1
  <2>6. QED
    BY <1>2, <2>1, <2>3, <2>4, <2>5 DEF From
<1>8. From(Upgrades, 4) = b \o d
  <2> DEFINE x == b \o d
  <2>0. x \in Seq(Item) /\ Len(x) = Len(b) + Len(d)
    BY <1>1, Concatenation, Zenon
  <2>2. Upgrades = a \o x
    <3>1. (a \o b) \o d = a \o (b \o d)
      <4>1. a \in Seq(Item) /\ b \in Seq(Item) /\ d \in Seq(Item)
        BY <1>1
      <4>2. QED
        BY <4>1, Associative, Zenon
    <3>2. QED
      BY <1>2, <3>1, Zenon
  <2> HIDE DEF x
  <2>1. x \in Seq(Item) /\ Len(x) = 9
    BY <1>1, <2>0
  <2>3. 4 \in Len(a) + 1..Len(a) + Len(x) /\ 12 \in Len(a) + 1..Len(a) + Len(x)
    BY <1>1, <2>1
  <2>4. SubSeq(a \o x, 4, 12) = SubSeq(x, 4 - Len(a), 12 - Len(a))
    <3>1. a \in Seq(Item) /\ x \in Seq(Item)
      BY <1>1, <2>1
    <3>2. QED
      BY <2>3, <3>1, SubSeqOfConcat2, Zenon
  <2>5. SubSeq(x, 1, 9) = x
    BY <2>1, SubSeqFull
  <2>6. 4 - Len(a) = 1 /\ 12 - Len(a) = 9
    BY <1>1
  <2>7. x = b \o d
    BY DEF x
  <2>8. QED
    BY <1>2, <2>2, <2>4, <2>5, <2>6, <2>7 DEF From
<1>9. QED
  BY <1>2, <1>3, <1>4, <1>5, <1>6, <1>7, <1>8 DEF First

LEMMA CurrentVersion ==
  ASSUME NEW c \in 0..4, Version(c)
  PROVE  current_version = c
<1>1. CASE c = 0
  BY <1>1 DEF Version, current_version
<1>2. CASE c # 0
  <2>1. c \in ircsvs_tables /\ \A w \in ircsvs_tables : w \in Int /\ w <= c
    BY <1>2 DEF Version
  <2>2. \A v \in ircsvs_tables : (\A w \in ircsvs_tables : w <= v) => v = c
    BY <2>1
  <2>3. (CHOOSE v \in ircsvs_tables : \A w \in ircsvs_tables : w <= v) = c
    BY <2>1, <2>2
  <2>4. QED
    BY <2>1, <2>3 DEF current_version
<1>3. QED
  BY <1>1, <1>2

-----------------------------------------------------------------------------
LEMMA NoNickAtAll ==
  /\ NULL = -1 /\ NULL \notin Snids /\ NULL \notin LostSnids /\ NULL # 0
  /\ 0 \notin Snids /\ 0 \notin LostSnids
BY TableVersionsAssumption DEF NULL

LEMMA TablesInitInv ==
  ASSUME NEW b \in BOOLEAN, TablesInit(b)
  PROVE  TablesInv
<1> DEFINE Nicks(v) == IF v < 3 THEN Rows(Snids \union LostSnids \union {0})
                       ELSE Rows(Snids \union {NULL})
           Row(s, row) == [scid |-> s, founder |-> row.founder, successor |-> row.successor,
                           suspended |-> row.suspended]
           As(v, used, rows) ==
             /\ ircsvs_tables = {v} \ {0}
             /\ chanserv = {Row(s, rows[s]) : s \in used}
             /\ columns = [tmp |-> FALSE, converted |-> IF v < 2 THEN 0 ELSE 1, nullable |-> v >= 3]
             /\ keys = IF v < 3 THEN {} ELSE ForeignKeys
             /\ chanserv_suspensions = IF v < 4 THEN NoTable ELSE {s \in used : rows[s].suspended}
             /\ todo = <<>>
             /\ checked = ~b
             /\ misread = FALSE
             /\ stops = 0
             /\ registered = chanserv
<1>01. PICK v \in IF b THEN 0..DB_VERSION ELSE {DB_VERSION} :
         \E used \in IF b /\ v > 0 THEN SUBSET Scids ELSE {{}} :
         \E rows \in [used -> Nicks(v)] : As(v, used, rows)
  BY DEF TablesInit
<1> HIDE DEF Nicks
<1>02. PICK used \in IF b /\ v > 0 THEN SUBSET Scids ELSE {{}} :
         \E rows \in [used -> Nicks(v)] : As(v, used, rows)
  BY <1>01, Zenon
<1>03. PICK rows \in [used -> Nicks(v)] : As(v, used, rows)
  BY <1>02, Zenon
<1>1. /\ ircsvs_tables = {v} \ {0}
      /\ chanserv = {Row(s, rows[s]) : s \in used}
      /\ columns = [tmp |-> FALSE, converted |-> IF v < 2 THEN 0 ELSE 1, nullable |-> v >= 3]
      /\ keys = IF v < 3 THEN {} ELSE ForeignKeys
      /\ chanserv_suspensions = IF v < 4 THEN NoTable ELSE {s \in used : rows[s].suspended}
  BY <1>03, Zenon
<1>2. todo = <<>> /\ misread = FALSE /\ stops = 0 /\ registered = chanserv
  BY <1>03, Zenon
<1> HIDE DEF As
<1>04. v \in 0..4 /\ used \subseteq Scids
  BY DEF DB_VERSION
<1>05. v = 0 => used = {}
  OBVIOUS
<1>3. ASSUME NEW s \in used
      PROVE  /\ rows[s].founder \in Nick /\ rows[s].successor \in Nick
             /\ rows[s].suspended \in BOOLEAN
             /\ v < 3 => NULL \notin {rows[s].founder, rows[s].successor}
  <2>0. rows[s] \in Nicks(v)
    BY <1>03
  <2>2. CASE v < 3
    <3>1. rows[s] \in Rows(Snids \union LostSnids \union {0})
      BY <2>0, <2>2 DEF Nicks
    <3>2. QED
      BY <2>2, <3>1, NoNickAtAll DEF Rows, Nick
  <2>3. CASE ~(v < 3)
    <3>1. rows[s] \in Rows(Snids \union {NULL})
      BY <2>0, <2>3 DEF Nicks
    <3>2. QED
      BY <2>3, <3>1 DEF Rows, Nick
  <2>4. QED
    BY <2>2, <2>3
<1>4. ASSUME NEW s \in used
      PROVE  /\ Row(s, rows[s]).founder = rows[s].founder
             /\ Row(s, rows[s]).successor = rows[s].successor
             /\ Row(s, rows[s]).suspended = rows[s].suspended /\ Row(s, rows[s]).scid = s
             /\ Row(s, rows[s]) \in Channel
  BY <1>3, <1>04 DEF Channel
<1> HIDE DEF Row
<1>5. \A q \in chanserv : \E s \in used : q = Row(s, rows[s])
  BY <1>1
<1>6. chanserv \subseteq Channel
  BY <1>4, <1>5
<1>60. columns \in [tmp : BOOLEAN, converted : Nat, nullable : BOOLEAN]
  BY <1>1
<1>61. /\ ~columns.tmp /\ columns.converted = (IF v < 2 THEN 0 ELSE 1)
       /\ columns.nullable = (v >= 3)
  BY <1>1
<1>7. TablesTyped
  <2>1. keys \subseteq ForeignKeys
    BY <1>1
  <2>2. QED
    BY <1>2, <1>6, <1>60, <2>1 DEF TablesTyped
<1>8. Version(v)
  BY <1>1, <1>04 DEF Version
<1>9. ChannelsKept
  BY <1>2 DEF ChannelsKept, OnItsWay
<1>10. Converted(v)
  BY <1>2, <1>04, <1>61 DEF Converted
<1>11. RowsFit(v)
  <2>1. v = 0 => registered = {} /\ chanserv = {} /\ columns.converted <= 1
    BY <1>1, <1>2, <1>05, <1>61
  <2>2. columns.nullable <=> v >= 3
    BY <1>61
  <2>3. v < 3 => keys = {}
    BY <1>1, <1>04
  <2>4. v >= 3 => keys = ForeignKeys
    BY <1>1, <1>04
  <2>5. v < 3 => \A q \in chanserv : NULL \notin {q.founder, q.successor}
    BY <1>3, <1>4, <1>5
  <2>6. v = 4 => chanserv_suspensions = Suspended
    <3>1. SUFFICES ASSUME v = 4 PROVE {s \in used : rows[s].suspended} = Suspended
      BY <1>1
    <3>2. ASSUME NEW s \in used PROVE Row(s, rows[s]) \in chanserv
      BY <1>1
    <3>3. ASSUME NEW s \in used, rows[s].suspended PROVE s \in Suspended
      BY <1>4, <3>2, <3>3 DEF Suspended
    <3>4. ASSUME NEW s \in Suspended PROVE s \in used /\ rows[s].suspended
      <4>1. PICK q \in chanserv : q.suspended /\ s = q.scid
        BY <3>4 DEF Suspended
      <4>2. QED
        BY <1>4, <1>5, <4>1
    <3>5. QED
      BY <3>3, <3>4
  <2>7. QED
    BY <1>04, <2>1, <2>2, <2>3, <2>4, <2>5, <2>6 DEF RowsFit
<1>12. v \in 1..3 => Stage(First(v))
  <2>1. v = 1 => Stage(1)
    BY <1>61 DEF Stage
  <2>2. v = 2 => Stage(4)
    BY <1>1 DEF Stage, NotYetKeyed
  <2>3. v = 3 => Stage(10)
    BY DEF Stage
  <2>4. QED
    BY <1>04, <2>1, <2>2, <2>3 DEF First
<1>13. Level(v) /\ Progress(v)
  BY <1>2, <1>8, <1>9, <1>10, <1>11, <1>12 DEF Level, Progress
<1>14. QED
  BY <1>2, <1>04, <1>7, <1>13 DEF TablesInv

-----------------------------------------------------------------------------
(* The statements                                                          *)
StatementIs(do) == Statement /\ Head(todo).do = do

(* What a statement of the upgrades that does not touch the rows leaves    *)
LEMMA Effects ==
  ASSUME NEW do, StatementIs(do)
  PROVE  /\ chanserv' = RowsAfter(do) /\ keys' = KeysAfter(do) /\ columns' = ColumnsAfter(do)
         /\ chanserv_suspensions' = SuspensionsAfter(do)
         /\ do # "record" => ircsvs_tables' = ircsvs_tables
         /\ do = "record" => ircsvs_tables' = ircsvs_tables \union {Head(todo).version}
         /\ UNCHANGED <<checked, misread, stops, registered>>
         /\ todo # <<>> /\ Accepted(do) /\ todo' = Tail(todo)
BY DEF StatementIs, Statement, Recorded

LEMMA StatementTyped ==
  ASSUME NEW do, StatementIs(do), TablesTyped
  PROVE  TablesTyped'
<1>1. chanserv' \subseteq Channel
  <2>1. LostSuccessors \subseteq Channel
    BY DEF TablesTyped, LostSuccessors, Channel, Nick, NoNick
  <2>2. LostFounders \subseteq Channel
    BY DEF TablesTyped, LostFounders, Channel, Nick, NoNick
  <2>3. Nullable \subseteq Channel
    BY DEF TablesTyped, Nullable, Channel, Nick
  <2>4. RowsAfter(do) \in {LostSuccessors, LostFounders, Nullable, {}, chanserv}
    BY DEF RowsAfter
  <2>5. chanserv \subseteq Channel
    BY DEF TablesTyped
  <2>6. QED
    BY <2>1, <2>2, <2>3, <2>4, <2>5, Effects
<1>2. columns' \in [tmp : BOOLEAN, converted : Nat, nullable : BOOLEAN]
  <2> DEFINE C == [tmp : BOOLEAN, converted : Nat, nullable : BOOLEAN]
  <2>1. columns \in C
    BY DEF TablesTyped
  <2>2. [columns EXCEPT !.tmp = TRUE] \in C
    BY <2>1
  <2>3. [columns EXCEPT !.tmp = FALSE, !.converted = @ + 1] \in C
    <3>1. columns.converted + 1 \in Nat
      BY <2>1
    <3>2. [columns EXCEPT !.tmp = FALSE] \in C
      BY <2>1
    <3>3. ASSUME NEW d \in C, NEW n \in Nat PROVE [d EXCEPT !.converted = n] \in C
      OBVIOUS
    <3>4. QED
      BY <3>1, <3>2, <3>3
  <2>4. [columns EXCEPT !.nullable = TRUE] \in C
    BY <2>1
  <2>5. [tmp |-> FALSE, converted |-> 1, nullable |-> TRUE] \in C
    OBVIOUS
  <2> HIDE DEF C
  <2>6. ColumnsAfter(do) \in C
    BY <2>1, <2>2, <2>3, <2>4, <2>5 DEF ColumnsAfter
  <2>7. columns' \in C
    BY <2>6, Effects
  <2>8. QED
    BY <2>7 DEF C
<1>3. keys' \subseteq ForeignKeys
  <2>1. keys \subseteq ForeignKeys
    BY DEF TablesTyped
  <2>2. KeysAfter(do) \subseteq ForeignKeys
    BY <2>1 DEF KeysAfter
  <2>3. QED
    BY <2>2, Effects
<1>4. UNCHANGED <<misread, stops, registered>>
  BY Effects
<1>5. QED
  BY <1>1, <1>2, <1>3, <1>4 DEF TablesTyped

(* What depends on the rows, and what on the columns and the keys          *)
LEMMA RowsSame ==
  ASSUME NEW c, Version(c), ChannelsKept, UNCHANGED <<ircsvs_tables, chanserv, registered>>
  PROVE  Version(c)' /\ ChannelsKept'
<1>1. ircsvs_tables' = ircsvs_tables /\ chanserv' = chanserv /\ registered' = registered
  OBVIOUS
<1>2. Version(c)'
  BY <1>1 DEF Version
<1>3. ChannelsKept'
  BY <1>1 DEF ChannelsKept, OnItsWay
<1>4. QED
  BY <1>2, <1>3

LEMMA ConvertedSame ==
  ASSUME NEW c, Converted(c), UNCHANGED <<columns, stops>>
  PROVE  Converted(c)'
<1>1. columns' = columns /\ stops' = stops
  OBVIOUS
<1>2. QED
  BY <1>1 DEF Converted

LEMMA AddColumns ==
  ASSUME TablesTyped, Level(1), Stage(1), StatementIs("add_columns")
  PROVE  Level(1)' /\ Stage(2)'
<1>1. RowsAfter("add_columns") = chanserv /\ KeysAfter("add_columns") = keys
      /\ ColumnsAfter("add_columns") = [columns EXCEPT !.tmp = TRUE]
      /\ SuspensionsAfter("add_columns") = chanserv_suspensions
  BY DEF RowsAfter, KeysAfter, ForeignKeys, ColumnsAfter, SuspensionsAfter
<1>2. /\ columns' = [columns EXCEPT !.tmp = TRUE]
      /\ UNCHANGED <<chanserv, keys, chanserv_suspensions, ircsvs_tables, stops, registered>>
  BY <1>1, Effects
<1>3. columns'.tmp /\ columns'.converted = columns.converted /\ columns'.nullable = columns.nullable
  BY <1>2 DEF TablesTyped
<1>4. stops = 0 => columns.converted = 0
  BY DEF Stage
<1>5. Stage(2)'
  BY <1>2, <1>3, <1>4 DEF Stage
<1>6. Version(1)' /\ ChannelsKept'
  BY <1>2, RowsSame DEF Level
<1>7. Converted(1)'
  BY DEF Converted
<1>8. RowsFit(1)'
  BY <1>2, <1>3 DEF Level, RowsFit
<1>9. QED
  BY <1>5, <1>6, <1>7, <1>8 DEF Level

LEMMA ChangeColumns ==
  ASSUME TablesTyped, Level(1), Stage(2), StatementIs("change_columns")
  PROVE  Level(1)' /\ Stage(3)'
<1>1. RowsAfter("change_columns") = chanserv /\ KeysAfter("change_columns") = keys
      /\ ColumnsAfter("change_columns") = [columns EXCEPT !.tmp = FALSE, !.converted = @ + 1]
      /\ SuspensionsAfter("change_columns") = chanserv_suspensions
  BY DEF RowsAfter, KeysAfter, ForeignKeys, ColumnsAfter, SuspensionsAfter
<1>2. /\ columns' = [columns EXCEPT !.tmp = FALSE, !.converted = @ + 1]
      /\ UNCHANGED <<chanserv, keys, chanserv_suspensions, ircsvs_tables, stops, registered>>
  BY <1>1, Effects
<1>3. /\ ~columns'.tmp /\ columns'.converted = columns.converted + 1
      /\ columns'.nullable = columns.nullable /\ columns.converted \in Nat
  BY <1>2 DEF TablesTyped
<1>4. stops = 0 => columns.converted = 0
  BY DEF Stage
<1>5. Converted(2)'
  BY <1>2, <1>3, <1>4 DEF Converted
<1>6. Stage(3)'
  BY <1>5 DEF Stage
<1>7. Version(1)' /\ ChannelsKept'
  BY <1>2, RowsSame DEF Level
<1>8. Converted(1)'
  BY DEF Converted
<1>9. RowsFit(1)'
  BY <1>2, <1>3 DEF Level, RowsFit
<1>10. QED
  BY <1>6, <1>7, <1>8, <1>9 DEF Level

(* A version that is recorded, and nothing else                            *)
LEMMA Records ==
  ASSUME StatementIs("record")
  PROVE  /\ UNCHANGED <<chanserv, keys, columns, chanserv_suspensions, stops, registered>>
         /\ ircsvs_tables' = ircsvs_tables \union {Head(todo).version}
<1>1. RowsAfter("record") = chanserv /\ KeysAfter("record") = keys
      /\ ColumnsAfter("record") = columns /\ SuspensionsAfter("record") = chanserv_suspensions
  BY DEF RowsAfter, KeysAfter, ForeignKeys, ColumnsAfter, SuspensionsAfter
<1>2. QED
  BY <1>1, Effects

LEMMA RecordVersion ==
  ASSUME NEW c \in 1..3, Level(c), StatementIs("record"), Head(todo).version = c + 1
  PROVE  Version(c + 1)' /\ ChannelsKept'
<1>1. ircsvs_tables' = ircsvs_tables \union {c + 1} /\ chanserv' = chanserv
      /\ registered' = registered
  BY Records
<1>2. Version(c + 1)'
  BY <1>1 DEF Level, Version
<1>3. ChannelsKept'
  BY <1>1 DEF Level, ChannelsKept, OnItsWay
<1>4. QED
  BY <1>2, <1>3

LEMMA Record2 ==
  ASSUME TablesTyped, Level(1), Stage(3), StatementIs("record"), Head(todo).version = 2
  PROVE  Level(2)' /\ Stage(First(2))'
<1>1. Version(2)' /\ ChannelsKept'
  BY RecordVersion
<1>2. Converted(2)'
  BY Records DEF Stage, Converted
<1>3. RowsFit(2)'
  BY Records DEF Level, RowsFit
<1>4. Stage(4)'
  <2>1. NotYetKeyed
    BY DEF Level, RowsFit, Stage, Converted, NotYetKeyed
  <2>2. NotYetKeyed'
    BY <2>1, Records DEF NotYetKeyed
  <2>3. QED
    BY <2>2 DEF Stage
<1>5. QED
  BY <1>1, <1>2, <1>3, <1>4 DEF Level, First

LEMMA Record3 ==
  ASSUME TablesTyped, Level(2), Stage(9), StatementIs("record"), Head(todo).version = 3
  PROVE  Level(3)' /\ Stage(First(3))'
<1>1. Version(3)' /\ ChannelsKept'
  BY RecordVersion
<1>2. Converted(3)'
  BY Records DEF Level, Converted
<1>3. RowsFit(3)'
  BY Records DEF Stage, RowsFit
<1>4. Stage(10)'
  BY DEF Stage
<1>5. QED
  BY <1>1, <1>2, <1>3, <1>4 DEF Level, First

LEMMA Record4 ==
  ASSUME TablesTyped, Level(3), Stage(12), StatementIs("record"), Head(todo).version = 4
  PROVE  Level(4)'
<1>1. Version(4)' /\ ChannelsKept'
  BY RecordVersion
<1>2. Converted(4)'
  BY Records DEF Level, Converted
<1>3. keys' = ForeignKeys
  BY Records DEF Level, RowsFit
<1>4. chanserv_suspensions' = Suspended'
  BY Records DEF Stage, Suspended
<1>5. RowsFit(4)'
  BY <1>3, <1>4 DEF RowsFit
<1>6. QED
  BY <1>1, <1>2, <1>5 DEF Level

LEMMA LostSuccessorsSet ==
  ASSUME TablesTyped, Level(2), Stage(4), StatementIs("lost_successors")
  PROVE  Level(2)' /\ Stage(5)'
<1>1. /\ chanserv' = LostSuccessors
      /\ UNCHANGED <<columns, keys, chanserv_suspensions, ircsvs_tables, stops, registered>>
  BY Effects DEF RowsAfter, KeysAfter, ForeignKeys, ColumnsAfter, SuspensionsAfter
<1>2. \A q \in chanserv : q \in Channel
  BY DEF TablesTyped
<1> DEFINE To(q) == IF q.successor \in LostSnids THEN [q EXCEPT !.successor = NoNick] ELSE q
<1>3. chanserv' = {To(q) : q \in chanserv}
  BY <1>1 DEF LostSuccessors
<1>4. ASSUME NEW q \in Channel
      PROVE  /\ To(q).scid = q.scid /\ To(q).founder = q.founder
             /\ To(q).successor \notin LostSnids
             /\ q.successor \notin LostSnids => To(q).successor = q.successor
             /\ q.successor \in LostSnids => To(q).successor = NoNick
  BY <1>4, TableVersionsAssumption DEF Channel, NoNick, NULL
<1> HIDE DEF To
<1>5. NoLostSuccessor'
  BY <1>2, <1>3, <1>4 DEF NoLostSuccessor
<1>6. Stage(5)'
  BY <1>1, <1>5 DEF Stage, NotYetKeyed
<1>7. Version(2)' /\ Converted(2)'
  BY <1>1 DEF Level, Version, Converted
<1>8. ChannelsKept'
  <2>1. ASSUME NEW r \in registered, NEW q \in chanserv, OnItsWay(r, q),
               r.founder \in LostSnids => r.successor \in Snids
        PROVE  OnItsWay(r, To(q))
    <3>1. q.successor \in Snids => To(q).successor = q.successor
      BY <1>2, <1>4, TableVersionsAssumption
    <3>2. To(q).scid = q.scid /\ To(q).founder = q.founder
      BY <1>2, <1>4
    <3>3. QED
      BY <2>1, <3>1, <3>2 DEF OnItsWay
  <2>2. ASSUME NEW r \in registered, r.founder \in LostSnids => r.successor \in Snids
        PROVE  \E q \in chanserv' : OnItsWay(r, q)
    <3>1. PICK q \in chanserv : OnItsWay(r, q)
      BY <2>2 DEF Level, ChannelsKept
    <3>2. To(q) \in chanserv'
      BY <1>3
    <3>3. QED
      BY <2>1, <2>2, <3>1, <3>2
  <2>3. registered' = registered
    BY <1>1
  <2>4. QED
    BY <2>2, <2>3 DEF ChannelsKept, OnItsWay
<1>9. RowsFit(2)'
  <2>1. ASSUME columns.nullable, NEW q \in chanserv
        PROVE  {To(q).founder, To(q).successor} \subseteq Snids \union {NULL}
    <3>1. {q.founder, q.successor} \subseteq Snids \union {NULL}
      BY <2>1 DEF Level, RowsFit
    <3>2. q.successor \notin LostSnids
      BY <3>1, TableVersionsAssumption DEF NULL
    <3>3. QED
      BY <1>2, <1>4, <3>1, <3>2
  <2>2. ASSUME ~columns.nullable, NEW q \in chanserv
        PROVE  NULL \notin {To(q).founder, To(q).successor}
    <3>1. NULL \notin {q.founder, q.successor}
      BY <2>2 DEF Level, RowsFit
    <3>2. NoNick = 0
      BY <2>2 DEF NoNick
    <3>3. QED
      BY <1>2, <1>4, <3>1, <3>2 DEF NULL
  <2>3. ~columns.nullable => keys = {}
    BY DEF Level, RowsFit
  <2>4. columns' = columns /\ keys' = keys
    BY <1>1
  <2>5. QED
    BY <1>3, <2>1, <2>2, <2>3, <2>4 DEF RowsFit
<1>10. QED
  BY <1>6, <1>7, <1>8, <1>9 DEF Level

LEMMA LostFoundersSet ==
  ASSUME TablesTyped, Level(2), Stage(5), StatementIs("lost_founders")
  PROVE  Level(2)' /\ Stage(6)'
<1>1. /\ chanserv' = LostFounders
      /\ UNCHANGED <<columns, keys, chanserv_suspensions, ircsvs_tables, stops, registered>>
  BY Effects DEF RowsAfter, KeysAfter, ForeignKeys, ColumnsAfter, SuspensionsAfter
<1>2. \A q \in chanserv : q \in Channel /\ q.successor \notin LostSnids
  BY DEF TablesTyped, Stage, NoLostSuccessor
<1> DEFINE Stays(q) == ~(q.founder \in LostSnids /\ q.successor = 0)
           To(q) == IF q.founder \in LostSnids /\ q.successor # NULL
                    THEN [q EXCEPT !.founder = q.successor, !.successor = NoNick] ELSE q
<1>3. chanserv' = {To(q) : q \in {p \in chanserv : Stays(p)}}
  BY <1>1 DEF LostFounders
<1>4. ASSUME NEW q \in Channel
      PROVE  /\ To(q).scid = q.scid
             /\ q.founder \notin LostSnids => To(q) = q
             /\ q.founder \in LostSnids /\ q.successor # NULL =>
                  To(q).founder = q.successor /\ To(q).successor = NoNick
  BY <1>4 DEF Channel
<1>41. \A q \in chanserv : q.founder \in LostSnids => q.successor # NULL
  <2>1. TAKE q \in chanserv
  <2>2. CASE columns.nullable
    <3>1. {q.founder, q.successor} \subseteq Snids \union {NULL}
      BY <2>2 DEF Level, RowsFit
    <3>2. QED
      BY <3>1, TableVersionsAssumption DEF NULL
  <2>3. CASE ~columns.nullable
    BY <2>3 DEF Level, RowsFit
  <2>4. QED
    BY <2>2, <2>3
<1> HIDE DEF To
<1>5. /\ \A q \in chanserv : To(q).founder \notin LostSnids /\ To(q).successor \notin LostSnids
  <2>1. NoNick \notin LostSnids
    BY TableVersionsAssumption DEF NoNick, NULL
  <2>2. QED
    BY <1>2, <1>4, <1>41, <2>1
<1>51. NoLostSuccessor' /\ NoLostFounder'
  BY <1>3, <1>5 DEF NoLostSuccessor, NoLostFounder
<1>6. Stage(6)'
  BY <1>1, <1>51 DEF Stage, NotYetKeyed
<1>7. Version(2)' /\ Converted(2)'
  BY <1>1 DEF Level, Version, Converted
<1>8. ChannelsKept'
  <2>1. ASSUME NEW r \in registered, NEW q \in chanserv, OnItsWay(r, q),
               r.founder \in LostSnids => r.successor \in Snids
        PROVE  OnItsWay(r, To(q)) /\ Stays(q)
    <3>1. q \in Channel
      BY <1>2
    <3>2. CASE q.founder \notin LostSnids
      BY <1>4, <2>1, <3>1, <3>2
    <3>3. CASE q.founder \in LostSnids
      <4>1. /\ r.founder \in LostSnids /\ q.successor = r.successor /\ q.scid = r.scid
            /\ r.successor \in Snids
        BY <2>1, <3>3, TableVersionsAssumption DEF OnItsWay, NULL
      <4>2. q.successor # NULL /\ q.successor # 0
        BY <4>1, TableVersionsAssumption DEF NULL
      <4>3. To(q).founder = r.successor /\ To(q).scid = r.scid
        BY <1>4, <3>1, <3>3, <4>1, <4>2
      <4>4. QED
        BY <4>1, <4>2, <4>3 DEF OnItsWay
    <3>4. QED
      BY <3>2, <3>3
  <2>2. ASSUME NEW r \in registered, r.founder \in LostSnids => r.successor \in Snids
        PROVE  \E q \in chanserv' : OnItsWay(r, q)
    <3>1. PICK q \in chanserv : OnItsWay(r, q)
      BY <2>2 DEF Level, ChannelsKept
    <3>2. OnItsWay(r, To(q)) /\ Stays(q)
      BY <2>1, <2>2, <3>1
    <3>3. To(q) \in chanserv'
      BY <1>3, <3>2
    <3>4. QED
      BY <3>2, <3>3
  <2>3. registered' = registered
    BY <1>1
  <2>4. QED
    BY <2>2, <2>3 DEF ChannelsKept, OnItsWay
<1>9. RowsFit(2)'
  <2>1. ASSUME columns.nullable, NEW q \in chanserv
        PROVE  {To(q).founder, To(q).successor} \subseteq Snids \union {NULL}
    <3>1. {q.founder, q.successor} \subseteq Snids \union {NULL}
      BY <2>1 DEF Level, RowsFit
    <3>2. q.founder \notin LostSnids
      BY <3>1, TableVersionsAssumption DEF NULL
    <3>3. QED
      BY <1>2, <1>4, <3>1, <3>2
  <2>2. ASSUME ~columns.nullable, NEW q \in chanserv
        PROVE  NULL \notin {To(q).founder, To(q).successor}
    <3>1. NULL \notin {q.founder, q.successor}
      BY <2>2 DEF Level, RowsFit
    <3>2. NoNick = 0
      BY <2>2 DEF NoNick
    <3>3. CASE q.founder \notin LostSnids
      BY <1>2, <1>4, <3>1, <3>3
    <3>4. CASE q.founder \in LostSnids
      BY <1>2, <1>4, <3>1, <3>2, <3>4 DEF NULL
    <3>5. QED
      BY <3>3, <3>4
  <2>3. ~columns.nullable => keys = {}
    BY DEF Level, RowsFit
  <2>4. columns' = columns /\ keys' = keys
    BY <1>1
  <2>5. QED
    BY <1>3, <2>1, <2>2, <2>3, <2>4 DEF RowsFit
<1>10. QED
  BY <1>6, <1>7, <1>8, <1>9 DEF Level

LEMMA NullableSet ==
  ASSUME TablesTyped, Level(2), Stage(6), StatementIs("nullable")
  PROVE  Level(2)' /\ Stage(7)'
<1>1. /\ chanserv' = Nullable /\ columns' = [columns EXCEPT !.nullable = TRUE]
      /\ UNCHANGED <<keys, chanserv_suspensions, ircsvs_tables, stops, registered>>
  BY Effects DEF RowsAfter, KeysAfter, ForeignKeys, ColumnsAfter, SuspensionsAfter
<1>2. \A q \in chanserv : q \in Channel /\ q.successor \notin LostSnids /\ q.founder \notin LostSnids
  BY DEF TablesTyped, Stage, NoLostSuccessor, NoLostFounder
<1> DEFINE To(q) == [q EXCEPT !.founder = IF @ = 0 THEN NULL ELSE @,
                              !.successor = IF @ = 0 THEN NULL ELSE @]
<1>3. chanserv' = {To(q) : q \in chanserv}
  BY <1>1 DEF Nullable
<1>4. ASSUME NEW q \in Channel
      PROVE  /\ To(q).scid = q.scid
             /\ To(q).founder = IF q.founder = 0 THEN NULL ELSE q.founder
             /\ To(q).successor = IF q.successor = 0 THEN NULL ELSE q.successor
  BY <1>4 DEF Channel
<1> HIDE DEF To
<1>5. /\ columns'.nullable /\ columns'.tmp = columns.tmp
      /\ columns'.converted = columns.converted
  BY <1>1 DEF TablesTyped
<1>6. Stage(7)'
  BY <1>1, <1>5 DEF Stage, NotYetKeyed
<1>7. Version(2)' /\ Converted(2)'
  BY <1>1, <1>5 DEF Level, Version, Converted
<1>8. ChannelsKept'
  <2>1. ASSUME NEW r \in registered, NEW q \in chanserv, OnItsWay(r, q),
               r.founder \in LostSnids => r.successor \in Snids
        PROVE  OnItsWay(r, To(q))
    <3>1. /\ To(q).scid = q.scid
          /\ To(q).founder = IF q.founder = 0 THEN NULL ELSE q.founder
          /\ To(q).successor = IF q.successor = 0 THEN NULL ELSE q.successor
      BY <1>2, <1>4
    <3>2. 0 \notin Snids /\ 0 \notin LostSnids
      BY TableVersionsAssumption
    <3>3. QED
      BY <2>1, <3>1, <3>2 DEF OnItsWay
  <2>2. ASSUME NEW r \in registered, r.founder \in LostSnids => r.successor \in Snids
        PROVE  \E q \in chanserv' : OnItsWay(r, q)
    <3>1. PICK q \in chanserv : OnItsWay(r, q)
      BY <2>2 DEF Level, ChannelsKept
    <3>2. To(q) \in chanserv'
      BY <1>3
    <3>3. QED
      BY <2>1, <2>2, <3>1, <3>2
  <2>3. registered' = registered
    BY <1>1
  <2>4. QED
    BY <2>2, <2>3 DEF ChannelsKept, OnItsWay
<1>9. RowsFit(2)'
  <2>1. ASSUME NEW q \in chanserv
        PROVE  {To(q).founder, To(q).successor} \subseteq Snids \union {NULL}
    <3>1. /\ q.founder \in Snids \union {0, NULL} /\ q.successor \in Snids \union {0, NULL}
      BY <1>2 DEF Channel, Nick
    <3>2. QED
      BY <1>2, <1>4, <3>1
  <2>2. QED
    BY <1>3, <1>5, <2>1 DEF RowsFit
<1>10. QED
  BY <1>6, <1>7, <1>8, <1>9 DEF Level

LEMMA FounderKey ==
  ASSUME TablesTyped, Level(2), Stage(7), StatementIs("founder")
  PROVE  Level(2)' /\ Stage(8)'
<1>1. /\ keys' = keys \union {"founder"}
      /\ UNCHANGED <<chanserv, columns, chanserv_suspensions, ircsvs_tables, stops, registered>>
  BY Effects DEF RowsAfter, KeysAfter, ForeignKeys, ColumnsAfter, SuspensionsAfter
<1>2. columns.nullable
  BY DEF Stage
<1>3. Stage(8)'
  <2>1. stops = 0 => keys = {}
    BY DEF Stage, NotYetKeyed
  <2>2. QED
    BY <1>1, <1>2, <2>1 DEF Stage
<1>4. Version(2)' /\ Converted(2)' /\ ChannelsKept'
  BY <1>1 DEF Level, Version, Converted, ChannelsKept, OnItsWay
<1>5. RowsFit(2)'
  BY <1>1, <1>2 DEF Level, RowsFit
<1>6. QED
  BY <1>3, <1>4, <1>5 DEF Level

LEMMA SuccessorKey ==
  ASSUME TablesTyped, Level(2), Stage(8), StatementIs("successor")
  PROVE  Level(2)' /\ Stage(9)'
<1>1. /\ keys' = keys \union {"successor"}
      /\ UNCHANGED <<chanserv, columns, chanserv_suspensions, ircsvs_tables, stops, registered>>
  BY Effects DEF RowsAfter, KeysAfter, ForeignKeys, ColumnsAfter, SuspensionsAfter
<1>2. columns.nullable /\ "founder" \in keys /\ keys \subseteq ForeignKeys
  BY DEF Stage, TablesTyped
<1>3. Stage(9)'
  <2>1. keys' = ForeignKeys
    BY <1>1, <1>2 DEF ForeignKeys
  <2>2. QED
    BY <1>1, <1>2, <2>1 DEF Stage
<1>4. Version(2)' /\ Converted(2)' /\ ChannelsKept'
  BY <1>1 DEF Level, Version, Converted, ChannelsKept, OnItsWay
<1>5. RowsFit(2)'
  BY <1>1, <1>2 DEF Level, RowsFit
<1>6. QED
  BY <1>3, <1>4, <1>5 DEF Level

LEMMA SuspensionsSet ==
  ASSUME TablesTyped, Level(3), NEW do \in {"create_suspensions", "import_suspensions"},
         StatementIs(do)
  PROVE  Level(3)' /\ (do = "create_suspensions" => Stage(11)')
         /\ (do = "import_suspensions" => Stage(12)')
<1>1. /\ chanserv_suspensions' = SuspensionsAfter(do)
      /\ UNCHANGED <<chanserv, columns, keys, ircsvs_tables, stops, registered>>
  BY Effects DEF RowsAfter, KeysAfter, ForeignKeys, ColumnsAfter
<1>2. do = "create_suspensions" => Stage(11)'
  BY <1>1 DEF Stage, SuspensionsAfter
<1>3. do = "import_suspensions" => Stage(12)'
  BY <1>1 DEF Stage, SuspensionsAfter, Suspended
<1>4. Version(3)' /\ Converted(3)' /\ ChannelsKept'
  BY <1>1 DEF Level, Version, Converted, ChannelsKept, OnItsWay
<1>5. RowsFit(3)'
  BY <1>1 DEF Level, RowsFit
<1>6. QED
  BY <1>2, <1>3, <1>4, <1>5 DEF Level

(* The installation                                                        *)
LEMMA InstallationStep ==
  ASSUME TablesTyped, Level(0), NEW j \in 1..4, todo = From(Installation, j), Installed(j),
         Statement
  PROVE  \/ j < 4 /\ Level(0)' /\ Installed(j + 1)' /\ todo' = From(Installation, j + 1)
         \/ j = 4 /\ Level(4)' /\ todo' = <<>>
<1>1. /\ Head(todo) = Installation[j] /\ Tail(todo) = From(Installation, j + 1)
      /\ From(Installation, 5) = <<>>
  BY InstallationFrom
<1>2. todo' = From(Installation, j + 1)
  BY <1>1 DEF Statement
<1>3. registered = {} /\ chanserv = {} /\ columns.converted <= 1
  BY DEF Level, RowsFit
<1>4. CASE j \in 1..3
  <2>1. /\ ircsvs_tables' = ircsvs_tables /\ registered' = {} /\ chanserv' = {}
        /\ columns'.converted <= 1
        /\ j = 1 => keys' = {}
        /\ j >= 2 => keys' = ForeignKeys
        /\ j >= 2 => ~columns'.tmp /\ columns'.converted = 1
        /\ j = 3 => chanserv_suspensions' = {}
    <3>1. CASE j = 1
      <4>1. StatementIs("drop")
        BY <1>1, <3>1, InstallationItems DEF StatementIs
      <4>2. QED
        BY <1>3, <3>1, <4>1, Effects DEF RowsAfter, KeysAfter, ColumnsAfter
    <3>2. CASE j = 2
      <4>1. StatementIs("create")
        BY <1>1, <3>2, InstallationItems DEF StatementIs
      <4>2. QED
        BY <1>3, <3>2, <4>1, Effects DEF RowsAfter, KeysAfter, ColumnsAfter
    <3>3. CASE j = 3
      <4>1. StatementIs("create_suspensions")
        BY <1>1, <3>3, InstallationItems DEF StatementIs
      <4>2. keys = ForeignKeys /\ ~columns.tmp /\ columns.converted = 1
        BY <3>3 DEF Installed
      <4>3. QED
        BY <1>3, <3>3, <4>1, <4>2, Effects
        DEF RowsAfter, KeysAfter, ColumnsAfter, SuspensionsAfter, ForeignKeys
    <3>4. QED
      BY <1>4, <3>1, <3>2, <3>3
  <2>2. Installed(j + 1)'
    BY <1>4, <2>1 DEF Installed
  <2>3. Version(0)' /\ ChannelsKept' /\ Converted(0)'
    BY <2>1 DEF Level, Version, ChannelsKept, Converted
  <2>4. RowsFit(0)'
    BY <2>1 DEF RowsFit
  <2>5. QED
    BY <1>2, <1>4, <2>2, <2>3, <2>4 DEF Level
<1>5. CASE j = 4
  <2>1. StatementIs("record") /\ Head(todo).version = 4
    BY <1>1, <1>5, InstallationItems DEF StatementIs
  <2>2. /\ keys = ForeignKeys /\ ~columns.tmp /\ columns.converted = 1
        /\ chanserv_suspensions = {} /\ ircsvs_tables = {}
    BY <1>5 DEF Installed, Level, Version
  <2>3. /\ keys' = ForeignKeys /\ columns' = columns /\ chanserv_suspensions' = {}
        /\ ircsvs_tables' = {4} /\ chanserv' = {} /\ registered' = {}
    BY <1>3, <2>1, <2>2, Records
  <2>4. Version(4)' /\ ChannelsKept' /\ Converted(4)'
    BY <2>2, <2>3 DEF Version, ChannelsKept, Converted
  <2>5. Suspended' = {}
    BY <2>3 DEF Suspended
  <2>6. RowsFit(4)'
    BY <2>3, <2>5 DEF RowsFit
  <2>7. QED
    BY <1>1, <1>2, <1>5, <2>4, <2>6 DEF Level
<1>6. QED
  BY <1>4, <1>5

(* A statement of the upgrades                                             *)
LEMMA UpgradeStep ==
  ASSUME TablesTyped, NEW c \in 1..3, Level(c), NEW k \in First(c)..First(c + 1) - 1,
         todo = From(Upgrades, k), Stage(k), Statement
  PROVE  \/ k + 1 < First(c + 1) /\ Level(c)' /\ Stage(k + 1)' /\ todo' = From(Upgrades, k + 1)
         \/ c < 3 /\ Level(c + 1)' /\ Stage(First(c + 1))' /\ todo' = From(Upgrades, First(c + 1))
         \/ c = 3 /\ Level(4)' /\ todo' = <<>>
<1>1. k \in 1..12
  BY DEF First
<1>2. /\ Head(todo) = Upgrades[k] /\ Tail(todo) = From(Upgrades, k + 1)
      /\ From(Upgrades, 13) = <<>>
  BY <1>1, UpgradesFrom
<1>3. todo' = From(Upgrades, k + 1)
  BY <1>2 DEF Statement
<1>4. CASE c = 1
  <2>1. k \in 1..3 /\ First(2) = 4 /\ First(c + 1) = 4
    BY <1>4 DEF First
  <2>2. CASE k = 1
    <3>1. StatementIs("add_columns")
      BY <1>2, <2>2, UpgradesItems DEF StatementIs
    <3>2. QED
      BY <1>3, <1>4, <2>1, <2>2, <3>1, AddColumns
  <2>3. CASE k = 2
    <3>1. StatementIs("change_columns")
      BY <1>2, <2>3, UpgradesItems DEF StatementIs
    <3>2. QED
      BY <1>3, <1>4, <2>1, <2>3, <3>1, ChangeColumns
  <2>4. CASE k = 3
    <3>1. StatementIs("record") /\ Head(todo).version = 2
      BY <1>2, <2>4, UpgradesItems DEF StatementIs
    <3>2. QED
      BY <1>3, <1>4, <2>1, <2>4, <3>1, Record2
  <2>5. QED
    BY <2>1, <2>2, <2>3, <2>4
<1>5. CASE c = 2
  <2>1. k \in 4..9 /\ First(3) = 10 /\ First(c + 1) = 10
    BY <1>5 DEF First
  <2>2. CASE k = 4
    <3>1. StatementIs("lost_successors")
      BY <1>2, <2>2, UpgradesItems DEF StatementIs
    <3>2. QED
      BY <1>3, <1>5, <2>1, <2>2, <3>1, LostSuccessorsSet
  <2>3. CASE k = 5
    <3>1. StatementIs("lost_founders")
      BY <1>2, <2>3, UpgradesItems DEF StatementIs
    <3>2. QED
      BY <1>3, <1>5, <2>1, <2>3, <3>1, LostFoundersSet
  <2>4. CASE k = 6
    <3>1. StatementIs("nullable")
      BY <1>2, <2>4, UpgradesItems DEF StatementIs
    <3>2. QED
      BY <1>3, <1>5, <2>1, <2>4, <3>1, NullableSet
  <2>5. CASE k = 7
    <3>1. StatementIs("founder")
      BY <1>2, <2>5, UpgradesItems DEF StatementIs
    <3>2. QED
      BY <1>3, <1>5, <2>1, <2>5, <3>1, FounderKey
  <2>6. CASE k = 8
    <3>1. StatementIs("successor")
      BY <1>2, <2>6, UpgradesItems DEF StatementIs
    <3>2. QED
      BY <1>3, <1>5, <2>1, <2>6, <3>1, SuccessorKey
  <2>7. CASE k = 9
    <3>1. StatementIs("record") /\ Head(todo).version = 3
      BY <1>2, <2>7, UpgradesItems DEF StatementIs
    <3>2. QED
      BY <1>3, <1>5, <2>1, <2>7, <3>1, Record3
  <2>8. QED
    BY <2>1, <2>2, <2>3, <2>4, <2>5, <2>6, <2>7
<1>6. CASE c = 3
  <2>1. k \in 10..12 /\ First(4) = 13 /\ First(c + 1) = 13
    BY <1>6 DEF First
  <2>2. CASE k = 10
    <3>1. StatementIs("create_suspensions")
      BY <1>2, <2>2, UpgradesItems DEF StatementIs
    <3>2. QED
      BY <1>3, <1>6, <2>1, <2>2, <3>1, SuspensionsSet
  <2>3. CASE k = 11
    <3>1. StatementIs("import_suspensions")
      BY <1>2, <2>3, UpgradesItems DEF StatementIs
    <3>2. QED
      BY <1>3, <1>6, <2>1, <2>3, <3>1, SuspensionsSet
  <2>4. CASE k = 12
    <3>1. StatementIs("record") /\ Head(todo).version = 4
      BY <1>2, <2>4, UpgradesItems DEF StatementIs
    <3>2. todo' = <<>>
      BY <1>2, <1>3, <2>4
    <3>3. QED
      BY <1>6, <2>4, <3>1, <3>2, Record4
  <2>5. QED
    BY <2>1, <2>2, <2>3, <2>4
<1>7. QED
  BY <1>4, <1>5, <1>6

LEMMA StatementInv ==
  ASSUME TablesInv, Statement
  PROVE  TablesInv'
<1>1. TablesTyped'
  <2>1. StatementIs(Head(todo).do)
    BY DEF StatementIs
  <2>2. QED
    BY <2>1, StatementTyped DEF TablesInv
<1>2. checked' = checked /\ misread' = misread /\ todo # <<>>
  BY DEF Statement
<1>3. checked
  BY <1>2 DEF TablesInv, TablesTyped
<1>4. ASSUME ~misread PROVE \E c \in 0..4 : Level(c)' /\ Progress(c)'
  <2>1. PICK c \in 0..4 : Level(c) /\ Progress(c)
    BY <1>4 DEF TablesInv
  <2>2. TablesTyped
    BY DEF TablesInv
  <2>3. CASE c = 0 /\ \E j \in 1..4 : todo = From(Installation, j) /\ Installed(j)
    <3>1. PICK j \in 1..4 : todo = From(Installation, j) /\ Installed(j)
      BY <2>3
    <3>2. \/ j < 4 /\ Level(0)' /\ Installed(j + 1)' /\ todo' = From(Installation, j + 1)
          \/ j = 4 /\ Level(4)' /\ todo' = <<>>
      BY <2>1, <2>2, <2>3, <3>1, InstallationStep
    <3>3. CASE j < 4
      <4>1. j + 1 \in 1..4
        BY <3>3
      <4>2. Progress(0)'
        BY <3>2, <3>3, <4>1 DEF Progress
      <4>3. QED
        BY <3>2, <3>3, <4>2
    <3>4. CASE j = 4
      <4>1. Progress(4)'
        BY <3>2, <3>4 DEF Progress
      <4>2. QED
        BY <3>2, <3>4, <4>1
    <3>5. QED
      BY <3>3, <3>4
  <2>4. CASE c \in 1..3 /\ \E k \in First(c)..First(c + 1) - 1 : todo = From(Upgrades, k) /\ Stage(k)
    <3>1. PICK k \in First(c)..First(c + 1) - 1 : todo = From(Upgrades, k) /\ Stage(k)
      BY <2>4
    <3>2. \/ k + 1 < First(c + 1) /\ Level(c)' /\ Stage(k + 1)' /\ todo' = From(Upgrades, k + 1)
          \/ c < 3 /\ Level(c + 1)' /\ Stage(First(c + 1))' /\ todo' = From(Upgrades, First(c + 1))
          \/ c = 3 /\ Level(4)' /\ todo' = <<>>
      BY <2>1, <2>2, <2>4, <3>1, UpgradeStep
    <3>3. CASE k + 1 < First(c + 1) /\ Level(c)' /\ Stage(k + 1)' /\ todo' = From(Upgrades, k + 1)
      <4>1. k + 1 \in First(c)..First(c + 1) - 1
        BY <2>4, <3>3 DEF First
      <4>2. Progress(c)'
        BY <2>4, <3>3, <4>1 DEF Progress
      <4>3. QED
        BY <3>3, <4>2
    <3>4. CASE c < 3 /\ Level(c + 1)' /\ Stage(First(c + 1))' /\ todo' = From(Upgrades, First(c + 1))
      <4>1. /\ c + 1 \in 1..3
            /\ First(c + 1) \in First(c + 1)..First(c + 1 + 1) - 1
        BY <2>4, <3>4 DEF First
      <4>2. Progress(c + 1)'
        BY <3>4, <4>1 DEF Progress
      <4>3. QED
        BY <3>4, <4>1, <4>2
    <3>5. CASE c = 3 /\ Level(4)' /\ todo' = <<>>
      <4>1. Progress(4)'
        BY <3>5 DEF Progress
      <4>2. QED
        BY <3>5, <4>1
    <3>6. QED
      BY <3>2, <3>3, <3>4, <3>5
  <2>5. QED
    BY <1>2, <2>1, <2>3, <2>4 DEF Progress
<1>5. QED
  BY <1>1, <1>2, <1>3, <1>4 DEF TablesInv

LEMMA ChecksInv ==
  ASSUME TablesInv, Checks
  PROVE  TablesInv'
<1>1. /\ UNCHANGED <<ircsvs_tables, chanserv, columns, keys, chanserv_suspensions, stops, registered>>
      /\ checked' = TRUE /\ todo = <<>>
  BY DEF Checks, TablesInv
<1>2. PICK read \in {current_version, 0} : /\ todo' = Plan(read)
                                           /\ misread' = (misread \/ read # current_version)
  BY DEF Checks
<1>3. TablesTyped'
  BY <1>1, <1>2 DEF TablesInv, TablesTyped
<1>4. ASSUME ~misread' PROVE \E c \in 0..4 : Level(c)' /\ Progress(c)'
  <2>1. ~misread /\ read = current_version
    BY <1>2, <1>4
  <2>2. PICK c \in 0..4 : Level(c) /\ Progress(c)
    BY <2>1 DEF TablesInv
  <2>3. todo' = Plan(c)
    BY <1>2, <2>1, <2>2, CurrentVersion DEF Level
  <2>4. Level(c)'
    <3>1. Version(c)' /\ ChannelsKept' /\ Converted(c)' /\ RowsFit(c)'
      BY <1>1, <2>2 DEF Level, Version, ChannelsKept, OnItsWay, Converted, RowsFit, Suspended
    <3>2. QED
      BY <3>1 DEF Level
  <2>5. CASE c = 0
    <3>1. todo' = From(Installation, 1)
      BY <2>3, <2>5, PlanFrom
    <3>2. Installed(1)'
      BY DEF Installed
    <3>3. Progress(0)'
      BY <3>1, <3>2 DEF Progress
    <3>4. QED
      BY <2>4, <2>5, <3>3
  <2>6. CASE c \in 1..3
    <3>1. Stage(First(c))
      <4>1. \A k \in First(c)..First(c + 1) - 1 : From(Upgrades, k) # <<>>
        <5>1. TAKE k \in First(c)..First(c + 1) - 1
        <5>2. k \in 1..12
          BY <2>6 DEF First
        <5>3. QED
          BY <5>2, UpgradesFrom
      <4>2. QED
        BY <1>1, <2>2, <2>6, <4>1 DEF Progress
    <3>2. Stage(First(c))'
      BY <1>1, <3>1 DEF Stage, Converted, NoLostSuccessor, NoLostFounder, NotYetKeyed, Suspended
    <3>3. todo' = From(Upgrades, First(c))
      BY <2>3, <2>6, PlanFrom
    <3>4. First(c) \in First(c)..First(c + 1) - 1
      BY <2>6 DEF First
    <3>5. Progress(c)'
      BY <2>6, <3>2, <3>3, <3>4 DEF Progress
    <3>6. QED
      BY <2>4, <3>5
  <2>7. CASE c = 4
    <3>1. todo' = <<>>
      BY <2>3, <2>7, PlanFrom
    <3>2. Progress(4)'
      BY <3>1 DEF Progress
    <3>3. QED
      BY <2>4, <2>7, <3>2
  <2>8. QED
    BY <2>5, <2>6, <2>7
<1>5. QED
  BY <1>1, <1>3, <1>4 DEF TablesInv

(* A start that nothing has cut short has no statement refused.            *)
LEMMA NothingRefused ==
  ASSUME TablesInv, ~misread, stops = 0, todo # <<>>
  PROVE  Accepted(Head(todo).do)
<1>1. PICK c \in 0..4 : Level(c) /\ Progress(c)
  BY DEF TablesInv
<1>2. CASE c = 0 /\ \E j \in 1..4 : todo = From(Installation, j) /\ Installed(j)
  <2>1. PICK j \in 1..4 : todo = From(Installation, j)
    BY <1>2
  <2>2. Head(todo) = Installation[j]
    BY <2>1, InstallationFrom
  <2>3. Head(todo).do \in {"drop", "create", "create_suspensions", "record"}
    BY <2>2, InstallationItems
  <2>4. QED
    BY <2>3 DEF Accepted
<1>3. CASE c \in 1..3 /\ \E k \in First(c)..First(c + 1) - 1 : todo = From(Upgrades, k) /\ Stage(k)
  <2>1. PICK k \in First(c)..First(c + 1) - 1 : todo = From(Upgrades, k) /\ Stage(k)
    BY <1>3
  <2>2. k \in 1..12 /\ (k \in {7, 8} => c = 2)
    BY <1>3 DEF First
  <2>3. Head(todo) = Upgrades[k]
    BY <2>1, <2>2, UpgradesFrom
  <2>4. CASE k = 1
    BY <2>1, <2>3, <2>4, UpgradesItems DEF Stage, Accepted
  <2>5. CASE k = 2
    BY <2>1, <2>3, <2>5, UpgradesItems DEF Stage, Accepted
  <2>6. CASE k \in {7, 8}
    <3>1. \A q \in chanserv : {q.founder, q.successor} \subseteq Snids \union {NULL}
      BY <1>1, <2>1, <2>2, <2>6 DEF Level, RowsFit, Stage
    <3>2. \A q \in chanserv : /\ q.founder \in Snids \union {NULL}
                              /\ q.successor \in Snids \union {NULL}
      BY <3>1
    <3>3. k = 7 => keys = {}
      BY <2>1 DEF Stage, NotYetKeyed
    <3>4. k = 8 => keys = {"founder"}
      BY <2>1 DEF Stage
    <3>5. k = 7 => Head(todo).do = "founder"
      BY <2>3, UpgradesItems
    <3>6. k = 8 => Head(todo).do = "successor"
      BY <2>3, UpgradesItems
    <3>7. QED
      BY <2>6, <3>2, <3>3, <3>4, <3>5, <3>6 DEF Accepted
  <2>7. CASE k \in {3, 4, 5, 6, 9, 10, 11, 12}
    <3>1. Head(todo).do \in {"record", "lost_successors", "lost_founders", "nullable",
                             "create_suspensions", "import_suspensions"}
      BY <2>3, <2>7, UpgradesItems
    <3>2. QED
      BY <3>1 DEF Accepted
  <2>8. QED
    BY <2>2, <2>4, <2>5, <2>6, <2>7
<1>4. QED
  BY <1>1, <1>2, <1>3 DEF Progress

LEMMA StartAgainInv ==
  ASSUME TablesInv, StartAgain
  PROVE  TablesInv'
<1>1. /\ UNCHANGED <<ircsvs_tables, chanserv, columns, keys, chanserv_suspensions, registered>>
      /\ misread' = misread /\ todo' = <<>> /\ todo # <<>> /\ checked' = FALSE
      /\ \/ ~Accepted(Head(todo).do) /\ UNCHANGED stops
         \/ stops' = stops + 1
  BY DEF StartAgain
<1>2. stops \in Nat
  BY DEF TablesInv, TablesTyped
<1>3. TablesTyped'
  BY <1>1, <1>2 DEF TablesInv, TablesTyped
<1>4. ASSUME ~misread PROVE \E c \in 0..4 : Level(c)' /\ Progress(c)'
  <2>1. stops' # 0
    BY <1>1, <1>2, <1>4, NothingRefused
  <2>2. PICK c \in 0..4 : Level(c) /\ Progress(c)
    BY <1>4 DEF TablesInv
  <2>3. Converted(c)'
    BY <1>1, <2>1, <2>2 DEF Level, Converted
  <2>4. Version(c)' /\ ChannelsKept' /\ RowsFit(c)'
    BY <1>1, <2>2 DEF Level, Version, ChannelsKept, OnItsWay, RowsFit, Suspended
  <2>5. c \in 1..3 => Stage(First(c))'
    BY <2>1 DEF Stage, First, NotYetKeyed
  <2>6. Level(c)' /\ Progress(c)'
    BY <1>1, <2>3, <2>4, <2>5 DEF Level, Progress
  <2>7. QED
    BY <2>6
<1>5. QED
  BY <1>1, <1>3, <1>4 DEF TablesInv

LEMMA TablesSame ==
  ASSUME TablesInv, UNCHANGED tablevars
  PROVE  TablesInv'
BY DEF tablevars, TablesInv, TablesTyped, Level, Version, ChannelsKept, OnItsWay, Converted,
       RowsFit, Suspended, Progress, Stage, NotYetKeyed, Installed, NoLostSuccessor, NoLostFounder

LEMMA TablesNextInv ==
  ASSUME TablesInv, [MainNext]_mainvars
  PROVE  TablesInv'
<1>1. TablesNext \/ UNCHANGED tablevars
  BY DEF MainNext, mainvars, Startup, TimersTurn, BufferTurn, Handlers, Clock, Network
<1>2. QED
  BY <1>1, StatementInv, ChecksInv, StartAgainInv, TablesSame DEF TablesNext

LEMMA TablesInvFits ==
  ASSUME TablesInv
  PROVE  UpgradesFit
<1>1. stops = 0 /\ ~misread /\ todo # <<>> => Accepted(Head(todo).do)
  BY NothingRefused
<1>2. ASSUME ~misread
      PROVE  /\ \A v \in ircsvs_tables : Brought(v)
             /\ \A r \in registered : RowKept(r)
             /\ stops = 0 => columns.converted <= 1
  <2>1. PICK c \in 0..4 : Level(c) /\ Progress(c)
    BY <1>2 DEF TablesInv
  <2>2. \A v \in ircsvs_tables : v \in 1..c
    BY <2>1 DEF Level, Version
  <2>3. ASSUME NEW v \in ircsvs_tables PROVE Brought(v)
    <3>1. v \in 1..c
      BY <2>2
    <3>2. v >= 2 => ~columns.tmp /\ columns.converted >= 1
      BY <2>1, <3>1 DEF Level, Converted
    <3>3. v >= 3 => keys = ForeignKeys
      BY <2>1, <3>1 DEF Level, RowsFit
    <3>4. v >= 4 => chanserv_suspensions = {r.scid : r \in {q \in chanserv : q.suspended}}
      BY <2>1, <3>1 DEF Level, RowsFit, Suspended
    <3>5. QED
      BY <3>2, <3>3, <3>4 DEF Brought
  <2>4. ASSUME NEW r \in registered PROVE RowKept(r)
    <3>1. CASE r.founder \in LostSnids /\ r.successor \notin Snids
      BY <3>1 DEF RowKept
    <3>2. CASE \E q \in chanserv : OnItsWay(r, q)
      <4>1. PICK q \in chanserv : OnItsWay(r, q)
        BY <3>2
      <4>2. 0 \notin LostSnids
        BY TableVersionsAssumption
      <4>3. CASE r.founder \in LostSnids
        <5>1. q.scid = r.scid /\ q.founder \in {r.founder, r.successor}
          BY <4>1, <4>2, <4>3 DEF OnItsWay
        <5>2. QED
          BY <4>2, <4>3, <5>1 DEF RowKept
      <4>4. CASE r.founder = 0
        BY <4>1, <4>2, <4>4 DEF OnItsWay, RowKept
      <4>5. CASE r.founder \notin LostSnids /\ r.founder # 0
        BY <4>1, <4>5 DEF OnItsWay, RowKept
      <4>6. QED
        BY <4>3, <4>4, <4>5
    <3>3. QED
      BY <2>1, <3>1, <3>2 DEF Level, ChannelsKept
  <2>5. ASSUME stops = 0 PROVE columns.converted <= 1
    <3>1. CASE c = 0
      BY <2>1, <3>1 DEF Level, RowsFit
    <3>2. CASE c >= 2
      BY <2>1, <2>5, <3>2 DEF Level, Converted
    <3>3. CASE c = 1
      <4>1. Stage(1) \/ Stage(2) \/ Stage(3)
        <5>1. First(1) = 1 /\ First(2) = 4
          BY DEF First
        <5>2. Stage(First(1)) \/ \E k \in First(1)..First(2) - 1 : Stage(k)
          BY <2>1, <3>3 DEF Progress
        <5>3. QED
          BY <5>1, <5>2
      <4>2. QED
        BY <2>5, <4>1 DEF Stage, Converted
    <3>4. QED
      BY <3>1, <3>2, <3>3
  <2>6. QED
    BY <2>3, <2>4, <2>5
<1>3. QED
  BY <1>1, <1>2 DEF UpgradesFit

(* Whatever nicks were lost and however often and wherever starts are cut  *)
(* short, the tables have all that a recorded version brings and no        *)
(* channel with a founder or a successor is lost; and a start that is not  *)
(* cut short has no statement refused and converts no time twice           *)
(* (sql_check_inst_upgrade, sql_upgrade, mysql_from_file).                 *)
THEOREM UpgradesAlwaysFit == MainSpec => []UpgradesFit
<1>1. MainInit => TablesInv
  <2>1. \A b \in BOOLEAN : TablesInit(b) => TablesInv
    BY TablesInitInv
  <2>2. ("tables" \in features) \in BOOLEAN
    OBVIOUS
  <2>3. QED
    BY <2>1, <2>2, Zenon DEF MainInit
<1>2. TablesInv /\ [MainNext]_mainvars => TablesInv'
  BY TablesNextInv
<1>3. TablesInv => UpgradesFit
  BY TablesInvFits
<1>4. QED
  BY <1>1, <1>2, <1>3, PTL DEF MainSpec

=============================================================================
