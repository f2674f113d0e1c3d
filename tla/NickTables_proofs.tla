--------------------------- MODULE NickTables_proofs ---------------------------
(***************************************************************************)
(* Proofs about the tables beside nickserv: that the groups are a tree     *)
(* under the root group whichever of them are dropped, that the list of    *)
(* groups of a user follows its memberships, that the two rows of a buddy  *)
(* relation agree, and that keys and foreign keys hold.                    *)
(*                                                                         *)
(* That a walk along masters ends is shown with a rank: a numbering of the *)
(* groups there are, in which every group comes after its master. The walk *)
(* is a recursive function; that it has the values its definition gives,   *)
(* and that there is a least of some numbers, is proved by the well        *)
(* foundedness of the finite sets.                                         *)
(***************************************************************************)
EXTENDS NickTables, FiniteSetTheorems, TLAPS

-----------------------------------------------------------------------------
(* Numbers                                                                 *)

LEMMA Least ==
  ASSUME NEW S \in SUBSET Nat, S # {}
  PROVE  \E m \in S : \A k \in S : m <= k
<1> DEFINE T == {1..k : k \in S}
           R == StrictSubsetOrdering(Nat)
<1>1. T \subseteq FiniteSubsetsOf(Nat)
  <2>1. ASSUME NEW k \in S PROVE 1..k \subseteq Nat /\ IsFiniteSet(1..k)
    BY FS_Interval
  <2>2. QED
    BY <2>1 DEF FiniteSubsetsOf
<1>2. T # {}
  OBVIOUS
<1>3. IsWellFoundedOn(R, FiniteSubsetsOf(Nat))
  BY FS_StrictSubsetOrderingWellFounded
<1>4. PICK x \in T : \A y \in T : <<y, x>> \notin R
  <2> HIDE DEF T, R
  <2>1. QED
    BY <1>1, <1>2, <1>3, WFMin, Zenon
<1>5. PICK m \in S : x = 1..m
  OBVIOUS
<1>6. ASSUME NEW k \in S, ~(m <= k) PROVE FALSE
  <2>1. 1..k \subseteq 1..m /\ 1..k # 1..m /\ 1..k \in SUBSET Nat /\ 1..m \in SUBSET Nat
    <3>1. m \in 1..m /\ m \notin 1..k
      BY <1>6
    <3>2. QED
      BY <1>6, <3>1
  <2>2. <<1..k, 1..m>> \in R
    BY <2>1 DEF StrictSubsetOrdering
  <2>3. QED
    BY <1>4, <1>5, <2>2
<1>7. QED
  BY <1>6

(* What holds of 0 and of the next of every number it holds of             *)
LEMMA Steps ==
  ASSUME NEW n \in Nat, NEW S, 0 \in S,
         \A k \in 0..n : k \in S /\ k < n => k + 1 \in S
  PROVE  \A k \in 0..n : k \in S
<1> DEFINE W == {k \in 0..n : k \notin S}
<1>1. SUFFICES ASSUME W # {} PROVE FALSE
  OBVIOUS
<1>2. W \in SUBSET Nat
  OBVIOUS
<1> HIDE DEF W
<1>3. PICK m \in W : \A k \in W : m <= k
  BY <1>1, <1>2, Least
<1>4. m \in 0..n /\ m \notin S /\ m # 0
  BY DEF W
<1>5. m - 1 \in 0..n /\ m - 1 < n /\ m - 1 \notin W
  BY <1>3, <1>4
<1>6. m - 1 \in S
  BY <1>5 DEF W
<1>7. m - 1 + 1 \in S
  BY <1>5, <1>6
<1>8. QED
  BY <1>4, <1>7

LEMMA Greatest ==
  ASSUME NEW n \in Nat, NEW S \in SUBSET (0..n), S # {}
  PROVE  \E m \in S : \A k \in S : k <= m
<1> DEFINE T == {n - k : k \in S}
<1>0. \A k \in S : k \in 0..n /\ n - k \in Nat
  OBVIOUS
<1>1. T \in SUBSET Nat /\ T # {}
  BY <1>0
<1> HIDE DEF T
<1>2. PICK t \in T : \A k \in T : t <= k
  BY <1>1, Least
<1>3. PICK m \in S : t = n - m
  BY DEF T
<1>4. ASSUME NEW k \in S PROVE k <= m
  <2>1. n - k \in T
    BY DEF T
  <2>2. n - m <= n - k
    BY <1>2, <1>3, <2>1
  <2>3. QED
    BY <2>2
<1>5. QED
  BY <1>4

-----------------------------------------------------------------------------
(* The groups                                                              *)
Group == [master : Groups \union {Masterless, NONE}, maxusers : Nat]

In(gs) == {g \in Groups : gs[g] # NoGroup}

(* A numbering of the groups, in which a group comes after its master      *)
Ranked(gs, rank) ==
  /\ rank \in [Groups -> Nat]
  /\ \A g \in In(gs) : rank[g] < Cardinality(In(gs))
  /\ \A g, h \in In(gs) : rank[g] = rank[h] => g = h
  /\ \A g \in In(gs) : g # RootGroup => rank[gs[g].master] < rank[g]

Tree(gs) ==
  /\ gs \in [Groups -> Group]
  /\ RootGroup \in In(gs)
  /\ \A g \in In(gs) : IF g = RootGroup THEN gs[g].master = Masterless
                       ELSE gs[g].master \in In(gs)
  /\ \E rank : Ranked(gs, rank)

LEMMA InFinite ==
  ASSUME NEW gs
  PROVE  /\ IsFiniteSet(In(gs)) /\ Cardinality(In(gs)) \in Nat
         /\ Cardinality(Groups) \in Nat /\ Cardinality(In(gs)) <= Cardinality(Groups)
<1>1. IsFiniteSet(Groups) /\ In(gs) \subseteq Groups
  BY NickGroupsAssumption DEF In
<1>2. QED
  BY <1>1, FS_Subset, FS_CardinalityType

LEMMA TreeInit ==
  ASSUME GroupsInit
  PROVE  Tree(ns_group)
<1> DEFINE gs == ns_group
           rank == [g \in Groups |-> CASE g = RootGroup -> 0 [] g = AdminGroup -> 1 [] OTHER -> 2]
<1>1. /\ {RootGroup, AdminGroup, OperGroup} \subseteq Groups
      /\ Cardinality({RootGroup, AdminGroup, OperGroup}) = 3
      /\ Masterless \notin Groups \union {NONE} /\ NONE \notin Groups
  BY NickGroupsAssumption
<1>2. RootGroup # AdminGroup /\ RootGroup # OperGroup /\ AdminGroup # OperGroup
  <2>1. \A a, b : Cardinality({a, b}) # 3
    <3>1. TAKE a, b
    <3>2. IsFiniteSet({b}) /\ Cardinality({b}) = 1
      BY FS_Singleton
    <3>3. Cardinality({b} \union {a}) = IF a \in {b} THEN 1 ELSE 2
      BY <3>2, FS_AddElement
    <3>4. {a, b} = {b} \union {a}
      OBVIOUS
    <3>5. QED
      BY <3>3, <3>4
  <2>2. RootGroup # AdminGroup
    <3>1. SUFFICES ASSUME RootGroup = AdminGroup PROVE FALSE
      OBVIOUS
    <3>2. {RootGroup, AdminGroup, OperGroup} = {RootGroup, OperGroup}
      BY <3>1
    <3>3. QED
      BY <1>1, <2>1, <3>2
  <2>3. RootGroup # OperGroup
    <3>1. SUFFICES ASSUME RootGroup = OperGroup PROVE FALSE
      OBVIOUS
    <3>2. {RootGroup, AdminGroup, OperGroup} = {RootGroup, AdminGroup}
      BY <3>1
    <3>3. QED
      BY <1>1, <2>1, <3>2
  <2>4. AdminGroup # OperGroup
    <3>1. SUFFICES ASSUME AdminGroup = OperGroup PROVE FALSE
      OBVIOUS
    <3>2. {RootGroup, AdminGroup, OperGroup} = {RootGroup, AdminGroup}
      BY <3>1
    <3>3. QED
      BY <1>1, <2>1, <3>2
  <2>5. QED
    BY <2>2, <2>3, <2>4
<1>3. gs = [g \in Groups |-> CASE g = RootGroup -> NewGroup(Masterless)
                               [] g = AdminGroup -> NewGroup(RootGroup)
                               [] g = OperGroup -> NewGroup(AdminGroup)
                               [] OTHER -> NoGroup]
  BY DEF GroupsInit
<1> HIDE DEF gs
<1>4. /\ gs[RootGroup] = NewGroup(Masterless) /\ gs[AdminGroup] = NewGroup(RootGroup)
      /\ gs[OperGroup] = NewGroup(AdminGroup)
      /\ \A g \in Groups \ {RootGroup, AdminGroup, OperGroup} : gs[g] = NoGroup
  BY <1>1, <1>2, <1>3
<1>5. \A m : NewGroup(m) # NoGroup /\ NewGroup(m).master = m
  BY DEF NewGroup, NoGroup
<1>6. In(gs) = {RootGroup, AdminGroup, OperGroup}
  BY <1>1, <1>4, <1>5 DEF In
<1>7. /\ gs[RootGroup].master = Masterless /\ gs[AdminGroup].master = RootGroup
      /\ gs[OperGroup].master = AdminGroup
  BY <1>4, <1>5
<1>8. gs \in [Groups -> Group]
  BY <1>1, <1>3 DEF Group, NewGroup, NoGroup
<1>9. rank[RootGroup] = 0 /\ rank[AdminGroup] = 1 /\ rank[OperGroup] = 2
  BY <1>1, <1>2
<1>10. rank \in [Groups -> Nat]
  OBVIOUS
<1> HIDE DEF rank
<1>11. Ranked(gs, rank)
  BY <1>1, <1>2, <1>6, <1>7, <1>9, <1>10 DEF Ranked
<1>12. Tree(gs)
  BY <1>2, <1>6, <1>7, <1>8, <1>11 DEF Tree
<1>13. QED
  BY <1>12 DEF gs

LEMMA TreeCreate ==
  ASSUME NEW gs, Tree(gs), NEW g \in Groups, g \notin In(gs), NEW master \in In(gs)
  PROVE  Tree([gs EXCEPT ![g] = NewGroup(master)])
<1> DEFINE gt == [gs EXCEPT ![g] = NewGroup(master)]
<1>1. PICK rank : Ranked(gs, rank)
  BY DEF Tree
<1> DEFINE rank2 == [rank EXCEPT ![g] = Cardinality(In(gs))]
<1>2. gs \in [Groups -> Group] /\ rank \in [Groups -> Nat] /\ master \in Groups
  BY <1>1 DEF Tree, Ranked, In
<1>3. NewGroup(master) # NoGroup /\ NewGroup(master).master = master /\ NewGroup(master) \in Group
  BY <1>2 DEF NewGroup, NoGroup, Group
<1>4. /\ gt \in [Groups -> Group] /\ gt[g] = NewGroup(master)
      /\ \A h \in Groups \ {g} : gt[h] = gs[h]
  BY <1>2, <1>3
<1> HIDE DEF gt
<1>5. In(gt) = In(gs) \union {g}
  BY <1>3, <1>4 DEF In
<1>6. Cardinality(In(gs)) \in Nat /\ Cardinality(In(gt)) = Cardinality(In(gs)) + 1
  <2>1. IsFiniteSet(In(gs)) /\ Cardinality(In(gs)) \in Nat
    BY InFinite
  <2>2. QED
    BY <1>5, <2>1, FS_AddElement
<1>7. /\ rank2 \in [Groups -> Nat] /\ rank2[g] = Cardinality(In(gs))
      /\ \A h \in Groups \ {g} : rank2[h] = rank[h]
  BY <1>2, <1>6
<1> HIDE DEF rank2
<1>8. In(gs) \subseteq Groups \ {g}
  BY DEF In
<1>9. \A h \in In(gs) : /\ gt[h] = gs[h] /\ rank2[h] = rank[h]
                        /\ rank[h] < Cardinality(In(gs)) /\ rank[h] \in Nat
                        /\ h # RootGroup => /\ gs[h].master \in In(gs)
                                            /\ rank[gs[h].master] < rank[h]
                        /\ h = RootGroup => gs[h].master = Masterless
  BY <1>1, <1>2, <1>4, <1>7, <1>8 DEF Ranked, Tree
<1>10. gt[g].master = master /\ g # RootGroup
  BY <1>3, <1>4 DEF Tree
<1>11. Ranked(gt, rank2)
  <2>1. \A h \in In(gt) : rank2[h] < Cardinality(In(gt))
    BY <1>5, <1>6, <1>7, <1>9
  <2>2. \A h, i \in In(gt) : rank2[h] = rank2[i] => h = i
    <3>1. \A h, i \in In(gs) : rank[h] = rank[i] => h = i
      BY <1>1 DEF Ranked
    <3>2. QED
      BY <1>5, <1>6, <1>7, <1>9, <3>1
  <2>3. \A h \in In(gt) : h # RootGroup => rank2[gt[h].master] < rank2[h]
    BY <1>5, <1>6, <1>7, <1>9, <1>10
  <2>4. QED
    BY <1>7, <2>1, <2>2, <2>3 DEF Ranked
<1>12. \A h \in In(gt) : IF h = RootGroup THEN gt[h].master = Masterless
                         ELSE gt[h].master \in In(gt)
  BY <1>5, <1>9, <1>10
<1>13. RootGroup \in In(gt)
  BY <1>5 DEF Tree
<1>14. Tree(gt)
  BY <1>4, <1>11, <1>12, <1>13 DEF Tree
<1>15. QED
  BY <1>14 DEF gt

(* drop_group. Every group numbered after the dropped one moves up.        *)
LEMMA TreeDrop ==
  ASSUME Tree(ns_group), NEW g \in In(ns_group), ns_group[g].master # Masterless
  PROVE  Tree(DroppedGroup(g)) /\ In(DroppedGroup(g)) = In(ns_group) \ {g}
<1> DEFINE gs == ns_group
           gt == DroppedGroup(g)
           up == gs[g].master
<1>1. PICK rank : Ranked(gs, rank)
  BY DEF Tree
<1> DEFINE rank2 == [h \in Groups |-> IF rank[h] > rank[g] THEN rank[h] - 1 ELSE rank[h]]
<1>2. gs \in [Groups -> Group] /\ rank \in [Groups -> Nat] /\ g \in Groups
  BY <1>1 DEF Tree, Ranked, In
<1>3. g # RootGroup /\ up \in In(gs) /\ up # g /\ up \in Groups /\ up # NONE
  <2>1. g # RootGroup /\ up \in In(gs)
    BY DEF Tree
  <2>2. rank[up] < rank[g]
    BY <1>1, <2>1 DEF Ranked
  <2>3. up \in Groups /\ rank[g] \in Nat
    BY <1>2, <2>1 DEF In
  <2>4. QED
    BY <2>1, <2>2, <2>3, NickGroupsAssumption
<1> HIDE DEF up
<1>4. gt = [h \in Groups |-> IF h = g THEN NoGroup
                             ELSE IF gs[h].master = g THEN [gs[h] EXCEPT !.master = up] ELSE gs[h]]
  BY DEF DroppedGroup, up
<1> HIDE DEF gt, gs
<1>5. /\ gt[g] = NoGroup
      /\ \A h \in Groups \ {g} : gs[h].master = g => gt[h] = [gs[h] EXCEPT !.master = up]
      /\ \A h \in Groups \ {g} : gs[h].master # g => gt[h] = gs[h]
  BY <1>2, <1>4
<1>6. ASSUME NEW h \in Groups \ {g}
      PROVE  /\ gt[h] \in Group
             /\ gs[h].master = g => gt[h].master = up /\ gt[h] # NoGroup /\ gs[h] # NoGroup
             /\ gs[h].master # g => gt[h] = gs[h]
  <2>1. gs[h] \in Group
    BY <1>2
  <2>2. CASE gs[h].master = g
    <3>1. gt[h] \in Group /\ gt[h].master = up
      BY <1>3, <1>5, <2>1, <2>2 DEF Group
    <3>2. gt[h] # NoGroup
      BY <1>3, <3>1 DEF NoGroup
    <3>3. gs[h] # NoGroup
      BY <1>2, <2>2, NickGroupsAssumption DEF NoGroup
    <3>4. QED
      BY <2>2, <3>1, <3>2, <3>3
  <2>3. CASE gs[h].master # g
    BY <1>5, <2>1, <2>3
  <2>4. QED
    BY <2>2, <2>3
<1>7. gt \in [Groups -> Group]
  <2>1. NoGroup \in Group
    BY DEF NoGroup, Group
  <2>2. \A h \in Groups : gt[h] \in Group
    BY <1>5, <1>6, <2>1
  <2>3. QED
    BY <1>4, <2>2
<1>8. In(gt) = In(gs) \ {g}
  BY <1>5, <1>6 DEF In
<1>9. Cardinality(In(gs)) \in Nat /\ Cardinality(In(gt)) = Cardinality(In(gs)) - 1
  <2>1. IsFiniteSet(In(gs)) /\ Cardinality(In(gs)) \in Nat
    BY InFinite
  <2>2. g \in In(gs)
    BY DEF gs
  <2>3. QED
    BY <1>8, <2>1, <2>2, FS_RemoveElement
<1>10. /\ rank2 \in [Groups -> Nat]
       /\ \A h \in Groups : rank2[h] = IF rank[h] > rank[g] THEN rank[h] - 1 ELSE rank[h]
  <2>1. \A h \in Groups : rank[h] \in Nat
    BY <1>2
  <2>2. QED
    BY <1>2, <2>1
<1> HIDE DEF rank2
<1>11. \A h \in In(gs) : /\ rank[h] < Cardinality(In(gs)) /\ rank[h] \in Nat /\ h \in Groups
                         /\ h # RootGroup => /\ gs[h].master \in In(gs)
                                             /\ rank[gs[h].master] < rank[h]
                         /\ h = RootGroup => gs[h].master = Masterless
                         /\ rank[h] = rank[g] => h = g
  <2>1. Tree(gs) /\ g \in In(gs)
    BY DEF gs
  <2>2. QED
    BY <1>1, <1>2, <2>1 DEF Ranked, Tree, In
<1>12. up \in In(gs) /\ up # g /\ rank[up] < rank[g] /\ g \in In(gs)
  BY <1>3, <1>11 DEF up, gs
<1>13. ASSUME NEW h \in In(gt), h # RootGroup
       PROVE  gt[h].master \in In(gt) /\ rank2[gt[h].master] < rank2[h]
  <2>1. h \in In(gs) /\ h # g /\ h \in Groups \ {g}
    BY <1>8, <1>11, <1>13
  <2>2. rank[h] \in Nat /\ rank[g] \in Nat /\ rank[up] \in Nat /\ rank[h] # rank[g]
    BY <1>11, <1>12, <2>1
  <2>3. CASE gs[h].master = g
    <3>1. gt[h].master = up /\ rank[g] < rank[h]
      BY <1>6, <1>11, <1>13, <2>1, <2>3
    <3>2. rank2[h] = rank[h] - 1 /\ rank2[up] = rank[up]
      BY <1>3, <1>10, <1>12, <2>1, <2>2, <3>1
    <3>3. QED
      BY <1>8, <1>12, <2>2, <3>1, <3>2
  <2>4. CASE gs[h].master # g
    <3> DEFINE m == gs[h].master
    <3>1. gt[h].master = m
      BY <1>6, <2>1, <2>4
    <3>2. m \in In(gs) /\ rank[m] < rank[h]
      BY <1>11, <1>13, <2>1
    <3>3. m # g /\ rank[m] \in Nat /\ m \in Groups /\ rank[m] # rank[g]
      BY <1>11, <2>4, <3>2
    <3> HIDE DEF m
    <3>4. rank2[m] < rank2[h]
      BY <1>10, <2>1, <2>2, <3>2, <3>3
    <3>5. QED
      BY <1>8, <3>1, <3>2, <3>3, <3>4
  <2>5. QED
    BY <2>3, <2>4
<1>14. Ranked(gt, rank2)
  <2>1. ASSUME NEW h \in In(gt) PROVE rank2[h] < Cardinality(In(gt))
    <3>1. h \in In(gs) /\ rank[h] # rank[g]
      BY <1>8, <1>11, <2>1
    <3>2. QED
      BY <1>9, <1>10, <1>11, <1>12, <3>1
  <2>2. ASSUME NEW h \in In(gt), NEW i \in In(gt), rank2[h] = rank2[i] PROVE h = i
    <3>1. h \in In(gs) /\ rank[h] # rank[g] /\ i \in In(gs) /\ rank[i] # rank[g]
      BY <1>8, <1>11, <2>2
    <3>2. rank[h] = rank[i]
      <4>1. /\ rank2[h] = IF rank[h] > rank[g] THEN rank[h] - 1 ELSE rank[h]
            /\ rank2[i] = IF rank[i] > rank[g] THEN rank[i] - 1 ELSE rank[i]
        BY <1>10, <1>11, <3>1
      <4>2. rank[h] \in Nat /\ rank[i] \in Nat /\ rank[g] \in Nat
        BY <1>11, <1>12, <3>1
      <4>3. \A a, b, c \in Nat : /\ a # c /\ b # c
                                 /\ (IF a > c THEN a - 1 ELSE a) = (IF b > c THEN b - 1 ELSE b)
                                => a = b
        OBVIOUS
      <4>4. QED
        BY <2>2, <3>1, <4>1, <4>2, <4>3
    <3>3. QED
      BY <1>1, <3>1, <3>2 DEF Ranked
  <2>3. QED
    BY <1>10, <1>13, <2>1, <2>2 DEF Ranked
<1>15. RootGroup \in In(gt)
  BY <1>3, <1>8 DEF Tree, gs
<1>16. gt[RootGroup].master = Masterless
  <2>1. RootGroup \in In(gs) /\ gs[RootGroup].master = Masterless /\ RootGroup \in Groups \ {g}
    BY <1>3, <1>8, <1>11, <1>15
  <2>2. Masterless # g
    BY <1>2, NickGroupsAssumption
  <2>3. QED
    BY <1>6, <2>1, <2>2
<1>17. Tree(gt)
  BY <1>7, <1>13, <1>14, <1>15, <1>16 DEF Tree
<1>18. QED
  BY <1>8, <1>17 DEF gt, gs

LEMMA TreeSet ==
  ASSUME NEW gs, Tree(gs), NEW g \in In(gs), NEW max \in Nat
  PROVE  Tree([gs EXCEPT ![g].maxusers = max]) /\ In([gs EXCEPT ![g].maxusers = max]) = In(gs)
<1> DEFINE gt == [gs EXCEPT ![g].maxusers = max]
<1>1. gs \in [Groups -> Group] /\ g \in Groups
  BY DEF Tree, In
<1>2. gs[g] \in Group /\ gs[g].master # NONE
  BY <1>1, NickGroupsAssumption DEF Tree, In
<1>3. /\ gt[g].master = gs[g].master /\ gt[g] \in Group
      /\ \A h \in Groups \ {g} : gt[h] = gs[h]
  BY <1>1, <1>2 DEF Group
<1>4. gt \in [Groups -> Group]
  BY <1>1, <1>3
<1> HIDE DEF gt
<1>5. gt[g] # NoGroup
  BY <1>2, <1>3 DEF NoGroup
<1>6. In(gt) = In(gs) /\ \A h \in In(gs) : gt[h].master = gs[h].master
  BY <1>3, <1>5 DEF In
<1>7. PICK rank : Ranked(gs, rank)
  BY DEF Tree
<1>8. Ranked(gt, rank)
  BY <1>6, <1>7 DEF Ranked
<1>9. Tree(gt)
  BY <1>4, <1>6, <1>8 DEF Tree
<1>10. QED
  BY <1>6, <1>9 DEF gt

-----------------------------------------------------------------------------
(* The walk along masters                                                  *)

(* What the recursive definition of a walk of at most n turns says         *)
Turn(at, k, g) ==
  IF k = 0 THEN g ELSE IF at[k - 1] \in Groups THEN ns_group[at[k - 1]].master ELSE Masterless

IsWalk(at, n, g) == at = [k \in 0..n |-> Turn(at, k, g)]

LEMMA WalkExists ==
  ASSUME NEW g, NEW n \in Nat
  PROVE  \A j \in 0..n : \E at : IsWalk(at, j, g)
<1> DEFINE S == {j \in Nat : \E at : IsWalk(at, j, g)}
<1>1. 0 \in S
  <2> DEFINE at == [k \in 0..0 |-> g]
  <2>1. IsWalk(at, 0, g)
    BY DEF IsWalk, Turn
  <2>2. QED
    BY <2>1
<1>2. ASSUME NEW j \in 0..n, j \in S PROVE j + 1 \in S
  <2>1. PICK at : IsWalk(at, j, g)
    BY <1>2
  <2> DEFINE more == [k \in 0..j+1 |-> IF k <= j THEN at[k] ELSE Turn(at, k, g)]
  <2>2. \A k \in 0..j : at[k] = Turn(at, k, g)
    BY <2>1 DEF IsWalk
  <2>3. \A k \in 0..j : more[k] = at[k]
    OBVIOUS
  <2>4. more[j + 1] = Turn(at, j + 1, g)
    OBVIOUS
  <2>5. DOMAIN more = 0..j+1 /\ more = [k \in 0..j+1 |-> more[k]]
    OBVIOUS
  <2> HIDE DEF more
  <2>6. ASSUME NEW k \in 0..j+1 PROVE more[k] = Turn(more, k, g)
    <3>1. CASE k = 0
      BY <2>2, <2>3, <3>1 DEF Turn
    <3>2. CASE k # 0
      <4>1. k - 1 \in 0..j /\ more[k - 1] = at[k - 1]
        BY <2>3, <3>2
      <4>2. Turn(more, k, g) = Turn(at, k, g)
        BY <4>1 DEF Turn
      <4>3. CASE k <= j
        BY <2>2, <2>3, <4>2, <4>3
      <4>4. CASE k = j + 1
        BY <2>4, <4>2, <4>4
      <4>5. QED
        BY <4>3, <4>4
    <3>3. QED
      BY <3>1, <3>2
  <2>7. IsWalk(more, j + 1, g)
    BY <2>5, <2>6 DEF IsWalk
  <2>8. QED
    BY <2>7
<1> HIDE DEF S
<1>3. \A k \in 0..n : k \in S
  BY <1>1, <1>2, Steps
<1>4. QED
  BY <1>3 DEF S

LEMMA WalkTurns ==
  ASSUME NEW g
  PROVE  /\ Walk(g)[0] = g
         /\ \A k \in 1..Cardinality(Groups) :
              Walk(g)[k] = IF Walk(g)[k - 1] \in Groups THEN ns_group[Walk(g)[k - 1]].master
                           ELSE Masterless
<1> DEFINE n == Cardinality(Groups)
           w == CHOOSE at : at = [k \in 0..n |->
                                    IF k = 0 THEN g
                                    ELSE IF at[k-1] \in Groups THEN ns_group[at[k-1]].master
                                    ELSE Masterless]
<1>1. n \in Nat
  BY InFinite
<1>2. \E at : IsWalk(at, n, g)
  BY <1>1, WalkExists
<1>3. w = [k \in 0..n |-> IF k = 0 THEN g
                          ELSE IF w[k-1] \in Groups THEN ns_group[w[k-1]].master ELSE Masterless]
  BY <1>2, Zenon DEF IsWalk, Turn
<1>4. Walk(g) = w
  BY DEF Walk
<1> HIDE DEF w, n
<1>5. w[0] = g
  BY <1>1, <1>3
<1>6. ASSUME NEW k \in 1..n
      PROVE  w[k] = IF w[k - 1] \in Groups THEN ns_group[w[k - 1]].master ELSE Masterless
  <2>1. k \in 0..n /\ k # 0
    BY <1>1
  <2>2. QED
    BY <1>3, <2>1
<1>7. QED
  BY <1>4, <1>5, <1>6 DEF n

(* Either the walk has come to the root group, or its rank has fallen by   *)
(* one at every turn.                                                      *)
LEMMA TreeUnderRoot ==
  ASSUME Tree(ns_group)
  PROVE  GroupsUnderRoot
<1>1. PICK rank : Ranked(ns_group, rank)
  BY DEF Tree
<1> SUFFICES ASSUME NEW g \in Groups, Exists(g)
             PROVE  \E k \in 0..Cardinality(Groups) : Walk(g)[k] = RootGroup
  BY DEF GroupsUnderRoot
<1> DEFINE w == Walk(g)
           n == Cardinality(Groups)
           Was(k) == \E j \in 0..k : w[j] = RootGroup
           S == {k \in Nat : Was(k) \/ (w[k] \in In(ns_group) /\ rank[w[k]] + k <= rank[g])}
<1>2. g \in In(ns_group) /\ rank[g] \in Nat /\ n \in Nat /\ rank[g] < n
  <2>1. g \in In(ns_group)
    BY DEF In, Exists
  <2>2. rank[g] \in Nat /\ rank[g] < Cardinality(In(ns_group))
    BY <1>1, <2>1 DEF Ranked
  <2>3. /\ Cardinality(In(ns_group)) \in Nat /\ Cardinality(Groups) \in Nat
        /\ Cardinality(In(ns_group)) <= Cardinality(Groups)
    BY InFinite
  <2>4. QED
    BY <2>1, <2>2, <2>3
<1>3. /\ w[0] = g
      /\ \A k \in 1..n : w[k] = IF w[k - 1] \in Groups THEN ns_group[w[k - 1]].master ELSE Masterless
  BY WalkTurns
<1> HIDE DEF w, n
<1>4. 0 \in S
  BY <1>2, <1>3
<1>5. ASSUME NEW k \in 0..rank[g], k \in S, k < rank[g] PROVE k + 1 \in S
  <2>1. k + 1 \in Nat /\ k + 1 \in 1..n /\ (k + 1) - 1 = k
    BY <1>2, <1>5
  <2>2. CASE Was(k)
    <3>1. Was(k + 1)
      BY <2>2
    <3>2. QED
      BY <2>1, <3>1
  <2>3. CASE ~Was(k)
    <3>1. w[k] \in In(ns_group) /\ rank[w[k]] + k <= rank[g] /\ w[k] # RootGroup
      BY <1>5, <2>3
    <3>2. w[k] \in Groups
      BY <3>1 DEF In
    <3>3. w[k + 1] = ns_group[w[k]].master
      BY <1>3, <2>1, <3>2
    <3>4. w[k + 1] \in In(ns_group) /\ rank[w[k + 1]] < rank[w[k]]
      BY <1>1, <3>1, <3>3 DEF Tree, Ranked
    <3>5. rank[w[k]] \in Nat /\ rank[w[k + 1]] \in Nat
      BY <1>1, <3>1, <3>4 DEF Ranked, In
    <3>6. rank[w[k + 1]] + (k + 1) <= rank[g]
      BY <1>2, <3>1, <3>4, <3>5
    <3>7. QED
      BY <2>1, <3>4, <3>6
  <2>4. QED
    BY <2>2, <2>3
<1>6. rank[g] \in S
  <2> HIDE DEF S
  <2>1. \A k \in 0..rank[g] : k \in S
    BY <1>2, <1>4, <1>5, Steps
  <2>2. QED
    BY <1>2, <2>1
<1>7. CASE Was(rank[g])
  BY <1>2, <1>7 DEF w, n
<1>8. CASE ~Was(rank[g])
  <2> DEFINE x == w[rank[g]]
  <2>1. x \in In(ns_group) /\ rank[x] + rank[g] <= rank[g] /\ x # RootGroup
    BY <1>2, <1>6, <1>8
  <2> HIDE DEF x
  <2>2. rank[x] \in Nat
    BY <1>1, <2>1 DEF Ranked, In
  <2>3. rank[x] = 0
    BY <1>2, <2>1, <2>2
  <2>4. ns_group[x].master \in In(ns_group) /\ rank[ns_group[x].master] < rank[x]
    BY <1>1, <2>1 DEF Tree, Ranked
  <2>5. rank[ns_group[x].master] \in Nat
    BY <1>1, <2>4 DEF Ranked, In
  <2>6. QED
    BY <2>3, <2>4, <2>5
<1>9. QED
  BY <1>7, <1>8

-----------------------------------------------------------------------------
(* Memberships and the lists of users                                      *)
RowsInv ==
  /\ ns_group_users \subseteq [sgid : Groups, snid : Nicks, t_expire : Nat]
  /\ \A r, q \in ns_group_users : r.sgid = q.sgid /\ r.snid = q.snid => r = q
  /\ \A r \in ns_group_users : r.sgid \in In(ns_group) /\ r.snid \in registered

(* A list that was loaded for the user follows its memberships.            *)
Follows(n) ==
  \A g \in Groups :
    /\ cache[n][g] >= 0
    /\ \/ cache[n][g] = (IF IsMemberOf(n, g) THEN 1 ELSE 0)
       \/ <<g, n>> \in expired

CacheInv ==
  /\ cache \in [Nicks -> [Groups -> -1..MaxCopies]]
  /\ \A n \in Nicks : ~Online(n) => cache[n] = NoList
  /\ crashed \in BOOLEAN
  /\ loaded \subseteq Nicks /\ expired \subseteq Groups \X Nicks
  /\ \A n \in loaded : Identified(n) /\ Follows(n)

GroupsInv == Tree(ns_group) /\ RowsInv /\ CacheInv

Lists == [Groups -> -1..MaxCopies]

LEMMA ListsOf ==
  /\ MaxCopies \in Nat \ {0}
  /\ NoList \in Lists /\ EmptyList \in Lists
  /\ \A n : \A list : Loaded(n, list) \in Lists
  /\ \A g \in Groups : NoList[g] = -1 /\ EmptyList[g] = 0
  /\ \A list \in Lists, g \in Groups : DelListed(list, g) \in Lists
<1>1. MaxCopies \in Nat \ {0}
  BY NickGroupsAssumption
<1>2. NoList \in Lists /\ EmptyList \in Lists
  BY <1>1 DEF NoList, EmptyList, Lists
<1>3. ASSUME NEW n, NEW list PROVE Loaded(n, list) \in Lists
  BY <1>1 DEF Loaded, Lists
<1>4. ASSUME NEW list \in Lists, NEW g \in Groups PROVE DelListed(list, g) \in Lists
  <2>1. list[g] \in -1..MaxCopies
    BY DEF Lists
  <2>2. CASE list[g] > 0
    <3>1. list[g] - 1 \in -1..MaxCopies
      BY <1>1, <2>1, <2>2
    <3>2. [list EXCEPT ![g] = list[g] - 1] \in Lists
      BY <3>1 DEF Lists
    <3>3. QED
      BY <2>2, <3>2 DEF DelListed
  <2>3. CASE ~(list[g] > 0)
    BY <2>3 DEF DelListed
  <2>4. QED
    BY <2>2, <2>3
<1>5. QED
  BY <1>1, <1>2, <1>3, <1>4 DEF NoList, EmptyList

LEMMA MemberIs ==
  ASSUME NEW n, NEW g
  PROVE  IsMemberOf(n, g) <=> \E r \in ns_group_users : r.sgid = g /\ r.snid = n
BY DEF IsMemberOf, RowsFor

LEMMA MemberIsNext ==
  ASSUME NEW n, NEW g
  PROVE  IsMemberOf(n, g)' <=> \E r \in ns_group_users' : r.sgid = g /\ r.snid = n
BY DEF IsMemberOf, RowsFor

LEMMA GroupsInitInv ==
  ASSUME Init
  PROVE  GroupsInv
<1>1. Tree(ns_group)
  BY TreeInit DEF Init
<1>2. RowsInv
  BY DEF Init, GroupsInit, RowsInv
<1>3. cache \in [Nicks -> Lists]
  BY ListsOf DEF Init, GroupsInit
<1>4. CacheInv
  BY <1>3 DEF Init, GroupsInit, CacheInv, Lists
<1>5. QED
  BY <1>1, <1>2, <1>4 DEF GroupsInv

(* The least master of n above g, if there is one                          *)
LEMMA MasterGroupIs ==
  ASSUME NEW n, NEW g, MasterGroup(n, g) # NONE
  PROVE  MasterGroup(n, g) \in Groups /\ IsMemberOf(n, MasterGroup(n, g))
<1> DEFINE at == Walk(g)
           in(k) == at[k] \in Groups /\ IsMemberOf(n, at[k])
           S == {k \in 1..Cardinality(Groups) : in(k)}
           first(k) == in(k) /\ \A j \in 1..k-1 : ~in(j)
<1>1. MasterGroup(n, g) = IF \E k \in 1..Cardinality(Groups) : in(k)
                          THEN at[CHOOSE k \in 1..Cardinality(Groups) : first(k)] ELSE NONE
  BY DEF MasterGroup
<1>2. \E k \in 1..Cardinality(Groups) : in(k)
  BY <1>1
<1>3. Cardinality(Groups) \in Nat
  BY InFinite
<1> HIDE DEF in
<1>4. S \in SUBSET Nat /\ S # {}
  BY <1>2, <1>3
<1>5. PICK m \in S : \A k \in S : m <= k
  <2> HIDE DEF S
  <2>1. QED
    BY <1>4, Least
<1>6. m \in 1..Cardinality(Groups) /\ in(m)
  OBVIOUS
<1>7. \A j \in 1..m-1 : ~in(j)
  BY <1>3, <1>5, <1>6
<1>8. \E k \in 1..Cardinality(Groups) : first(k)
  BY <1>6, <1>7
<1> DEFINE c == CHOOSE k \in 1..Cardinality(Groups) : first(k)
<1>9. c \in 1..Cardinality(Groups) /\ first(c)
  BY <1>8
<1> HIDE DEF c
<1>10. MasterGroup(n, g) = at[c]
  BY <1>1, <1>2 DEF c
<1>11. QED
  BY <1>9, <1>10 DEF in

LEMMA NewExpireIs ==
  ASSUME RowsInv, NEW s, NEW g, NEW duration \in Durations, irc_CurrentTime \in Nat
  PROVE  NewExpire(s, g, duration) \in Nat
<1>1. MasterExpire(s, g) \in Nat
  <2>1. CASE MasterGroup(s, g) = NONE
    BY <2>1 DEF MasterExpire
  <2>2. CASE MasterGroup(s, g) # NONE
    <3>1. IsMemberOf(s, MasterGroup(s, g))
      BY <2>2, MasterGroupIs
    <3>2. RowsFor(MasterGroup(s, g), s) # {}
      BY <3>1 DEF IsMemberOf
    <3>3. (CHOOSE r \in RowsFor(MasterGroup(s, g), s) : TRUE) \in RowsFor(MasterGroup(s, g), s)
      BY <3>2
    <3>4. \A r \in RowsFor(MasterGroup(s, g), s) : r.t_expire \in Nat
      BY DEF RowsFor, RowsInv
    <3>5. QED
      BY <2>2, <3>3, <3>4 DEF MasterExpire
  <2>3. QED
    BY <2>1, <2>2
<1>2. duration \in Nat
  BY NickGroupsAssumption
<1>3. QED
  BY <1>1, <1>2 DEF NewExpire

LEMMA KeepsFollowing ==
  ASSUME NEW m, Follows(m),
         \A g \in Groups : /\ cache'[m][g] = cache[m][g]
                           /\ IsMemberOf(m, g)' <=> IsMemberOf(m, g)
                           /\ <<g, m>> \in expired => <<g, m>> \in expired'
  PROVE  Follows(m)'
<1>1. ASSUME NEW g \in Groups
      PROVE  /\ cache'[m][g] >= 0
             /\ \/ cache'[m][g] = (IF IsMemberOf(m, g)' THEN 1 ELSE 0)
                \/ <<g, m>> \in expired'
  <2>1. /\ cache[m][g] >= 0
        /\ cache[m][g] = (IF IsMemberOf(m, g) THEN 1 ELSE 0) \/ <<g, m>> \in expired
    BY DEF Follows
  <2>2. /\ cache'[m][g] = cache[m][g]
        /\ IsMemberOf(m, g)' <=> IsMemberOf(m, g)
        /\ <<g, m>> \in expired => <<g, m>> \in expired'
    OBVIOUS
  <2>3. QED
    BY <2>1, <2>2
<1>2. QED
  BY <1>1 DEF Follows

(* What a step has to show of the rows and the lists                       *)
LEMMA RowsKept ==
  ASSUME RowsInv, ns_group_users' \subseteq ns_group_users,
         \A r \in ns_group_users' : r.sgid \in In(ns_group') /\ r.snid \in registered'
  PROVE  RowsInv'
BY DEF RowsInv

LEMMA CacheKept ==
  ASSUME CacheInv, cache' \in [Nicks -> Lists],
         \A n \in Nicks : ~Online(n)' => cache'[n] = NoList,
         crashed' \in BOOLEAN, loaded' \subseteq Nicks, expired' \subseteq Groups \X Nicks,
         \A n \in loaded' : Identified(n)' /\ Follows(n)'
  PROVE  CacheInv'
BY DEF CacheInv, Lists

(* Steps that change the groups alone                                      *)
LEMMA GroupsAlone ==
  ASSUME GroupsInv, Tree(ns_group'), In(ns_group) \subseteq In(ns_group'),
         UNCHANGED <<ns_group_users, cache, crashed, loaded, expired>>,
         registered' = registered, bearer' = bearer
  PROVE  GroupsInv'
<1>0. /\ ns_group_users' = ns_group_users /\ cache' = cache /\ crashed' = crashed
      /\ loaded' = loaded /\ expired' = expired
  OBVIOUS
<1>1. RowsInv'
  BY <1>0, RowsKept DEF GroupsInv, RowsInv
<1>2. CacheInv'
  <2>1. \A m : \A g : IsMemberOf(m, g)' <=> IsMemberOf(m, g)
    BY <1>0, MemberIs, MemberIsNext
  <2>2. ASSUME NEW m \in loaded' PROVE Identified(m)' /\ Follows(m)'
    <3>1. m \in loaded /\ Identified(m) /\ Follows(m)
      BY <1>0, <2>2 DEF GroupsInv, CacheInv
    <3>2. Identified(m)'
      BY <1>0, <3>1 DEF Identified
    <3>3. QED
      BY <1>0, <2>1, <3>1, <3>2, KeepsFollowing
  <2>3. \A n \in Nicks : ~Online(n)' => cache'[n] = NoList
    BY <1>0 DEF GroupsInv, CacheInv, Online
  <2>4. QED
    BY <1>0, <2>2, <2>3, CacheKept DEF GroupsInv, CacheInv, Lists
<1>3. QED
  BY <1>1, <1>2 DEF GroupsInv

LEMMA GroupsSame ==
  ASSUME GroupsInv, UNCHANGED groupvars, registered' = registered, bearer' = bearer
  PROVE  GroupsInv'
BY GroupsAlone DEF GroupsInv, groupvars

-----------------------------------------------------------------------------
(* Commands on groups and members                                          *)

LEMMA CreateKeeps ==
  ASSUME GroupsInv, UNCHANGED nickvars, NEW s \in Nicks, NEW g \in Groups, NEW master \in Groups,
         GroupCreate(s, g, master)
  PROVE  GroupsInv'
<1>1. /\ g \notin In(ns_group) /\ master \in In(ns_group)
      /\ ns_group' = [ns_group EXCEPT ![g] = NewGroup(master)]
      /\ UNCHANGED <<ns_group_users, cache, crashed, loaded, expired>>
  BY DEF GroupCreate, Exists, In
<1>2. Tree(ns_group) /\ ns_group \in [Groups -> Group]
  BY DEF GroupsInv, Tree
<1>3. Tree(ns_group')
  BY <1>1, <1>2, TreeCreate
<1>4. In(ns_group) \subseteq In(ns_group')
  BY <1>1, <1>2 DEF In
<1>5. QED
  BY <1>1, <1>3, <1>4, GroupsAlone DEF nickvars

LEMMA SetKeeps ==
  ASSUME GroupsInv, UNCHANGED nickvars, NEW s \in Nicks, NEW g \in Groups, NEW max \in MaxUsers,
         GroupSet(s, g, max)
  PROVE  GroupsInv'
<1>1. /\ g \in In(ns_group) /\ ns_group' = [ns_group EXCEPT ![g].maxusers = max]
      /\ UNCHANGED <<ns_group_users, cache, crashed, loaded, expired>>
  BY DEF GroupSet, Exists, In
<1>2. max \in Nat
  BY NickGroupsAssumption
<1>3. Tree(ns_group') /\ In(ns_group') = In(ns_group)
  BY <1>1, <1>2, TreeSet DEF GroupsInv
<1>4. QED
  BY <1>1, <1>3, GroupsAlone DEF nickvars

LEMMA DropKeeps ==
  ASSUME GroupsInv, UNCHANGED nickvars, NEW s \in Nicks, NEW g \in Groups, GroupDrop(s, g)
  PROVE  GroupsInv'
<1>1. /\ g \in In(ns_group) /\ ns_group[g].master # Masterless
      /\ ns_group' = DroppedGroup(g)
      /\ ns_group_users' = {r \in ns_group_users : r.sgid # g}
      /\ cache' = [n \in Nicks |-> IF cache[n] = NoList THEN NoList ELSE [cache[n] EXCEPT ![g] = 0]]
      /\ expired' = {p \in expired : p[1] # g}
      /\ crashed' = crashed /\ loaded' = loaded
  BY DEF GroupDrop, Exists, In
<1>2. registered' = registered /\ bearer' = bearer
  BY DEF nickvars
<1>3. Tree(ns_group') /\ In(ns_group') = In(ns_group) \ {g}
  BY <1>1, TreeDrop DEF GroupsInv
<1>4. RowsInv'
  BY <1>1, <1>2, <1>3, RowsKept DEF GroupsInv, RowsInv
<1>5. cache \in [Nicks -> Lists]
  BY DEF GroupsInv, CacheInv, Lists
<1>6. ASSUME NEW n \in Nicks
      PROVE  cache'[n] \in Lists /\ (~Online(n)' => cache'[n] = NoList)
  <2>1. cache[n] \in Lists
    BY <1>5
  <2>2. [cache[n] EXCEPT ![g] = 0] \in Lists
    BY <2>1, ListsOf DEF Lists
  <2>3. ~Online(n) => cache[n] = NoList
    BY DEF GroupsInv, CacheInv
  <2>4. Online(n)' <=> Online(n)
    BY <1>2 DEF Online
  <2>5. QED
    BY <1>1, <2>2, <2>3, <2>4, ListsOf
<1>7. ASSUME NEW m \in loaded' PROVE Identified(m)' /\ Follows(m)'
  <2>1. m \in Nicks /\ Identified(m) /\ Follows(m) /\ cache[m] \in Lists
    BY <1>1, <1>5, <1>7 DEF GroupsInv, CacheInv
  <2>2. Identified(m)'
    BY <1>2, <2>1 DEF Identified
  <2>3. cache[m] # NoList
    <3>1. cache[m][g] >= 0
      BY <2>1 DEF Follows
    <3>2. NoList[g] = -1
      BY ListsOf
    <3>3. QED
      BY <3>1, <3>2
  <2>4. cache'[m] = [cache[m] EXCEPT ![g] = 0]
    BY <1>1, <2>1, <2>3
  <2>5. cache'[m][g] = 0 /\ \A h \in Groups \ {g} : cache'[m][h] = cache[m][h]
    BY <2>1, <2>4 DEF Lists
  <2>6. ~IsMemberOf(m, g)' /\ \A h \in Groups \ {g} : IsMemberOf(m, h)' <=> IsMemberOf(m, h)
    BY <1>1, MemberIs, MemberIsNext
  <2>7. \A h \in Groups \ {g} : <<h, m>> \in expired => <<h, m>> \in expired'
    BY <1>1
  <2>8. ASSUME NEW h \in Groups
        PROVE  /\ cache'[m][h] >= 0
               /\ \/ cache'[m][h] = (IF IsMemberOf(m, h)' THEN 1 ELSE 0)
                  \/ <<h, m>> \in expired'
    <3>1. CASE h = g
      BY <2>5, <2>6, <3>1
    <3>2. CASE h # g
      <4>1. /\ cache[m][h] >= 0
            /\ cache[m][h] = (IF IsMemberOf(m, h) THEN 1 ELSE 0) \/ <<h, m>> \in expired
        BY <2>1 DEF Follows
      <4>2. QED
        BY <2>5, <2>6, <2>7, <3>2, <4>1
    <3>3. QED
      BY <3>1, <3>2
  <2>9. Follows(m)'
    BY <2>8 DEF Follows
  <2>10. QED
    BY <2>2, <2>9
<1>8. cache' \in [Nicks -> Lists]
  BY <1>1, <1>6
<1>9. /\ crashed' \in BOOLEAN /\ loaded' \subseteq Nicks /\ expired' \subseteq Groups \X Nicks
  BY <1>1 DEF GroupsInv, CacheInv
<1>10. CacheInv'
  BY <1>6, <1>7, <1>8, <1>9, CacheKept DEF GroupsInv
<1>11. QED
  BY <1>3, <1>4, <1>10 DEF GroupsInv

(* The list of a user that gets member of a group                          *)
LEMMA AddListedIs ==
  ASSUME NEW n, NEW g \in Groups, NEW list \in Lists, list[g] < MaxCopies,
         ~Online(n) => list = NoList
  PROVE  /\ AddListed(n, list, g) \in Lists
         /\ ~Online(n) => AddListed(n, list, g) = NoList
         /\ (Online(n) /\ list # NoList) => AddListed(n, list, g) = [list EXCEPT ![g] = list[g] + 1]
<1>1. CASE ~Online(n)
  BY <1>1 DEF AddListed
<1>2. CASE Online(n)
  <2>1. list[g] + 1 \in -1..MaxCopies /\ EmptyList[g] + 1 \in -1..MaxCopies
    <3>1. list[g] \in -1..MaxCopies
      BY DEF Lists
    <3>2. QED
      BY <3>1, ListsOf
  <2>2. [list EXCEPT ![g] = list[g] + 1] \in Lists
    BY <2>1 DEF Lists
  <2>3. [EmptyList EXCEPT ![g] = EmptyList[g] + 1] \in Lists
    <3>1. EmptyList \in Lists
      BY ListsOf
    <3>2. QED
      BY <2>1, <3>1 DEF Lists
  <2>4. CASE list = NoList
    <3>1. AddListed(n, list, g) = [EmptyList EXCEPT ![g] = EmptyList[g] + 1]
      BY <1>2, <2>4 DEF AddListed
    <3>2. QED
      BY <1>2, <2>3, <2>4, <3>1
  <2>5. CASE list # NoList
    <3>1. AddListed(n, list, g) = [list EXCEPT ![g] = list[g] + 1]
      BY <1>2, <2>5 DEF AddListed
    <3>2. QED
      BY <1>2, <2>2, <3>1
  <2>6. QED
    BY <2>4, <2>5
<1>3. QED
  BY <1>1, <1>2

LEMMA AddKeeps ==
  ASSUME GroupsInv, NicksTypeOK, UNCHANGED nickvars, NEW s \in Nicks, NEW n \in Nicks,
         NEW g \in MemberGroups, NEW duration \in Durations, GroupAdd(s, g, n, duration)
  PROVE  GroupsInv'
<1> DEFINE new == [sgid |-> g, snid |-> n, t_expire |-> NewExpire(s, g, duration)]
<1>1. /\ n \in registered /\ Exists(g) /\ ~IsMemberOf(n, g) /\ cache[n][g] < MaxCopies
      /\ ns_group_users' = ns_group_users \union {new}
      /\ cache' = [cache EXCEPT ![n] = AddListed(n, cache[n], g)]
      /\ ns_group' = ns_group /\ crashed' = crashed /\ loaded' = loaded /\ expired' = expired
  BY DEF GroupAdd, HasSnid
<1>2. registered' = registered /\ bearer' = bearer
  BY DEF nickvars
<1>3. g \in Groups /\ g \in In(ns_group)
  BY <1>1, NickGroupsAssumption DEF In, Exists
<1>4. NewExpire(s, g, duration) \in Nat
  BY NewExpireIs DEF GroupsInv, NicksTypeOK
<1>5. new \in [sgid : Groups, snid : Nicks, t_expire : Nat] /\ new.sgid = g /\ new.snid = n
  BY <1>3, <1>4
<1> HIDE DEF new
<1>6. RowsInv'
  <2>1. \A r \in ns_group_users : ~(r.sgid = g /\ r.snid = n)
    BY <1>1, MemberIs
  <2>2. \A r, q \in ns_group_users' : r.sgid = q.sgid /\ r.snid = q.snid => r = q
    BY <1>1, <1>5, <2>1 DEF GroupsInv, RowsInv
  <2>3. \A r \in ns_group_users' : r.sgid \in In(ns_group') /\ r.snid \in registered'
    BY <1>1, <1>2, <1>3, <1>5 DEF GroupsInv, RowsInv
  <2>4. QED
    BY <1>1, <1>5, <2>2, <2>3 DEF GroupsInv, RowsInv
<1>7. cache \in [Nicks -> Lists] /\ (~Online(n) => cache[n] = NoList)
  BY DEF GroupsInv, CacheInv, Lists
<1>8. /\ AddListed(n, cache[n], g) \in Lists
      /\ ~Online(n) => AddListed(n, cache[n], g) = NoList
      /\ (Online(n) /\ cache[n] # NoList) =>
           AddListed(n, cache[n], g) = [cache[n] EXCEPT ![g] = cache[n][g] + 1]
  <2>1. cache[n] \in Lists /\ cache[n][g] < MaxCopies
    BY <1>1, <1>7
  <2>2. QED
    BY <1>3, <1>7, <2>1, AddListedIs
<1>9. cache'[n] = AddListed(n, cache[n], g) /\ \A m \in Nicks \ {n} : cache'[m] = cache[m]
  BY <1>1, <1>7
<1>10. \A m \in Nicks : ~Online(m)' => cache'[m] = NoList
  <2>1. \A m \in Nicks : Online(m)' <=> Online(m)
    BY <1>2 DEF Online
  <2>2. \A m \in Nicks : ~Online(m) => cache[m] = NoList
    BY DEF GroupsInv, CacheInv
  <2>3. QED
    BY <1>8, <1>9, <2>1, <2>2
<1>11. ASSUME NEW m, NEW h, m # n \/ h # g
       PROVE  IsMemberOf(m, h)' <=> IsMemberOf(m, h)
  BY <1>1, <1>5, <1>11, MemberIs, MemberIsNext
<1>12. IsMemberOf(n, g)'
  BY <1>1, <1>5, MemberIsNext
<1>13. ASSUME NEW m \in loaded' PROVE Identified(m)' /\ Follows(m)'
  <2>1. m \in Nicks /\ Identified(m) /\ Follows(m) /\ cache[m] \in Lists
    BY <1>1, <1>7, <1>13 DEF GroupsInv, CacheInv
  <2>2. Identified(m)'
    BY <1>2, <2>1 DEF Identified
  <2>3. CASE m # n
    <3>1. Follows(m)'
      BY <1>1, <1>9, <1>11, <2>1, <2>3, KeepsFollowing
    <3>2. QED
      BY <2>2, <3>1
  <2>4. CASE m = n
    <3>1. Online(n)
      BY <2>1, <2>4 DEF Online, Identified
    <3>2. \A h \in Groups : /\ cache[n][h] >= 0 /\ cache[n][h] \in -1..MaxCopies
                            /\ cache[n][h] = (IF IsMemberOf(n, h) THEN 1 ELSE 0) \/ <<h, n>> \in expired
      BY <2>1, <2>4 DEF Follows, Lists
    <3>3. cache[n] # NoList
      <4>1. cache[n][g] >= 0
        BY <1>3, <3>2
      <4>2. NoList[g] = -1
        BY <1>3, ListsOf
      <4>3. QED
        BY <4>1, <4>2
    <3>4. /\ cache'[n][g] = cache[n][g] + 1
          /\ \A h \in Groups \ {g} : cache'[n][h] = cache[n][h]
      BY <1>3, <1>8, <1>9, <2>1, <2>4, <3>1, <3>3 DEF Lists
    <3>5. ASSUME NEW h \in Groups
          PROVE  /\ cache'[n][h] >= 0
                 /\ \/ cache'[n][h] = (IF IsMemberOf(n, h)' THEN 1 ELSE 0)
                    \/ <<h, n>> \in expired'
      <4>1. CASE h = g
        <5>1. cache[n][g] >= 0 /\ cache[n][g] \in Int /\ (cache[n][g] = 0 \/ <<g, n>> \in expired)
          BY <1>1, <1>3, <3>2, ListsOf
        <5>2. QED
          BY <1>1, <1>12, <3>4, <4>1, <5>1
      <4>2. CASE h # g
        <5>1. cache'[n][h] = cache[n][h] /\ (IsMemberOf(n, h)' <=> IsMemberOf(n, h))
          BY <1>11, <3>4, <4>2
        <5>2. QED
          BY <1>1, <3>2, <5>1
      <4>3. QED
        BY <4>1, <4>2
    <3>6. Follows(n)'
      BY <3>5 DEF Follows
    <3>7. QED
      BY <2>2, <2>4, <3>6
  <2>5. QED
    BY <2>3, <2>4
<1>14. cache' \in [Nicks -> Lists]
  BY <1>1, <1>7, <1>8
<1>15. crashed' \in BOOLEAN /\ loaded' \subseteq Nicks /\ expired' \subseteq Groups \X Nicks
  BY <1>1 DEF GroupsInv, CacheInv
<1>16. CacheInv'
  BY <1>10, <1>13, <1>14, <1>15, CacheKept DEF GroupsInv
<1>17. QED
  BY <1>1, <1>6, <1>16 DEF GroupsInv

LEMMA DelKeeps ==
  ASSUME GroupsInv, UNCHANGED nickvars, NEW s \in Nicks, NEW n \in Nicks, NEW g \in MemberGroups,
         GroupDel(s, g, n)
  PROVE  GroupsInv'
<1>1. /\ IsMemberOf(n, g)
      /\ ns_group_users' = ns_group_users \ RowsFor(g, n)
      /\ cache' = [cache EXCEPT ![n] = DelListed(cache[n], g)]
      /\ crashed' = (Online(n) /\ cache[n] = NoList)
      /\ ns_group' = ns_group /\ loaded' = loaded /\ expired' = expired
  BY DEF GroupDel
<1>2. registered' = registered /\ bearer' = bearer
  BY DEF nickvars
<1>3. g \in Groups
  BY NickGroupsAssumption
<1>4. RowsInv'
  BY <1>1, <1>2, RowsKept DEF GroupsInv, RowsInv
<1>5. cache \in [Nicks -> Lists] /\ (~Online(n) => cache[n] = NoList)
  BY DEF GroupsInv, CacheInv, Lists
<1>6. DelListed(cache[n], g) \in Lists /\ DelListed(NoList, g) = NoList
  <2>1. DelListed(cache[n], g) \in Lists
    BY <1>3, <1>5, ListsOf
  <2>2. NoList[g] = -1
    BY <1>3, ListsOf
  <2>3. QED
    BY <2>1, <2>2 DEF DelListed
<1>7. cache'[n] = DelListed(cache[n], g) /\ \A m \in Nicks \ {n} : cache'[m] = cache[m]
  BY <1>1, <1>5
<1>8. \A m \in Nicks : ~Online(m)' => cache'[m] = NoList
  <2>1. \A m \in Nicks : Online(m)' <=> Online(m)
    BY <1>2 DEF Online
  <2>2. \A m \in Nicks : ~Online(m) => cache[m] = NoList
    BY DEF GroupsInv, CacheInv
  <2>3. QED
    BY <1>6, <1>7, <2>1, <2>2
<1>9. ASSUME NEW m, NEW h, m # n \/ h # g
      PROVE  IsMemberOf(m, h)' <=> IsMemberOf(m, h)
  BY <1>1, <1>9, MemberIs, MemberIsNext DEF RowsFor
<1>10. ~IsMemberOf(n, g)'
  BY <1>1, MemberIsNext DEF RowsFor
<1>11. ASSUME NEW m \in loaded' PROVE Identified(m)' /\ Follows(m)'
  <2>1. m \in Nicks /\ Identified(m) /\ Follows(m) /\ cache[m] \in Lists
    BY <1>1, <1>5, <1>11 DEF GroupsInv, CacheInv
  <2>2. Identified(m)'
    BY <1>2, <2>1 DEF Identified
  <2>3. CASE m # n
    <3>1. Follows(m)'
      BY <1>1, <1>7, <1>9, <2>1, <2>3, KeepsFollowing
    <3>2. QED
      BY <2>2, <3>1
  <2>4. CASE m = n
    <3>1. \A h \in Groups : /\ cache[n][h] >= 0 /\ cache[n][h] \in -1..MaxCopies
                            /\ cache[n][h] = (IF IsMemberOf(n, h) THEN 1 ELSE 0) \/ <<h, n>> \in expired
      BY <2>1, <2>4 DEF Follows, Lists
    <3>2. /\ cache'[n][g] = IF cache[n][g] > 0 THEN cache[n][g] - 1 ELSE cache[n][g]
          /\ \A h \in Groups \ {g} : cache'[n][h] = cache[n][h]
      BY <1>3, <1>7, <2>1, <2>4 DEF Lists, DelListed
    <3>3. ASSUME NEW h \in Groups
          PROVE  /\ cache'[n][h] >= 0
                 /\ \/ cache'[n][h] = (IF IsMemberOf(n, h)' THEN 1 ELSE 0)
                    \/ <<h, n>> \in expired'
      <4>1. CASE h = g
        <5>1. cache[n][g] >= 0 /\ cache[n][g] \in Int /\ (cache[n][g] = 1 \/ <<g, n>> \in expired)
          BY <1>1, <1>3, <3>1, ListsOf
        <5>2. QED
          BY <1>1, <1>10, <3>2, <4>1, <5>1
      <4>2. CASE h # g
        <5>1. cache'[n][h] = cache[n][h] /\ (IsMemberOf(n, h)' <=> IsMemberOf(n, h))
          BY <1>9, <3>2, <4>2
        <5>2. QED
          BY <1>1, <3>1, <5>1
      <4>3. QED
        BY <4>1, <4>2
    <3>4. Follows(n)'
      BY <3>3 DEF Follows
    <3>5. QED
      BY <2>2, <2>4, <3>4
  <2>5. QED
    BY <2>3, <2>4
<1>12. cache' \in [Nicks -> Lists]
  BY <1>1, <1>5, <1>6
<1>13. crashed' \in BOOLEAN /\ loaded' \subseteq Nicks /\ expired' \subseteq Groups \X Nicks
  BY <1>1 DEF GroupsInv, CacheInv
<1>14. CacheInv'
  BY <1>8, <1>11, <1>12, <1>13, CacheKept DEF GroupsInv
<1>15. QED
  BY <1>1, <1>4, <1>14 DEF GroupsInv

LEMMA ExpireKeeps ==
  ASSUME GroupsInv, UNCHANGED nickvars, MembersExpire
  PROVE  GroupsInv'
<1> DEFINE over == {r \in ns_group_users : r.t_expire > 0 /\ r.t_expire < irc_CurrentTime}
           told == {<<r.sgid, r.snid>> : r \in {q \in over : Online(q.snid)}}
<1>1. /\ ns_group_users' = ns_group_users \ over
      /\ expired' = expired \union told
      /\ ns_group' = ns_group /\ cache' = cache /\ crashed' = crashed /\ loaded' = loaded
  BY DEF MembersExpire
<1>2. registered' = registered /\ bearer' = bearer
  BY DEF nickvars
<1>3. RowsInv'
  BY <1>1, <1>2, RowsKept DEF GroupsInv, RowsInv
<1>4. over \subseteq ns_group_users
  OBVIOUS
<1>5. told \subseteq Groups \X Nicks /\ \A r \in over : Online(r.snid) => <<r.sgid, r.snid>> \in told
  BY DEF GroupsInv, RowsInv
<1> HIDE DEF over, told
<1>6. ASSUME NEW m \in loaded' PROVE Identified(m)' /\ Follows(m)'
  <2>1. m \in Nicks /\ Identified(m) /\ Follows(m)
    BY <1>1, <1>6 DEF GroupsInv, CacheInv
  <2>2. Identified(m)' /\ Online(m)
    BY <1>2, <2>1 DEF Identified, Online
  <2>3. ASSUME NEW g \in Groups
        PROVE  /\ cache'[m][g] >= 0
               /\ \/ cache'[m][g] = (IF IsMemberOf(m, g)' THEN 1 ELSE 0)
                  \/ <<g, m>> \in expired'
    <3>1. /\ cache[m][g] >= 0
          /\ cache[m][g] = (IF IsMemberOf(m, g) THEN 1 ELSE 0) \/ <<g, m>> \in expired
      BY <2>1 DEF Follows
    <3>2. CASE \E r \in over : r.sgid = g /\ r.snid = m
      BY <1>1, <1>5, <2>2, <3>1, <3>2
    <3>3. CASE ~\E r \in over : r.sgid = g /\ r.snid = m
      <4>1. IsMemberOf(m, g)' <=> IsMemberOf(m, g)
        BY <1>1, <3>3, MemberIs, MemberIsNext
      <4>2. QED
        BY <1>1, <3>1, <4>1
    <3>4. QED
      BY <3>2, <3>3
  <2>4. QED
    BY <2>2, <2>3 DEF Follows
<1>7. \A n \in Nicks : ~Online(n)' => cache'[n] = NoList
  BY <1>1, <1>2 DEF GroupsInv, CacheInv, Online
<1>8. /\ cache' \in [Nicks -> Lists] /\ crashed' \in BOOLEAN /\ loaded' \subseteq Nicks
      /\ expired' \subseteq Groups \X Nicks
  BY <1>1, <1>5 DEF GroupsInv, CacheInv, Lists
<1>9. CacheInv'
  BY <1>6, <1>7, <1>8, CacheKept DEF GroupsInv
<1>10. QED
  BY <1>1, <1>3, <1>9 DEF GroupsInv

-----------------------------------------------------------------------------
(* What nicks do to the groups                                             *)

LEMMA ConnectKeeps ==
  ASSUME GroupsInv, NicksTypeOK, NEW n \in Nicks, Connects(n), UNCHANGED groupvars
  PROVE  GroupsInv'
<1>1. /\ ~Online(n) /\ bearer' = [bearer EXCEPT ![n] = "unidentified"] /\ registered' = registered
      /\ ns_group_users' = ns_group_users /\ cache' = cache /\ crashed' = crashed
      /\ loaded' = loaded /\ expired' = expired /\ ns_group' = ns_group
  BY DEF Connects, groupvars
<1>2. bearer'[n] = "unidentified" /\ \A m \in Nicks \ {n} : bearer'[m] = bearer[m]
  BY <1>1 DEF NicksTypeOK
<1>3. RowsInv'
  BY <1>1, RowsKept DEF GroupsInv, RowsInv
<1>4. ASSUME NEW m \in loaded' PROVE Identified(m)' /\ Follows(m)'
  <2>1. m \in Nicks /\ Identified(m) /\ Follows(m)
    BY <1>1, <1>4 DEF GroupsInv, CacheInv
  <2>2. m # n
    BY <1>1, <2>1 DEF Identified, Online
  <2>3. Identified(m)'
    BY <1>2, <2>1, <2>2 DEF Identified
  <2>4. \A g : IsMemberOf(m, g)' <=> IsMemberOf(m, g)
    BY <1>1, MemberIs, MemberIsNext
  <2>5. QED
    BY <1>1, <2>1, <2>3, <2>4, KeepsFollowing
<1>5. \A m \in Nicks : ~Online(m)' => cache'[m] = NoList
  BY <1>1, <1>2 DEF GroupsInv, CacheInv, Online
<1>6. /\ cache' \in [Nicks -> Lists] /\ crashed' \in BOOLEAN /\ loaded' \subseteq Nicks
      /\ expired' \subseteq Groups \X Nicks
  BY <1>1 DEF GroupsInv, CacheInv, Lists
<1>7. CacheInv'
  BY <1>4, <1>5, <1>6, CacheKept DEF GroupsInv
<1>8. QED
  BY <1>1, <1>3, <1>7 DEF GroupsInv

LEMMA QuitKeeps ==
  ASSUME GroupsInv, NicksTypeOK, NEW n \in Nicks, Quits(n), GroupsQuit(n)
  PROVE  GroupsInv'
<1>1. /\ bearer' = [bearer EXCEPT ![n] = "none"] /\ registered' = registered
      /\ cache' = [cache EXCEPT ![n] = NoList] /\ loaded' = loaded \ {n}
      /\ expired' = NotExpired(n)
      /\ ns_group' = ns_group /\ ns_group_users' = ns_group_users /\ crashed' = crashed
  BY DEF Quits, GroupsQuit
<1>2. bearer'[n] = "none" /\ \A m \in Nicks \ {n} : bearer'[m] = bearer[m]
  BY <1>1 DEF NicksTypeOK
<1>3. cache'[n] = NoList /\ \A m \in Nicks \ {n} : cache'[m] = cache[m]
  BY <1>1 DEF GroupsInv, CacheInv
<1>4. RowsInv'
  BY <1>1, RowsKept DEF GroupsInv, RowsInv
<1>5. ASSUME NEW m \in loaded' PROVE Identified(m)' /\ Follows(m)'
  <2>1. m \in Nicks \ {n} /\ Identified(m) /\ Follows(m)
    BY <1>1, <1>5 DEF GroupsInv, CacheInv
  <2>2. Identified(m)'
    BY <1>2, <2>1 DEF Identified
  <2>3. \A g : IsMemberOf(m, g)' <=> IsMemberOf(m, g)
    BY <1>1, MemberIs, MemberIsNext
  <2>4. \A g : <<g, m>> \in expired => <<g, m>> \in expired'
    BY <1>1, <2>1 DEF NotExpired
  <2>5. QED
    BY <1>3, <2>1, <2>2, <2>3, <2>4, KeepsFollowing
<1>6. \A m \in Nicks : ~Online(m)' => cache'[m] = NoList
  BY <1>2, <1>3 DEF GroupsInv, CacheInv, Online
<1>7. /\ cache' \in [Nicks -> Lists] /\ crashed' \in BOOLEAN /\ loaded' \subseteq Nicks
      /\ expired' \subseteq Groups \X Nicks
  <2>1. cache' \in [Nicks -> Lists]
    BY <1>1, ListsOf DEF GroupsInv, CacheInv, Lists
  <2>2. QED
    BY <1>1, <2>1 DEF GroupsInv, CacheInv, NotExpired
<1>8. CacheInv'
  BY <1>5, <1>6, <1>7, CacheKept DEF GroupsInv
<1>9. QED
  BY <1>1, <1>4, <1>8 DEF GroupsInv

LEMMA NickChangeKeeps ==
  ASSUME GroupsInv, NicksTypeOK, NEW n \in Nicks, NEW new \in Nicks,
         ChangesNick(n, new), GroupsNick(n, new)
  PROVE  GroupsInv'
<1>1. /\ Online(n) /\ ~Online(new)
      /\ bearer' = [bearer EXCEPT ![n] = "none", ![new] = "unidentified"]
      /\ registered' = registered
      /\ cache' = [cache EXCEPT ![n] = NoList, ![new] = cache[n]] /\ loaded' = loaded \ {n}
      /\ expired' = NotExpired(n)
      /\ ns_group' = ns_group /\ ns_group_users' = ns_group_users /\ crashed' = crashed
  BY DEF ChangesNick, GroupsNick
<1>2. n # new
  BY <1>1
<1>3. /\ bearer'[n] = "none" /\ bearer'[new] = "unidentified"
      /\ \A m \in Nicks \ {n, new} : bearer'[m] = bearer[m]
  BY <1>1, <1>2 DEF NicksTypeOK
<1>4. cache'[n] = NoList /\ \A m \in Nicks \ {n, new} : cache'[m] = cache[m]
  BY <1>1, <1>2 DEF GroupsInv, CacheInv
<1>5. RowsInv'
  BY <1>1, RowsKept DEF GroupsInv, RowsInv
<1>6. ASSUME NEW m \in loaded' PROVE Identified(m)' /\ Follows(m)'
  <2>1. m \in Nicks \ {n} /\ Identified(m) /\ Follows(m)
    BY <1>1, <1>6 DEF GroupsInv, CacheInv
  <2>2. m # new
    BY <1>1, <2>1 DEF Identified, Online
  <2>3. Identified(m)'
    BY <1>3, <2>1, <2>2 DEF Identified
  <2>4. \A g : IsMemberOf(m, g)' <=> IsMemberOf(m, g)
    BY <1>1, MemberIs, MemberIsNext
  <2>5. \A g : <<g, m>> \in expired => <<g, m>> \in expired'
    BY <1>1, <2>1 DEF NotExpired
  <2>6. QED
    BY <1>4, <2>1, <2>2, <2>3, <2>4, <2>5, KeepsFollowing
<1>7. \A m \in Nicks : ~Online(m)' => cache'[m] = NoList
  BY <1>3, <1>4 DEF GroupsInv, CacheInv, Online
<1>8. /\ cache' \in [Nicks -> Lists] /\ crashed' \in BOOLEAN /\ loaded' \subseteq Nicks
      /\ expired' \subseteq Groups \X Nicks
  <2>1. cache' \in [Nicks -> Lists]
    BY <1>1, ListsOf DEF GroupsInv, CacheInv, Lists
  <2>2. QED
    BY <1>1, <2>1 DEF GroupsInv, CacheInv, NotExpired
<1>9. CacheInv'
  BY <1>6, <1>7, <1>8, CacheKept DEF GroupsInv
<1>10. QED
  BY <1>1, <1>5, <1>9 DEF GroupsInv

LEMMA IdentifyKeeps ==
  ASSUME GroupsInv, NicksTypeOK, NEW n \in Nicks, Identifies(n), GroupsIdentified(n)
  PROVE  GroupsInv'
<1>1. /\ bearer' = [bearer EXCEPT ![n] = "identified"] /\ registered' = registered
      /\ cache' = [cache EXCEPT ![n] = Loaded(n, cache[n])] /\ loaded' = loaded \union {n}
      /\ expired' = NotExpired(n)
      /\ ns_group' = ns_group /\ ns_group_users' = ns_group_users /\ crashed' = crashed
  BY DEF Identifies, GroupsIdentified
<1>2. bearer'[n] = "identified" /\ \A m \in Nicks \ {n} : bearer'[m] = bearer[m]
  BY <1>1 DEF NicksTypeOK
<1>3. cache'[n] = Loaded(n, cache[n]) /\ \A m \in Nicks \ {n} : cache'[m] = cache[m]
  BY <1>1 DEF GroupsInv, CacheInv
<1>4. RowsInv'
  BY <1>1, RowsKept DEF GroupsInv, RowsInv
<1>5. \A m : \A g : IsMemberOf(m, g)' <=> IsMemberOf(m, g)
  BY <1>1, MemberIs, MemberIsNext
<1>6. ASSUME NEW m \in loaded' PROVE Identified(m)' /\ Follows(m)'
  <2>1. CASE m = n
    <3>1. \A g \in Groups : cache'[n][g] = IF IsMemberOf(n, g) THEN 1 ELSE 0
      BY <1>3 DEF Loaded
    <3>2. Follows(n)'
      BY <1>5, <3>1 DEF Follows
    <3>3. QED
      BY <1>2, <2>1, <3>2 DEF Identified
  <2>2. CASE m # n
    <3>1. m \in Nicks \ {n} /\ Identified(m) /\ Follows(m)
      BY <1>1, <1>6, <2>2 DEF GroupsInv, CacheInv
    <3>2. Identified(m)'
      BY <1>2, <3>1 DEF Identified
    <3>3. \A g : <<g, m>> \in expired => <<g, m>> \in expired'
      BY <1>1, <3>1 DEF NotExpired
    <3>4. QED
      BY <1>3, <1>5, <3>1, <3>2, <3>3, KeepsFollowing
  <2>3. QED
    BY <2>1, <2>2
<1>7. \A m \in Nicks : ~Online(m)' => cache'[m] = NoList
  BY <1>2, <1>3 DEF GroupsInv, CacheInv, Online
<1>8. /\ cache' \in [Nicks -> Lists] /\ crashed' \in BOOLEAN /\ loaded' \subseteq Nicks
      /\ expired' \subseteq Groups \X Nicks
  <2>1. cache' \in [Nicks -> Lists]
    <3>1. Loaded(n, cache[n]) \in Lists
      BY ListsOf
    <3>2. QED
      BY <1>1, <3>1 DEF GroupsInv, CacheInv, Lists
  <2>2. QED
    BY <1>1, <2>1 DEF GroupsInv, CacheInv, NotExpired
<1>9. CacheInv'
  BY <1>6, <1>7, <1>8, CacheKept DEF GroupsInv
<1>10. QED
  BY <1>1, <1>4, <1>9 DEF GroupsInv

LEMMA RegisterKeeps ==
  ASSUME GroupsInv, NicksTypeOK, NEW n \in Nicks, Registers(n), UNCHANGED groupvars
  PROVE  GroupsInv'
<1>1. /\ bearer[n] = "unidentified" /\ bearer' = [bearer EXCEPT ![n] = "identified"]
      /\ registered' = registered \union {n}
      /\ ns_group_users' = ns_group_users /\ cache' = cache /\ crashed' = crashed
      /\ loaded' = loaded /\ expired' = expired /\ ns_group' = ns_group
  BY DEF Registers, groupvars
<1>2. bearer'[n] = "identified" /\ \A m \in Nicks \ {n} : bearer'[m] = bearer[m]
  BY <1>1 DEF NicksTypeOK
<1>3. RowsInv'
  BY <1>1, RowsKept DEF GroupsInv, RowsInv
<1>4. ASSUME NEW m \in loaded' PROVE Identified(m)' /\ Follows(m)'
  <2>1. m \in Nicks /\ Identified(m) /\ Follows(m)
    BY <1>1, <1>4 DEF GroupsInv, CacheInv
  <2>2. Identified(m)'
    BY <1>2, <2>1 DEF Identified
  <2>3. \A g : IsMemberOf(m, g)' <=> IsMemberOf(m, g)
    BY <1>1, MemberIs, MemberIsNext
  <2>4. QED
    BY <1>1, <2>1, <2>2, <2>3, KeepsFollowing
<1>5. \A m \in Nicks : ~Online(m)' => cache'[m] = NoList
  BY <1>1, <1>2 DEF GroupsInv, CacheInv, Online
<1>6. /\ cache' \in [Nicks -> Lists] /\ crashed' \in BOOLEAN /\ loaded' \subseteq Nicks
      /\ expired' \subseteq Groups \X Nicks
  BY <1>1 DEF GroupsInv, CacheInv, Lists
<1>7. CacheInv'
  BY <1>4, <1>5, <1>6, CacheKept DEF GroupsInv
<1>8. QED
  BY <1>1, <1>3, <1>7 DEF GroupsInv

LEMMA NickDropKeeps ==
  ASSUME GroupsInv, NicksTypeOK, NEW n \in Nicks, IsDropped(n), GroupsNickDropped(n)
  PROVE  GroupsInv'
<1>1. /\ bearer' = [bearer EXCEPT ![n] = IF bearer[n] = "identified" THEN "unidentified" ELSE bearer[n]]
      /\ registered' = registered \ {n}
      /\ ns_group_users' = {r \in ns_group_users : r.snid # n} /\ loaded' = loaded \ {n}
      /\ cache' = cache /\ crashed' = crashed /\ expired' = expired /\ ns_group' = ns_group
  BY DEF IsDropped, GroupsNickDropped
<1>2. /\ bearer'[n] = IF bearer[n] = "identified" THEN "unidentified" ELSE bearer[n]
      /\ \A m \in Nicks \ {n} : bearer'[m] = bearer[m]
  BY <1>1 DEF NicksTypeOK
<1>3. RowsInv'
  BY <1>1, RowsKept DEF GroupsInv, RowsInv
<1>4. ASSUME NEW m \in loaded' PROVE Identified(m)' /\ Follows(m)'
  <2>1. m \in Nicks \ {n} /\ Identified(m) /\ Follows(m)
    BY <1>1, <1>4 DEF GroupsInv, CacheInv
  <2>2. Identified(m)'
    BY <1>2, <2>1 DEF Identified
  <2>3. \A g : IsMemberOf(m, g)' <=> IsMemberOf(m, g)
    BY <1>1, <2>1, MemberIs, MemberIsNext
  <2>4. QED
    BY <1>1, <2>1, <2>2, <2>3, KeepsFollowing
<1>5. \A m \in Nicks : ~Online(m)' => cache'[m] = NoList
  BY <1>1, <1>2 DEF GroupsInv, CacheInv, Online
<1>6. /\ cache' \in [Nicks -> Lists] /\ crashed' \in BOOLEAN /\ loaded' \subseteq Nicks
      /\ expired' \subseteq Groups \X Nicks
  BY <1>1 DEF GroupsInv, CacheInv, Lists
<1>7. CacheInv'
  BY <1>4, <1>5, <1>6, CacheKept DEF GroupsInv
<1>8. QED
  BY <1>1, <1>3, <1>7 DEF GroupsInv

(* The nicks themselves                                                    *)
LEMMA NicksTyped ==
  ASSUME NicksTypeOK,
         \/ UNCHANGED nickvars
         \/ TimePasses
         \/ \E n \in Nicks : \/ Connects(n) \/ Quits(n) \/ Identifies(n) \/ Registers(n)
                             \/ IsDropped(n)
                             \/ \E new \in Nicks : ChangesNick(n, new)
  PROVE  NicksTypeOK'
<1>1. CASE UNCHANGED nickvars
  BY <1>1 DEF nickvars, NicksTypeOK
<1>2. CASE TimePasses
  BY <1>2 DEF TimePasses, NicksTypeOK
<1>3. ASSUME NEW n \in Nicks, Connects(n) PROVE NicksTypeOK'
  BY <1>3 DEF Connects, NicksTypeOK, Bearer
<1>4. ASSUME NEW n \in Nicks, Quits(n) PROVE NicksTypeOK'
  BY <1>4 DEF Quits, NicksTypeOK, Bearer
<1>5. ASSUME NEW n \in Nicks, Identifies(n) PROVE NicksTypeOK'
  BY <1>5 DEF Identifies, NicksTypeOK, Bearer
<1>6. ASSUME NEW n \in Nicks, Registers(n) PROVE NicksTypeOK'
  BY <1>6 DEF Registers, NicksTypeOK, Bearer
<1>7. ASSUME NEW n \in Nicks, IsDropped(n) PROVE NicksTypeOK'
  <2>1. /\ registered' = registered \ {n}
        /\ bearer' = [bearer EXCEPT ![n] = IF bearer[n] = "identified" THEN "unidentified" ELSE bearer[n]]
        /\ irc_CurrentTime' = irc_CurrentTime /\ features' = features
    BY <1>7 DEF IsDropped
  <2>2. bearer[n] \in Bearer
    BY DEF NicksTypeOK
  <2>3. bearer'[n] # "identified" /\ bearer' \in [Nicks -> Bearer]
        /\ \A m \in Nicks \ {n} : bearer'[m] = bearer[m]
    BY <2>1, <2>2 DEF NicksTypeOK, Bearer
  <2>4. QED
    BY <2>1, <2>3 DEF NicksTypeOK
<1>8. ASSUME NEW n \in Nicks, NEW new \in Nicks, ChangesNick(n, new) PROVE NicksTypeOK'
  BY <1>8 DEF ChangesNick, NicksTypeOK, Bearer
<1>9. QED
  BY <1>1, <1>2, <1>3, <1>4, <1>5, <1>6, <1>7, <1>8

-----------------------------------------------------------------------------
(* Memos                                                                   *)
Memo == [owner : Nicks, id : 1..MaxId, sender : Nicks \union {NONE},
         flags : SUBSET MemoFlags, t_send : Nat]

MemosOK(memos, nicks) ==
  /\ memos \subseteq Memo
  /\ \A m, q \in memos : m.owner = q.owner /\ m.id = q.id => m = q
  /\ \A m \in memos : m.owner \in nicks /\ m.sender \in nicks \union {NONE}

Options == [maxmemos : Nat \union {-1}, flags : SUBSET MemoOptions]

OptionsOK(options, nicks) ==
  /\ options \in [Nicks -> Options]
  /\ \A n \in Nicks : options[n] # NoOptions => n \in nicks

LEMMA MemosTyped ==
  MemosTypeOK <=> MemosOK(memoserv, registered) /\ OptionsOK(memoserv_options, registered)
BY DEF MemosTypeOK, MemosOK, OptionsOK, Memo, Options

LEMMA MemosTypedNext ==
  MemosTypeOK' <=> MemosOK(memoserv', registered') /\ OptionsOK(memoserv_options', registered')
BY DEF MemosTypeOK, MemosOK, OptionsOK, Memo, Options

LEMMA MemosFewer ==
  ASSUME NEW memos, NEW nicks, MemosOK(memos, nicks), NEW some \in SUBSET memos
  PROVE  MemosOK(some, nicks)
BY DEF MemosOK

LEMMA MemosMore ==
  ASSUME NEW memos, NEW nicks, MemosOK(memos, nicks), NEW nicks2, nicks \subseteq nicks2
  PROVE  MemosOK(memos, nicks2)
BY DEF MemosOK

(* Rows changed in place                                                   *)
LEMMA MemosChanged ==
  ASSUME NEW memos, NEW nicks, MemosOK(memos, nicks), NEW f,
         \A m \in memos : /\ f[m] \in Memo /\ f[m].owner = m.owner /\ f[m].id = m.id
                          /\ f[m].sender \in {m.sender, NONE}
  PROVE  MemosOK({f[m] : m \in memos}, nicks)
<1> DEFINE new == {f[m] : m \in memos}
<1>1. new \subseteq Memo
  OBVIOUS
<1>2. ASSUME NEW a \in new, NEW b \in new, a.owner = b.owner, a.id = b.id PROVE a = b
  <2>1. PICK m \in memos : a = f[m]
    OBVIOUS
  <2>2. PICK q \in memos : b = f[q]
    OBVIOUS
  <2>3. m.owner = q.owner /\ m.id = q.id
    BY <1>2, <2>1, <2>2
  <2>4. QED
    BY <2>1, <2>2, <2>3 DEF MemosOK
<1>3. ASSUME NEW a \in new PROVE a.owner \in nicks /\ a.sender \in nicks \union {NONE}
  <2>1. PICK m \in memos : a = f[m]
    OBVIOUS
  <2>2. m.owner \in nicks /\ m.sender \in nicks \union {NONE}
    BY DEF MemosOK
  <2>3. QED
    BY <2>1, <2>2
<1>4. QED
  BY <1>1, <1>2, <1>3 DEF MemosOK

LEMMA OptionsOfIs ==
  ASSUME MemosTypeOK, NEW n \in Nicks
  PROVE  OptionsOf(n) \in Options
<1>1. [maxmemos |-> MaxMemos, flags |-> DefaultOptions] \in Options
  BY MemosAssumption DEF Options
<1>2. memoserv_options[n] \in Options
  BY MemosTyped DEF OptionsOK
<1>3. QED
  BY <1>1, <1>2 DEF OptionsOf

LEMMA OptionsSet ==
  ASSUME NEW options, NEW nicks, OptionsOK(options, nicks), NEW n \in nicks, n \in Nicks,
         NEW o \in Options
  PROVE  OptionsOK([options EXCEPT ![n] = o], nicks)
BY DEF OptionsOK

(* The id of a new memo is one more than the highest of its owner.         *)
LEMMA NextIdIsFree ==
  ASSUME MemosTypeOK, NEW n \in Nicks, NextId(n) <= MaxId
  PROVE  NextId(n) \in 1..MaxId /\ \A m \in memoserv : m.owner = n => m.id # NextId(n)
<1>1. MaxId \in Nat
  BY MemosAssumption
<1>2. CASE MemosOf(n) = {}
  <2>1. NextId(n) = 1
    BY <1>2 DEF NextId
  <2>2. \A m \in memoserv : m.owner # n
    BY <1>2 DEF MemosOf
  <2>3. QED
    BY <1>1, <2>1, <2>2
<1>3. CASE MemosOf(n) # {}
  <2> DEFINE S == {m.id : m \in MemosOf(n)}
             High(m) == \A q \in MemosOf(n) : q.id <= m.id
             c == CHOOSE m \in MemosOf(n) : High(m)
  <2>1. \A m \in MemosOf(n) : m.id \in 1..MaxId
    BY DEF MemosOf, MemosTypeOK
  <2>2. S \in SUBSET (0..MaxId) /\ S # {}
    BY <1>1, <1>3, <2>1
  <2>3. PICK i \in S : \A j \in S : j <= i
    <3> HIDE DEF S
    <3>1. QED
      BY <1>1, <2>2, Greatest
  <2>4. PICK m \in MemosOf(n) : i = m.id
    OBVIOUS
  <2>5. High(m)
    BY <2>3, <2>4
  <2>6. c \in MemosOf(n) /\ High(c)
    BY <2>4, <2>5, Zenon
  <2>7. NextId(n) = c.id + 1
    BY <1>3 DEF NextId
  <2> HIDE DEF c
  <2>8. c.id \in 1..MaxId /\ c.id + 1 <= MaxId
    BY <2>1, <2>6, <2>7
  <2>9. ASSUME NEW q \in memoserv, q.owner = n PROVE q.id # NextId(n)
    <3>1. q \in MemosOf(n)
      BY <2>9 DEF MemosOf
    <3>2. q.id <= c.id /\ q.id \in 1..MaxId
      BY <2>1, <2>6, <3>1
    <3>3. QED
      BY <2>7, <2>8, <3>2
  <2>10. QED
    BY <1>1, <2>7, <2>8, <2>9
<1>4. QED
  BY <1>2, <1>3

LEMMA SendKeeps ==
  ASSUME MemosTypeOK, NicksTypeOK, UNCHANGED nickvars, NEW s \in Nicks, NEW n \in Nicks, Send(s, n)
  PROVE  MemosTypeOK'
<1>1. /\ s \in registered /\ n \in registered /\ registered' = registered
      /\ irc_CurrentTime \in Nat
  BY DEF Send, Identified, HasSnid, NicksTypeOK, nickvars
<1>2. MemosOK(memoserv, registered) /\ OptionsOK(memoserv_options, registered)
  BY MemosTyped
<1>3. OptionsOK(memoserv_options', registered')
  <2>1. memoserv_options' = [memoserv_options EXCEPT ![n] = OptionsOf(n)]
    BY DEF Send, OptionsStored
  <2>2. QED
    BY <1>1, <1>2, <2>1, OptionsOfIs, OptionsSet
<1>4. CASE UNCHANGED memoserv
  BY <1>1, <1>2, <1>3, <1>4, MemosTypedNext
<1>5. CASE ~UNCHANGED memoserv
  <2> DEFINE new == [owner |-> n, id |-> NextId(n), sender |-> s,
                     flags |-> NewFlags(OptionsOf(n).flags), t_send |-> irc_CurrentTime]
  <2>1. NextId(n) <= MaxId /\ memoserv' = memoserv \union {new}
    BY <1>5 DEF Send
  <2>2. NextId(n) \in 1..MaxId /\ \A m \in memoserv : m.owner = n => m.id # NextId(n)
    BY <2>1, NextIdIsFree
  <2>3. NewFlags(OptionsOf(n).flags) \in SUBSET MemoFlags
    BY DEF NewFlags, MemoFlags
  <2>4. new \in Memo /\ new.owner = n /\ new.id = NextId(n) /\ new.sender = s
    BY <1>1, <2>2, <2>3 DEF Memo
  <2> HIDE DEF new
  <2>5. MemosOK(memoserv', registered')
    BY <1>1, <1>2, <2>1, <2>2, <2>4 DEF MemosOK
  <2>6. QED
    BY <1>3, <2>5, MemosTypedNext
<1>6. QED
  BY <1>4, <1>5

LEMMA MemoStepKeeps ==
  ASSUME MemosTypeOK, NicksTypeOK, UNCHANGED nickvars, MemosNext \/ MemosExpire
  PROVE  MemosTypeOK'
<1>1. registered' = registered /\ Owners \subseteq Nicks
  BY MemosAssumption DEF nickvars
<1>2. MemosOK(memoserv, registered) /\ OptionsOK(memoserv_options, registered)
  BY MemosTyped
<1>3. ASSUME memoserv' \subseteq memoserv, UNCHANGED memoserv_options PROVE MemosTypeOK'
  BY <1>1, <1>2, <1>3, MemosFewer, MemosTypedNext
<1>4. ASSUME NEW n \in Nicks, n \in registered, NEW o \in Options,
             memoserv_options' = [memoserv_options EXCEPT ![n] = o], UNCHANGED memoserv
      PROVE  MemosTypeOK'
  BY <1>1, <1>2, <1>4, OptionsSet, MemosTypedNext
<1>5. ASSUME NEW f, memoserv' = {f[m] : m \in memoserv}, UNCHANGED memoserv_options,
             \A m \in memoserv : /\ f[m] \in Memo /\ f[m].owner = m.owner /\ f[m].id = m.id
                                 /\ f[m].sender \in {m.sender, NONE}
      PROVE  MemosTypeOK'
  BY <1>1, <1>2, <1>5, MemosChanged, MemosTypedNext
<1>6. ASSUME NEW s \in Nicks, NEW n \in Owners, Cancel(s, n) PROVE MemosTypeOK'
  BY <1>3, <1>6 DEF Cancel
<1>7. ASSUME NEW s \in Owners, NEW ids, Del(s, ids) PROVE MemosTypeOK'
  BY <1>3, <1>7 DEF Del
<1>8. ASSUME MemosExpire PROVE MemosTypeOK'
  BY <1>3, <1>8 DEF MemosExpire
<1>9. \A m \in memoserv : m \in Memo
  BY <1>2 DEF MemosOK
<1>10. ASSUME NEW s \in Owners, NEW ids, Read(s, ids) PROVE MemosTypeOK'
  <2> DEFINE f == [m \in memoserv |-> IF m.owner = s /\ m.id \in ids
                                      THEN [m EXCEPT !.flags = @ \ {"unread"}] ELSE m]
  <2>1. memoserv' = {f[m] : m \in memoserv} /\ UNCHANGED memoserv_options
    BY <1>10 DEF Read
  <2>2. \A m \in memoserv : /\ f[m] \in Memo /\ f[m].owner = m.owner /\ f[m].id = m.id
                            /\ f[m].sender = m.sender
    BY <1>9 DEF Memo
  <2> HIDE DEF f
  <2>3. QED
    BY <1>5, <2>1, <2>2
<1>11. ASSUME NEW s \in Owners, NEW id, Save(s, id) PROVE MemosTypeOK'
  <2> DEFINE f == [m \in memoserv |-> IF m.owner = s /\ m.id = id
                                      THEN [m EXCEPT !.flags = @ \union {"saved"}] ELSE m]
  <2>1. memoserv' = {f[m] : m \in memoserv} /\ UNCHANGED memoserv_options
    BY <1>11 DEF Save
  <2>2. \A m \in memoserv : /\ f[m] \in Memo /\ f[m].owner = m.owner /\ f[m].id = m.id
                            /\ f[m].sender = m.sender
    BY <1>9 DEF Memo, MemoFlags
  <2> HIDE DEF f
  <2>3. QED
    BY <1>5, <2>1, <2>2
<1>12. ASSUME NEW n \in Owners, NEW option \in {"autosave", "nomemos"}, NEW on \in BOOLEAN,
              SetOption(n, option, on)
       PROVE  MemosTypeOK'
  <2> DEFINE flags == IF on THEN OptionsOf(n).flags \union {option} ELSE OptionsOf(n).flags \ {option}
             o == [OptionsOf(n) EXCEPT !.flags = flags]
  <2>1. OptionsOf(n) \in Options
    BY <1>1, OptionsOfIs
  <2>2. flags \in SUBSET MemoOptions
    BY <2>1 DEF Options, MemoOptions
  <2>3. memoserv_options' = [memoserv_options EXCEPT ![n] = o] /\ UNCHANGED memoserv
    BY <1>12 DEF SetOption
  <2> HIDE DEF flags
  <2>4. o \in Options
    BY <2>1, <2>2 DEF Options
  <2>5. n \in registered
    BY <1>1, <1>12 DEF SetOption, Identified, NicksTypeOK
  <2> HIDE DEF o
  <2>6. QED
    BY <1>1, <1>4, <2>3, <2>4, <2>5
<1>13. ASSUME NEW n \in Owners, NEW limit \in Limits, SsetMaxMemos(n, limit) PROVE MemosTypeOK'
  <2> DEFINE o == [OptionsOf(n) EXCEPT !.maxmemos = limit]
  <2>1. OptionsOf(n) \in Options /\ limit \in Nat
    BY <1>1, OptionsOfIs, MemosAssumption
  <2>2. memoserv_options' = [memoserv_options EXCEPT ![n] = o] /\ UNCHANGED memoserv
    BY <1>13 DEF SsetMaxMemos
  <2>3. o \in Options
    BY <2>1 DEF Options
  <2>4. n \in registered
    BY <1>13 DEF SsetMaxMemos, HasSnid
  <2> HIDE DEF o
  <2>5. QED
    BY <1>1, <1>4, <2>2, <2>3, <2>4
<1>14. ASSUME NEW s \in Nicks, NEW n \in Owners, Send(s, n) PROVE MemosTypeOK'
  BY <1>1, <1>14, SendKeeps
<1>15. QED
  BY <1>6, <1>7, <1>8, <1>10, <1>11, <1>12, <1>13, <1>14 DEF MemosNext

LEMMA MemosDropKeeps ==
  ASSUME MemosTypeOK, NEW n \in Nicks, IsDropped(n), MemosNickDropped(n)
  PROVE  MemosTypeOK'
<1>1. registered' = registered \ {n}
  BY DEF IsDropped
<1>2. MemosOK(memoserv, registered) /\ OptionsOK(memoserv_options, registered)
  BY MemosTyped
<1> DEFINE left == {q \in memoserv : q.owner # n}
           f == [m \in left |-> IF m.sender = n THEN [m EXCEPT !.sender = NONE] ELSE m]
<1>3. memoserv' = {f[m] : m \in left}
  BY DEF MemosNickDropped
<1>4. MemosOK(left, registered)
  BY <1>2, MemosFewer
<1>5. \A m \in left : /\ f[m] \in Memo /\ f[m].owner = m.owner /\ f[m].id = m.id
                      /\ f[m].sender = IF m.sender = n THEN NONE ELSE m.sender
  BY <1>4 DEF MemosOK, Memo
<1>6. \A m \in left : m.owner # n
  OBVIOUS
<1> HIDE DEF f, left
<1>7. MemosOK(memoserv', registered)
  BY <1>3, <1>4, <1>5, MemosChanged
<1>8. ASSUME NEW a \in memoserv' PROVE a.owner # n /\ (a.sender # n \/ a.sender = NONE)
  BY <1>3, <1>5, <1>6
<1>9. MemosOK(memoserv', registered')
  BY <1>1, <1>7, <1>8 DEF MemosOK
<1>10. OptionsOK(memoserv_options', registered')
  <2>1. NoOptions \in Options
    BY DEF NoOptions, Options
  <2>2. QED
    BY <1>1, <1>2, <2>1 DEF MemosNickDropped, OptionsOK
<1>11. QED
  BY <1>9, <1>10, MemosTypedNext

(* Steps that change neither                                               *)
LEMMA MemosSame ==
  ASSUME MemosTypeOK, UNCHANGED memovars, registered \subseteq registered'
  PROVE  MemosTypeOK'
BY DEF MemosTypeOK, memovars

-----------------------------------------------------------------------------
(* Buddies and channels to join                                            *)
Buddy == [source : Nicks, target : Nicks, status : Status, t_when : Nat]

BuddiesOK(rows, nicks) ==
  /\ rows \subseteq Buddy
  /\ \A r, q \in rows : r.source = q.source /\ r.target = q.target => r = q
  /\ \A r \in rows : {r.source, r.target} \subseteq nicks

Agree(a, b) == {a, b} \in {{"inviting", "invited"}, {"accepted"}}

Mutual(rows) ==
  \A r \in rows : \E q \in rows :
    /\ q.source = r.target /\ q.target = r.source
    /\ q.t_when = r.t_when /\ Agree(r.status, q.status)

AjoinsOK(rows, nicks, chans) ==
  /\ rows \subseteq [nick : Nicks, chan : Channels, order : 0..MaxOrder]
  /\ \A r, q \in rows : r.nick = q.nick /\ r.chan = q.chan => r = q
  /\ \A r \in rows : r.nick \in nicks /\ r.chan \in chans
  /\ chans \subseteq Channels

ListsInv ==
  /\ BuddiesOK(ns_buddy, registered) /\ Mutual(ns_buddy)
  /\ AjoinsOK(cs_ajoin, registered, chanserv)

LEMMA ListsInvNext ==
  ASSUME BuddiesOK(ns_buddy', registered'), Mutual(ns_buddy'),
         AjoinsOK(cs_ajoin', registered', chanserv')
  PROVE  ListsInv'
BY DEF ListsInv, BuddiesOK, Mutual, AjoinsOK, Agree, Buddy

LEMMA ListsTyped ==
  ASSUME ListsInv
  PROVE  ListsTypeOK /\ BuddiesMutual
<1>1. ListsTypeOK
  BY DEF ListsInv, BuddiesOK, AjoinsOK, ListsTypeOK, Buddy
<1>2. BuddiesMutual
  <2>1. ASSUME NEW r \in ns_buddy
        PROVE  \E q \in BuddyRows(r.target, r.source) :
                 /\ q.t_when = r.t_when
                 /\ {r.status, q.status} \in {{"inviting", "invited"}, {"accepted"}}
    <3>1. PICK q \in ns_buddy : /\ q.source = r.target /\ q.target = r.source
                                /\ q.t_when = r.t_when /\ Agree(r.status, q.status)
      BY DEF ListsInv, Mutual
    <3>2. q \in BuddyRows(r.target, r.source)
      BY <3>1 DEF BuddyRows
    <3>3. QED
      BY <3>1, <3>2 DEF Agree
  <2>2. QED
    BY <2>1 DEF BuddiesMutual
<1>3. QED
  BY <1>1, <1>2

LEMMA BuddiesFewer ==
  ASSUME NEW rows, NEW nicks, BuddiesOK(rows, nicks), NEW some \in SUBSET rows
  PROVE  BuddiesOK(some, nicks)
BY DEF BuddiesOK

(* What takes a row takes the row of the other side with it.               *)
LEMMA MutualFewer ==
  ASSUME NEW rows, Mutual(rows), NEW some \in SUBSET rows,
         \A r \in some, q \in rows :
           (q.source = r.target /\ q.target = r.source
              /\ q.t_when = r.t_when /\ Agree(r.status, q.status)) => q \in some
  PROVE  Mutual(some)
BY DEF Mutual

LEMMA BuddyAddKeeps ==
  ASSUME ListsInv, NicksTypeOK, registered' = registered, NEW s \in Nicks, NEW t \in Nicks,
         BuddyAdd(s, t)
  PROVE  ListsInv'
<1> DEFINE rs == BuddyRow(s, t, "inviting")
           rt == BuddyRow(t, s, "invited")
<1>1. /\ s \in registered /\ t \in registered /\ s # t
      /\ BuddyRows(s, t) = {} /\ BuddyRows(t, s) = {}
      /\ ns_buddy' = ns_buddy \union {rs, rt} /\ cs_ajoin' = cs_ajoin /\ chanserv' = chanserv
      /\ irc_CurrentTime \in Nat
  BY DEF BuddyAdd, Identified, HasSnid, NicksTypeOK
<1>2. /\ rs \in Buddy /\ rt \in Buddy
      /\ rs.source = s /\ rs.target = t /\ rt.source = t /\ rt.target = s
      /\ rs.t_when = rt.t_when /\ Agree(rs.status, rt.status) /\ Agree(rt.status, rs.status)
  BY <1>1 DEF Buddy, BuddyRow, Agree, Status
<1>3. \A r \in ns_buddy : ~(r.source = s /\ r.target = t) /\ ~(r.source = t /\ r.target = s)
  BY <1>1 DEF BuddyRows
<1> HIDE DEF rs, rt
<1>4. BuddiesOK(ns_buddy', registered')
  BY <1>1, <1>2, <1>3 DEF BuddiesOK, ListsInv
<1>5. Mutual(ns_buddy')
  <2>1. ASSUME NEW r \in ns_buddy'
        PROVE  \E q \in ns_buddy' : /\ q.source = r.target /\ q.target = r.source
                                    /\ q.t_when = r.t_when /\ Agree(r.status, q.status)
    <3>1. CASE r = rs
      BY <1>1, <1>2, <3>1
    <3>2. CASE r = rt
      BY <1>1, <1>2, <3>2
    <3>3. CASE r \in ns_buddy
      BY <1>1, <3>3 DEF ListsInv, Mutual
    <3>4. QED
      BY <1>1, <3>1, <3>2, <3>3
  <2>2. QED
    BY <2>1 DEF Mutual
<1>6. AjoinsOK(cs_ajoin', registered', chanserv')
  BY <1>1 DEF ListsInv
<1>7. QED
  BY <1>4, <1>5, <1>6, ListsInvNext

LEMMA BuddyDelKeeps ==
  ASSUME ListsInv, registered' = registered, NEW s \in Nicks, NEW t \in Nicks, BuddyDel(s, t)
  PROVE  ListsInv'
<1>1. /\ ns_buddy' = ns_buddy \ (BuddyRows(s, t) \union BuddyRows(t, s))
      /\ cs_ajoin' = cs_ajoin /\ chanserv' = chanserv
  BY DEF BuddyDel, RemovedRows
<1>2. BuddiesOK(ns_buddy', registered')
  BY <1>1, BuddiesFewer DEF ListsInv
<1>3. Mutual(ns_buddy')
  BY <1>1, MutualFewer DEF ListsInv, BuddyRows
<1>4. AjoinsOK(cs_ajoin', registered', chanserv')
  BY <1>1 DEF ListsInv
<1>5. QED
  BY <1>2, <1>3, <1>4, ListsInvNext

LEMMA BuddyAcceptKeeps ==
  ASSUME ListsInv, registered' = registered, NEW s \in Nicks, NEW t \in Nicks, BuddyAccept(s, t)
  PROVE  ListsInv'
<1> DEFINE both(r) == {r.source, r.target} = {s, t}
           f == [r \in ns_buddy |-> IF both(r) THEN [r EXCEPT !.status = "accepted"] ELSE r]
<1>1. /\ ns_buddy' = {f[r] : r \in ns_buddy} /\ cs_ajoin' = cs_ajoin /\ chanserv' = chanserv
  BY DEF BuddyAccept
<1>2. BuddiesOK(ns_buddy, registered) /\ Mutual(ns_buddy)
  BY DEF ListsInv
<1>3. ASSUME NEW r \in ns_buddy
      PROVE  /\ f[r] \in Buddy /\ f[r].source = r.source /\ f[r].target = r.target
             /\ f[r].t_when = r.t_when
             /\ f[r].status = IF both(r) THEN "accepted" ELSE r.status
  <2>1. r \in Buddy
    BY <1>2 DEF BuddiesOK
  <2>2. f[r] = IF both(r) THEN [r EXCEPT !.status = "accepted"] ELSE r
    OBVIOUS
  <2> HIDE DEF both, f
  <2>3. CASE both(r)
    BY <2>1, <2>2, <2>3 DEF Buddy, Status
  <2>4. CASE ~both(r)
    BY <2>1, <2>2, <2>4
  <2>5. QED
    BY <2>3, <2>4
<1>4. \A r, q \in ns_buddy : q.source = r.target /\ q.target = r.source => (both(r) <=> both(q))
  OBVIOUS
<1> HIDE DEF both, f
<1>5. BuddiesOK(ns_buddy', registered')
  <2>1. ns_buddy' \subseteq Buddy
    BY <1>1, <1>3
  <2>2. ASSUME NEW a \in ns_buddy', NEW b \in ns_buddy', a.source = b.source, a.target = b.target
        PROVE  a = b
    <3>1. PICK r \in ns_buddy : a = f[r]
      BY <1>1
    <3>2. PICK q \in ns_buddy : b = f[q]
      BY <1>1
    <3>3. r.source = q.source /\ r.target = q.target
      BY <1>3, <2>2, <3>1, <3>2
    <3>4. QED
      BY <1>2, <3>1, <3>2, <3>3 DEF BuddiesOK
  <2>3. ASSUME NEW a \in ns_buddy' PROVE {a.source, a.target} \subseteq registered'
    <3>1. PICK r \in ns_buddy : a = f[r]
      BY <1>1
    <3>2. QED
      BY <1>2, <1>3, <3>1 DEF BuddiesOK
  <2>4. QED
    BY <2>1, <2>2, <2>3 DEF BuddiesOK
<1>6. Mutual(ns_buddy')
  <2>1. ASSUME NEW a \in ns_buddy'
        PROVE  \E b \in ns_buddy' : /\ b.source = a.target /\ b.target = a.source
                                    /\ b.t_when = a.t_when /\ Agree(a.status, b.status)
    <3>1. PICK r \in ns_buddy : a = f[r]
      BY <1>1
    <3>2. PICK q \in ns_buddy : /\ q.source = r.target /\ q.target = r.source
                                /\ q.t_when = r.t_when /\ Agree(r.status, q.status)
      BY <1>2 DEF Mutual
    <3>3. /\ f[q] \in ns_buddy' /\ f[q].source = a.target /\ f[q].target = a.source
          /\ f[q].t_when = a.t_when
      BY <1>1, <1>3, <3>1, <3>2
    <3>4. Agree(a.status, f[q].status)
      <4>1. CASE both(r)
        <5>1. a.status = "accepted" /\ f[q].status = "accepted"
          BY <1>3, <1>4, <3>1, <3>2, <4>1
        <5>2. QED
          BY <5>1 DEF Agree
      <4>2. CASE ~both(r)
        BY <1>3, <1>4, <3>1, <3>2, <4>2
      <4>3. QED
        BY <4>1, <4>2
    <3>5. QED
      BY <3>3, <3>4
  <2>2. QED
    BY <2>1 DEF Mutual
<1>7. AjoinsOK(cs_ajoin', registered', chanserv')
  BY <1>1 DEF ListsInv
<1>8. QED
  BY <1>5, <1>6, <1>7, ListsInvNext

(* Rows that agree were made together and are accepted together.           *)
LEMMA InvitationsKeep ==
  ASSUME ListsInv, registered' = registered, InvitationsExpire
  PROVE  ListsInv'
<1>1. /\ ns_buddy' = {r \in ns_buddy : \/ r.status = "accepted"
                                       \/ r.t_when >= irc_CurrentTime - InvitationTime}
      /\ cs_ajoin' = cs_ajoin /\ chanserv' = chanserv
  BY DEF InvitationsExpire
<1>2. BuddiesOK(ns_buddy', registered')
  BY <1>1, BuddiesFewer DEF ListsInv
<1>3. \A a, b : Agree(a, b) => (a = "accepted" <=> b = "accepted")
  BY DEF Agree
<1>4. Mutual(ns_buddy')
  BY <1>1, <1>3, MutualFewer DEF ListsInv
<1>5. AjoinsOK(cs_ajoin', registered', chanserv')
  BY <1>1 DEF ListsInv
<1>6. QED
  BY <1>2, <1>4, <1>5, ListsInvNext

LEMMA NextOrderIs ==
  ASSUME ListsInv, NEW n
  PROVE  NextOrder(n) \in Nat
<1>1. MaxOrder \in Nat
  BY NickListsAssumption
<1>2. CASE AjoinsOf(n) = {}
  BY <1>2 DEF NextOrder
<1>3. CASE AjoinsOf(n) # {}
  <2> DEFINE S == {r.order : r \in AjoinsOf(n)}
             High(r) == \A q \in AjoinsOf(n) : q.order <= r.order
             c == CHOOSE r \in AjoinsOf(n) : High(r)
  <2>1. \A r \in AjoinsOf(n) : r.order \in 0..MaxOrder
    BY DEF AjoinsOf, ListsInv, AjoinsOK
  <2>2. S \in SUBSET (0..MaxOrder) /\ S # {}
    BY <1>3, <2>1
  <2>3. PICK i \in S : \A j \in S : j <= i
    <3> HIDE DEF S
    <3>1. QED
      BY <1>1, <2>2, Greatest
  <2>4. PICK r \in AjoinsOf(n) : i = r.order
    OBVIOUS
  <2>5. High(r)
    BY <2>3, <2>4
  <2>6. c \in AjoinsOf(n)
    BY <2>4, <2>5, Zenon
  <2>7. NextOrder(n) = c.order + 1
    BY <1>3 DEF NextOrder
  <2> HIDE DEF c
  <2>8. QED
    BY <1>1, <2>1, <2>6, <2>7
<1>4. QED
  BY <1>2, <1>3

LEMMA AjoinsKeep ==
  ASSUME ListsInv, NicksTypeOK, registered' = registered, AjoinsNext
  PROVE  ListsInv'
<1>1. SUFFICES AjoinsOK(cs_ajoin', registered', chanserv') /\ ns_buddy' = ns_buddy
  BY ListsInvNext DEF ListsInv
<1>2. AjoinsOK(cs_ajoin, registered, chanserv)
  BY DEF ListsInv
<1>3. ASSUME NEW s \in Nicks, NEW c \in Channels, AjoinAdd(s, c)
      PROVE  AjoinsOK(cs_ajoin', registered', chanserv') /\ ns_buddy' = ns_buddy
  <2> DEFINE new == [nick |-> s, chan |-> c, order |-> NextOrder(s)]
  <2>1. /\ s \in registered /\ c \in chanserv /\ \A r \in AjoinsOf(s) : r.chan # c
        /\ NextOrder(s) <= MaxOrder /\ cs_ajoin' = cs_ajoin \union {new}
        /\ chanserv' = chanserv /\ ns_buddy' = ns_buddy
    BY <1>3 DEF AjoinAdd, Identified, NicksTypeOK
  <2>2. NextOrder(s) \in 0..MaxOrder
    BY <2>1, NextOrderIs, NickListsAssumption
  <2>3. /\ new \in [nick : Nicks, chan : Channels, order : 0..MaxOrder]
        /\ new.nick = s /\ new.chan = c
    BY <2>2
  <2>4. \A r \in cs_ajoin : ~(r.nick = s /\ r.chan = c)
    BY <2>1 DEF AjoinsOf
  <2> HIDE DEF new
  <2>5. QED
    BY <1>2, <2>1, <2>3, <2>4 DEF AjoinsOK
<1>4. ASSUME NEW s \in Nicks, NEW chans, AjoinDel(s, chans)
      PROVE  AjoinsOK(cs_ajoin', registered', chanserv') /\ ns_buddy' = ns_buddy
  BY <1>2, <1>4 DEF AjoinDel, AjoinsOK
<1>5. ASSUME NEW c \in Channels, ChannelRegistered(c)
      PROVE  AjoinsOK(cs_ajoin', registered', chanserv') /\ ns_buddy' = ns_buddy
  BY <1>2, <1>5 DEF ChannelRegistered, AjoinsOK
<1>6. ASSUME NEW c \in Channels, ChannelDropped(c)
      PROVE  AjoinsOK(cs_ajoin', registered', chanserv') /\ ns_buddy' = ns_buddy
  BY <1>2, <1>6 DEF ChannelDropped, AjoinsOK
<1>7. QED
  BY <1>3, <1>4, <1>5, <1>6 DEF AjoinsNext

LEMMA ListsDropKeeps ==
  ASSUME ListsInv, NEW n \in Nicks, IsDropped(n), ListsNickDropped(n)
  PROVE  ListsInv'
<1>1. /\ registered' = registered \ {n} /\ chanserv' = chanserv
      /\ ns_buddy' = {r \in ns_buddy : n \notin {r.source, r.target}}
      /\ cs_ajoin' = {r \in cs_ajoin : r.nick # n}
  BY DEF IsDropped, ListsNickDropped
<1>2. BuddiesOK(ns_buddy', registered')
  BY <1>1 DEF ListsInv, BuddiesOK
<1>3. Mutual(ns_buddy')
  BY <1>1, MutualFewer DEF ListsInv
<1>4. AjoinsOK(cs_ajoin', registered', chanserv')
  BY <1>1 DEF ListsInv, AjoinsOK
<1>5. QED
  BY <1>2, <1>3, <1>4, ListsInvNext

LEMMA ListsSame ==
  ASSUME ListsInv, UNCHANGED listvars, registered \subseteq registered'
  PROVE  ListsInv'
BY ListsInvNext DEF ListsInv, listvars, BuddiesOK, AjoinsOK

-----------------------------------------------------------------------------
Inv == NicksTypeOK /\ GroupsInv /\ MemosTypeOK /\ ListsInv

LEMMA InitInv ==
  ASSUME Init
  PROVE  Inv
<1>1. NicksTypeOK
  BY DEF Init, NicksInit, NicksTypeOK, Bearer
<1>2. GroupsInv
  BY GroupsInitInv
<1>3. MemosTypeOK
  BY DEF Init, MemosInit, MemosTypeOK, NoOptions
<1>4. ListsInv
  BY DEF Init, ListsInit, ListsInv, BuddiesOK, Mutual, AjoinsOK
<1>5. QED
  BY <1>1, <1>2, <1>3, <1>4 DEF Inv

LEMMA NickStepKeeps ==
  ASSUME Inv, NickStep
  PROVE  Inv'
<1>1. NicksTypeOK /\ GroupsInv /\ MemosTypeOK /\ ListsInv
  BY DEF Inv
<1>2. ASSUME NEW n \in Nicks, Connect(n) PROVE Inv'
  <2>1. Connects(n) /\ UNCHANGED groupvars /\ UNCHANGED memovars /\ UNCHANGED listvars
    BY <1>2 DEF Connect, groupvars, memovars, listvars
  <2>2. registered' = registered
    BY <2>1 DEF Connects
  <2>3. QED
    BY <1>1, <2>1, <2>2, NicksTyped, ConnectKeeps, MemosSame, ListsSame DEF Inv
<1>3. ASSUME NEW n \in Nicks, Quit(n) PROVE Inv'
  <2>1. Quits(n) /\ GroupsQuit(n) /\ UNCHANGED memovars /\ UNCHANGED listvars
    BY <1>3 DEF Quit, memovars, listvars
  <2>2. registered' = registered
    BY <2>1 DEF Quits
  <2>3. QED
    BY <1>1, <2>1, <2>2, NicksTyped, QuitKeeps, MemosSame, ListsSame DEF Inv
<1>4. ASSUME NEW n \in Nicks, NEW new \in Nicks, NickChange(n, new) PROVE Inv'
  <2>1. ChangesNick(n, new) /\ GroupsNick(n, new) /\ UNCHANGED memovars /\ UNCHANGED listvars
    BY <1>4 DEF NickChange, memovars, listvars
  <2>2. registered' = registered
    BY <2>1 DEF ChangesNick
  <2>3. QED
    BY <1>1, <2>1, <2>2, NicksTyped, NickChangeKeeps, MemosSame, ListsSame DEF Inv
<1>5. ASSUME NEW n \in Nicks, Identify(n) PROVE Inv'
  <2>1. Identifies(n) /\ GroupsIdentified(n) /\ UNCHANGED memovars /\ UNCHANGED listvars
    BY <1>5 DEF Identify, memovars, listvars
  <2>2. registered' = registered
    BY <2>1 DEF Identifies
  <2>3. QED
    BY <1>1, <2>1, <2>2, NicksTyped, IdentifyKeeps, MemosSame, ListsSame DEF Inv
<1>6. ASSUME NEW n \in Nicks, Register(n) PROVE Inv'
  <2>1. Registers(n) /\ UNCHANGED groupvars /\ UNCHANGED memovars /\ UNCHANGED listvars
    BY <1>6 DEF Register, groupvars, memovars, listvars
  <2>2. registered \subseteq registered'
    BY <2>1 DEF Registers
  <2>3. QED
    BY <1>1, <2>1, <2>2, NicksTyped, RegisterKeeps, MemosSame, ListsSame DEF Inv
<1>7. ASSUME NEW n \in Nicks, Drop(n) PROVE Inv'
  <2>1. IsDropped(n) /\ GroupsNickDropped(n) /\ MemosNickDropped(n) /\ ListsNickDropped(n)
    BY <1>7 DEF Drop
  <2>2. QED
    BY <1>1, <2>1, NicksTyped, NickDropKeeps, MemosDropKeeps, ListsDropKeeps DEF Inv
<1>8. QED
  BY <1>2, <1>3, <1>4, <1>5, <1>6, <1>7 DEF NickStep

LEMMA TableStepKeeps ==
  ASSUME Inv, GroupStep \/ MemoStep \/ ListStep
  PROVE  Inv'
<1>1. NicksTypeOK /\ GroupsInv /\ MemosTypeOK /\ ListsInv
  BY DEF Inv
<1>2. UNCHANGED nickvars /\ registered' = registered /\ bearer' = bearer
  BY DEF GroupStep, MemoStep, ListStep, nickvars
<1>3. NicksTypeOK'
  BY <1>1, <1>2, NicksTyped
<1>4. CASE GroupStep
  <2>1. UNCHANGED memovars /\ UNCHANGED listvars /\ (GroupsNext \/ MembersNext)
    BY <1>4 DEF GroupStep, memovars, listvars
  <2>2. ASSUME GroupsNext PROVE GroupsInv'
    <3>1. PICK s \in Nicks, g \in Groups :
            \/ \E master \in Groups : GroupCreate(s, g, master)
            \/ GroupDrop(s, g)
            \/ \E max \in MaxUsers : GroupSet(s, g, max)
      BY <2>2 DEF GroupsNext
    <3>2. CASE \E master \in Groups : GroupCreate(s, g, master)
      BY <1>1, <1>2, <3>2, CreateKeeps
    <3>3. CASE GroupDrop(s, g)
      BY <1>1, <1>2, <3>3, DropKeeps
    <3>4. CASE \E max \in MaxUsers : GroupSet(s, g, max)
      BY <1>1, <1>2, <3>4, SetKeeps
    <3>5. QED
      BY <3>1, <3>2, <3>3, <3>4
  <2>3. ASSUME MembersNext PROVE GroupsInv'
    BY <1>1, <1>2, <2>3, AddKeeps, DelKeeps, ExpireKeeps DEF MembersNext
  <2>4. GroupsInv'
    BY <2>1, <2>2, <2>3
  <2>5. QED
    BY <1>1, <1>2, <1>3, <2>1, <2>4, MemosSame, ListsSame DEF Inv
<1>5. CASE MemoStep
  <2>1. UNCHANGED groupvars /\ UNCHANGED listvars /\ (MemosNext \/ MemosExpire)
    BY <1>5 DEF MemoStep, groupvars, listvars
  <2>2. QED
    BY <1>1, <1>2, <1>3, <2>1, GroupsSame, MemoStepKeeps, ListsSame DEF Inv
<1>6. CASE ListStep
  <2>1. UNCHANGED groupvars /\ UNCHANGED memovars
        /\ (BuddiesNext \/ InvitationsExpire \/ AjoinsNext)
    BY <1>6 DEF ListStep, groupvars, memovars
  <2>2. ListsInv'
    BY <1>1, <1>2, <2>1, BuddyAddKeeps, BuddyDelKeeps, BuddyAcceptKeeps, InvitationsKeep,
       AjoinsKeep DEF BuddiesNext
  <2>3. QED
    BY <1>1, <1>2, <1>3, <2>1, <2>2, GroupsSame, MemosSame DEF Inv
<1>7. QED
  BY <1>4, <1>5, <1>6

(* Steps that change no nick but the clock                                 *)
LEMMA OtherStepsKeep ==
  ASSUME Inv, Tick \/ UNCHANGED vars
  PROVE  Inv'
<1>1. NicksTypeOK /\ GroupsInv /\ MemosTypeOK /\ ListsInv
  BY DEF Inv
<1>2. /\ registered' = registered /\ bearer' = bearer
      /\ UNCHANGED groupvars /\ UNCHANGED memovars /\ UNCHANGED listvars
  BY DEF Tick, TimePasses, vars, nickvars, groupvars, memovars, listvars
<1>3. NicksTypeOK'
  <2>1. TimePasses \/ UNCHANGED nickvars
    BY DEF Tick, vars, nickvars
  <2>2. QED
    BY <1>1, <2>1, NicksTyped
<1>4. GroupsInv'
  BY <1>1, <1>2, GroupsSame
<1>5. QED
  BY <1>1, <1>2, <1>3, <1>4, MemosSame, ListsSame DEF Inv

(* The invariant the theorems rest on: the groups have a numbering in      *)
(* which each comes after its master, and the rows of both sides of a      *)
(* buddy relation agree.                                                   *)
THEOREM TablesInvariant == Spec => []Inv
<1>1. ASSUME Inv, [Next]_vars PROVE Inv'
  BY <1>1, NickStepKeeps, TableStepKeeps, OtherStepsKeep DEF Next
<1>2. QED
  BY InitInv, <1>1, PTL DEF Spec

(* Every row of the tables beside nickserv is of the values its columns    *)
(* may have, no key is twice in a table, and no row refers to a nick, a    *)
(* group or a channel that is gone.                                        *)
THEOREM KeysHold == Spec => []TypeOK
<1>1. ASSUME Inv PROVE TypeOK
  <2>1. NicksTypeOK /\ MemosTypeOK /\ ListsTypeOK
    BY <1>1, ListsTyped DEF Inv
  <2>2. GroupsTypeOK
    <3>1. Tree(ns_group) /\ RowsInv /\ CacheInv
      BY <1>1 DEF Inv, GroupsInv
    <3>2. ns_group \in [Groups -> [master : Groups \union {Masterless, NONE}, maxusers : Nat]]
      BY <3>1 DEF Tree, Group
    <3>3. \A r \in ns_group_users : Exists(r.sgid) /\ r.snid \in registered
      BY <3>1 DEF RowsInv, In, Exists
    <3>4. QED
      BY <3>1, <3>2, <3>3 DEF GroupsTypeOK, RowsInv, CacheInv
  <2>3. QED
    BY <2>1, <2>2 DEF TypeOK
<1>2. QED
  BY <1>1, TablesInvariant, PTL

(* is_master comes to an end at the root group from every group,           *)
(* whichever groups are created, dropped or changed before.                *)
THEOREM RootMastersAll == Spec => []GroupsUnderRoot
<1>1. ASSUME Inv PROVE GroupsUnderRoot
  BY <1>1, TreeUnderRoot DEF Inv, GroupsInv
<1>2. QED
  BY <1>1, TablesInvariant, PTL

(* The list of groups of an identified user, once it was loaded, has every *)
(* group it is a member of once and no other, but for memberships that     *)
(* have expired since.                                                     *)
THEOREM LoadedListFollows == Spec => []CacheFollows
<1>1. ASSUME Inv PROVE CacheFollows
  BY <1>1 DEF Inv, GroupsInv, CacheInv, Follows, CacheFollows
<1>2. QED
  BY <1>1, TablesInvariant, PTL

(* No sequence of ADD, DEL, ACCEPT, expiry and dropped nicks leaves one    *)
(* side of a buddy relation without the other, or the two in states that   *)
(* do not fit.                                                             *)
THEOREM BuddySidesAgree == Spec => []BuddiesMutual
<1>1. ASSUME Inv PROVE BuddiesMutual
  BY <1>1, ListsTyped DEF Inv
<1>2. QED
  BY <1>1, TablesInvariant, PTL

=============================================================================
