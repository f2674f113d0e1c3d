--------------------------- MODULE Dispatch_proofs ---------------------------
(***************************************************************************)
(* Proofs about modules that are loaded and unloaded, and about the events *)
(* and commands that lead into them:                                       *)
(*  - whatever failed to load and in whatever order modules were loaded    *)
(*    again, the addresses a loaded module has taken are in loaded modules,*)
(*    and no entry of modattach points to a module that is gone;           *)
(*  - the lists of handlers and commands hold what the loaded modules hung *)
(*    on them (ListInv);                                                   *)
(*  - however calls nest, what is left to do has one of a few shapes       *)
(*    (Good), in each of which the innermost call finds its module, its    *)
(*    user and its node.                                                   *)
(*                                                                         *)
(* How often a module is attached is the cardinality of a set of positions;*)
(* loops are recursive functions, followed one position after the other.   *)
(***************************************************************************)
EXTENDS Dispatch, FiniteSetTheorems, SequenceTheorems, TLAPS

-----------------------------------------------------------------------------
(* Numbers                                                                 *)

LEMMA Least ==
  ASSUME NEW S \in SUBSET Nat, S # {}
  PROVE  \E m \in S : \A k \in S : m <= k
<1> DEFINE T == {1..k : k \in S}
           R == StrictSubsetOrdering(Nat)
<1>1. T \subseteq FiniteSubsetsOf(Nat)
  <2>1. ASSUME NEW k \in S PROVE 1..k \subseteq Nat /\ IsFiniteSet(1..k)
    BY FS_Interval
  <2>2. QED
    BY <2>1 DEF FiniteSubsetsOf
<1>2. T # {}
  OBVIOUS
<1>3. IsWellFoundedOn(R, FiniteSubsetsOf(Nat))
  BY FS_StrictSubsetOrderingWellFounded
<1>4. PICK x \in T : \A y \in T : <<y, x>> \notin R
  <2> HIDE DEF T, R
  <2>1. QED
    BY <1>1, <1>2, <1>3, WFMin, Zenon
<1>5. PICK m \in S : x = 1..m
  OBVIOUS
<1>6. ASSUME NEW k \in S, ~(m <= k) PROVE FALSE
  <2>1. 1..k \subseteq 1..m /\ 1..k # 1..m /\ 1..k \in SUBSET Nat /\ 1..m \in SUBSET Nat
    <3>1. m \in 1..m /\ m \notin 1..k
      BY <1>6
    <3>2. QED
      BY <1>6, <3>1
  <2>2. <<1..k, 1..m>> \in R
    BY <2>1 DEF StrictSubsetOrdering
  <2>3. QED
    BY <1>4, <1>5, <2>2
<1>7. QED
  BY <1>6

(* What holds of 0 and of the next of every number it holds of             *)
LEMMA Steps ==
  ASSUME NEW n \in Nat, NEW S, 0 \in S,
         \A k \in 0..n : k \in S /\ k < n => k + 1 \in S
  PROVE  \A k \in 0..n : k \in S
<1> DEFINE W == {k \in 0..n : k \notin S}
<1>1. SUFFICES ASSUME W # {} PROVE FALSE
  OBVIOUS
<1>2. W \in SUBSET Nat
  OBVIOUS
<1> HIDE DEF W
<1>3. PICK m \in W : \A k \in W : m <= k
  BY <1>1, <1>2, Least
<1>4. m \in 0..n /\ m \notin S /\ m # 0
  BY DEF W
<1>5. m - 1 \in 0..n /\ m - 1 < n /\ m - 1 \notin W
  BY <1>3, <1>4
<1>6. m - 1 \in S
  BY <1>5 DEF W
<1>7. m - 1 + 1 \in S
  BY <1>5, <1>6
<1>8. QED
  BY <1>4, <1>7

-----------------------------------------------------------------------------
(* How often a module is attached to a function                            *)

Positions(s, m) == {i \in DOMAIN s : s[i] = m}

Times(s, m) == Cardinality(Positions(s, m))

LEMMA TimesFacts ==
  ASSUME NEW s \in Seq(Modules), NEW m
  PROVE  /\ IsFiniteSet(Positions(s, m)) /\ Times(s, m) \in Nat
         /\ Contains(s, m) <=> Times(s, m) # 0
<1>1. IsFiniteSet(1..Len(s))
  BY FS_Interval
<1>2. Positions(s, m) \in SUBSET (1..Len(s))
  BY DEF Positions
<1>3. IsFiniteSet(Positions(s, m)) /\ Times(s, m) \in Nat
  BY <1>1, <1>2, FS_Subset, FS_CardinalityType DEF Times
<1>4. Contains(s, m) <=> Positions(s, m) # {}
  BY DEF Contains, Positions
<1>5. QED
  BY <1>3, <1>4, FS_EmptySet DEF Times

LEMMA EmptyTimes == \A m : Times(<<>>, m) = 0
<1>1. \A m : Positions(<<>>, m) = {}
  BY DEF Positions
<1>2. QED
  BY <1>1, FS_EmptySet DEF Times

LEMMA AppendTimes ==
  ASSUME NEW s \in Seq(Modules), NEW m \in Modules
  PROVE  /\ Append(s, m) \in Seq(Modules)
         /\ Times(Append(s, m), m) = Times(s, m) + 1
         /\ \A x : x # m => Times(Append(s, m), x) = Times(s, x)
<1>1. Positions(Append(s, m), m) = Positions(s, m) \union {Len(s) + 1}
  BY DEF Positions
<1>2. Len(s) + 1 \notin Positions(s, m)
  BY DEF Positions
<1>3. \A x : x # m => Positions(Append(s, m), x) = Positions(s, x)
  BY DEF Positions
<1>4. Cardinality(Positions(s, m) \union {Len(s) + 1}) = Cardinality(Positions(s, m)) + 1
  BY <1>2, TimesFacts, FS_AddElement
<1>5. Times(Append(s, m), m) = Times(s, m) + 1
  BY <1>1, <1>4, Zenon DEF Times
<1>6. \A x : x # m => Times(Append(s, m), x) = Times(s, x)
  BY <1>3, Zenon DEF Times
<1>7. QED
  BY <1>5, <1>6

(* One turn of the loop takes an entry off and puts the last in its place. *)
TakenOff(s, i) == SubSeq(ReplaceAt(s, i, s[Len(s)]), 1, Len(s) - 1)

LEMMA TakenOffFacts ==
  ASSUME NEW s \in Seq(Modules), NEW i \in DOMAIN s
  PROVE  /\ TakenOff(s, i) \in Seq(Modules)
         /\ Times(TakenOff(s, i), s[i]) = Times(s, s[i]) - 1
         /\ \A x : x # s[i] => Times(TakenOff(s, i), x) = Times(s, x)
<1> DEFINE n == Len(s)
           t == TakenOff(s, i)
<1>1. n \in Nat /\ i \in 1..n /\ n \in 1..n
  OBVIOUS
<1>2. /\ t \in Seq(Modules) /\ DOMAIN t = 1..n-1
      /\ \A j \in 1..n-1 : t[j] = IF j = i THEN s[n] ELSE s[j]
  BY <1>1 DEF TakenOff, ReplaceAt
<1> HIDE DEF t
<1>3. ASSUME NEW x
      PROVE  Positions(t, x) =
               IF s[n] = x /\ i # n THEN (Positions(s, x) \ {n}) \union {i}
               ELSE Positions(s, x) \ {i, n}
  <2>1. \A j : j \in Positions(t, x) <=> j \in 1..n-1 /\ (IF j = i THEN s[n] ELSE s[j]) = x
    BY <1>2 DEF Positions
  <2>2. \A j : j \in Positions(s, x) <=> j \in 1..n /\ s[j] = x
    BY DEF Positions
  <2>3. \A j : j \in 1..n-1 <=> j \in 1..n /\ j # n
    BY <1>1
  <2> HIDE DEF n
  <2>4. QED
    BY <1>1, <2>1, <2>2, <2>3
<1>4. \A x : IsFiniteSet(Positions(s, x)) /\ Cardinality(Positions(s, x)) \in Nat
  BY TimesFacts DEF Times
<1>5. \A x, j : Cardinality(Positions(s, x) \ {j}) =
                IF j \in Positions(s, x) THEN Cardinality(Positions(s, x)) - 1
                ELSE Cardinality(Positions(s, x))
  BY <1>4, FS_RemoveElement
<1>6. \A x, j : j \in Positions(s, x) <=> j \in 1..n /\ s[j] = x
  BY DEF Positions
<1> HIDE DEF n
<1>7. Times(t, s[i]) = Times(s, s[i]) - 1
  <2> DEFINE P == Positions(s, s[i])
  <2>1. i \in P /\ (s[n] = s[i] <=> n \in P)
    BY <1>1, <1>6
  <2>2. Positions(t, s[i]) = P \ {IF n \in P THEN n ELSE i}
    <3>1. Positions(t, s[i]) = IF s[n] = s[i] /\ i # n THEN (P \ {n}) \union {i} ELSE P \ {i, n}
      BY <1>3
    <3> HIDE DEF P
    <3>2. QED
      BY <2>1, <3>1
  <2>3. QED
    BY <1>5, <2>1, <2>2 DEF Times
<1>8. ASSUME NEW x, x # s[i] PROVE Times(t, x) = Times(s, x)
  <2> DEFINE P == Positions(s, x)
  <2>1. i \notin P /\ (s[n] = x <=> n \in P)
    BY <1>1, <1>6, <1>8
  <2>2. Positions(t, x) = IF s[n] = x /\ i # n THEN (P \ {n}) \union {i} ELSE P \ {i, n}
    BY <1>3
  <2>3. IsFiniteSet(P) /\ Cardinality(P) \in Nat
    BY <1>4
  <2> HIDE DEF P
  <2>4. CASE n \in P
    <3>1. Positions(t, x) = (P \ {n}) \union {i} /\ i \notin P \ {n}
      BY <2>1, <2>2, <2>4
    <3>2. IsFiniteSet(P \ {n}) /\ Cardinality(P \ {n}) = Cardinality(P) - 1
      BY <2>3, <2>4, FS_RemoveElement
    <3>3. Cardinality((P \ {n}) \union {i}) = Cardinality(P \ {n}) + 1
      BY <3>1, <3>2, FS_AddElement
    <3>4. QED
      BY <2>3, <3>1, <3>2, <3>3 DEF Times, P
  <2>5. CASE n \notin P
    <3>1. Positions(t, x) = P
      BY <2>1, <2>2, <2>5
    <3>2. QED
      BY <3>1 DEF Times, P
  <2>6. QED
    BY <2>4, <2>5
<1>9. QED
  BY <1>2, <1>7, <1>8 DEF t

-----------------------------------------------------------------------------
(* The loop of module_delall_attach                                        *)

Turn(after, s, m, i) ==
  IF i = 0 THEN s
  ELSE IF i <= Len(after[i-1]) /\ after[i-1][i] = m THEN TakenOff(after[i-1], i)
       ELSE after[i-1]

IsLoop(after, n, s, m) == after = [i \in 0..n |-> Turn(after, s, m, i)]

LEMMA LoopExists ==
  ASSUME NEW s, NEW m, NEW n \in Nat
  PROVE  \E after : IsLoop(after, n, s, m)
<1> DEFINE S == {j \in Nat : \E after : IsLoop(after, j, s, m)}
<1>1. 0 \in S
  <2> DEFINE after == [i \in 0..0 |-> s]
  <2>1. IsLoop(after, 0, s, m)
    BY DEF IsLoop, Turn
  <2>2. QED
    BY <2>1
<1>2. ASSUME NEW j \in 0..n, j \in S PROVE j + 1 \in S
  <2>1. PICK after : IsLoop(after, j, s, m)
    BY <1>2
  <2> DEFINE more == [i \in 0..j+1 |-> IF i <= j THEN after[i] ELSE Turn(after, s, m, i)]
  <2>2. \A i \in 0..j : after[i] = Turn(after, s, m, i)
    BY <2>1 DEF IsLoop
  <2>3. \A i \in 0..j : more[i] = after[i]
    OBVIOUS
  <2>4. more[j + 1] = Turn(after, s, m, j + 1)
    OBVIOUS
  <2>5. more = [i \in 0..j+1 |-> more[i]]
    OBVIOUS
  <2> HIDE DEF more
  <2>6. ASSUME NEW i \in 0..j+1 PROVE more[i] = Turn(more, s, m, i)
    <3>1. CASE i = 0
      BY <2>2, <2>3, <3>1 DEF Turn
    <3>2. CASE i # 0
      <4>1. i - 1 \in 0..j /\ more[i - 1] = after[i - 1]
        BY <2>3, <3>2
      <4>2. Turn(more, s, m, i) = Turn(after, s, m, i)
        BY <4>1 DEF Turn
      <4>3. CASE i <= j
        BY <2>2, <2>3, <4>2, <4>3
      <4>4. CASE i = j + 1
        BY <2>4, <4>2, <4>4
      <4>5. QED
        BY <4>3, <4>4
    <3>3. QED
      BY <3>1, <3>2
  <2>7. IsLoop(more, j + 1, s, m)
    BY <2>5, <2>6 DEF IsLoop
  <2>8. QED
    BY <2>7
<1> HIDE DEF S
<1>3. n \in S
  BY <1>1, <1>2, Steps
<1>4. QED
  BY <1>3 DEF S

(* Whatever module_delall_attach overlooks, it takes the module off at     *)
(* least once if it is there, and takes off no other.                      *)
LEMMA DetachedFacts ==
  ASSUME NEW s \in Seq(Modules), NEW m \in Modules
  PROVE  /\ Detached(s, m) \in Seq(Modules)
         /\ \A x : x # m => Times(Detached(s, m), x) = Times(s, x)
         /\ Times(Detached(s, m), m) <= Times(s, m)
         /\ Times(s, m) # 0 => Times(Detached(s, m), m) < Times(s, m)
<1> DEFINE n == Len(s)
           w == CHOOSE after : after = [i \in 0..n |->
                  IF i = 0 THEN s
                  ELSE LET t == after[i-1]
                       IN  IF i <= Len(t) /\ t[i] = m
                           THEN SubSeq(ReplaceAt(t, i, t[Len(t)]), 1, Len(t) - 1)
                           ELSE t]
<1>1. n \in Nat
  OBVIOUS
<1>2. \E after : IsLoop(after, n, s, m)
  BY <1>1, LoopExists
<1>3. IsLoop(w, n, s, m)
  BY <1>2, Zenon DEF IsLoop, Turn, TakenOff
<1>4. Detached(s, m) = w[n]
  BY DEF Detached
<1>5. \A i \in 0..n : w[i] = Turn(w, s, m, i)
  BY <1>3, Zenon DEF IsLoop
<1> HIDE DEF w
<1> DEFINE Kept(t) == t \in Seq(Modules) /\ \A x : x # m => Times(t, x) = Times(s, x)
           Fewer(t) == Times(t, m) < Times(s, m)
           Looked(i) == \A j \in 1..i : s[j] # m
           Loop(i) == Kept(w[i]) /\ (Fewer(w[i]) \/ (w[i] = s /\ Looked(i)))
           S == {i \in 0..n : Loop(i)}
<1>6. 0 \in S
  <2>1. w[0] = s
    BY <1>1, <1>5 DEF Turn
  <2>2. QED
    BY <1>1, <2>1
<1>7. ASSUME NEW i \in 0..n, i \in S, i < n PROVE i + 1 \in S
  <2> DEFINE k == i + 1
             t == w[i]
  <2>1. k \in 0..n /\ k # 0 /\ k - 1 = i /\ k \in Nat
    BY <1>1, <1>7
  <2>2. w[k] = IF k <= Len(t) /\ t[k] = m THEN TakenOff(t, k) ELSE t
    BY <1>5, <2>1 DEF Turn
  <2>3. Kept(t) /\ (Fewer(t) \/ (t = s /\ Looked(i)))
    BY <1>7
  <2>4. Times(t, m) \in Nat /\ Times(s, m) \in Nat
    BY <2>3, TimesFacts
  <2> HIDE DEF t, k
  <2>5. CASE k <= Len(t) /\ t[k] = m
    <3>1. k \in DOMAIN t
      BY <2>1, <2>3, <2>5
    <3>2. /\ TakenOff(t, k) \in Seq(Modules)
          /\ Times(TakenOff(t, k), m) = Times(t, m) - 1
          /\ \A x : x # m => Times(TakenOff(t, k), x) = Times(t, x)
      BY <2>3, <2>5, <3>1, TakenOffFacts
    <3>3. Kept(w[k]) /\ Fewer(w[k])
      BY <2>2, <2>3, <2>4, <2>5, <3>2
    <3>4. QED
      BY <2>1, <3>3 DEF k
  <2>6. CASE ~(k <= Len(t) /\ t[k] = m)
    <3>1. w[k] = t
      BY <2>2, <2>6
    <3>2. t = s /\ Looked(i) => Looked(k)
      BY <1>1, <2>1, <2>6 DEF k
    <3>3. Loop(k)
      BY <2>3, <3>1, <3>2
    <3>4. QED
      BY <2>1, <3>3 DEF k
  <2>7. QED
    BY <2>5, <2>6
<1>8. n \in S
  <2> HIDE DEF S, n
  <2>1. \A i \in 0..n : i \in S /\ i < n => i + 1 \in S
    BY <1>7
  <2>2. \A i \in 0..n : i \in S
    BY <1>1, <1>6, <2>1, Steps
  <2>3. QED
    BY <1>1, <2>2
<1>9. Loop(n)
  BY <1>8 DEF S
<1>10. Looked(n) => Times(s, m) = 0
  <2>1. Looked(n) => ~Contains(s, m)
    BY DEF Contains
  <2>2. QED
    BY <2>1, TimesFacts
<1>11. Times(w[n], m) \in Nat /\ Times(s, m) \in Nat
  BY <1>9, TimesFacts
<1>12. QED
  BY <1>4, <1>9, <1>10, <1>11

-----------------------------------------------------------------------------
(* The modules                                                             *)

(* A number of openings that covers the entries is what unloading needs:   *)
(* each takes one opening back and at least one entry off every function.  *)
AttachInv ==
  /\ handles \in [Modules -> Nat] /\ svs_modules \subseteq Modules
  /\ pending \in Seq(Modules) /\ reloads \subseteq Modules
  /\ provides_list \subseteq Functions /\ events_table \subseteq Events
  /\ modattach \in [Functions -> Seq(Modules)]
  /\ \A m \in svs_modules : handles[m] # 0
  /\ \A f \in Functions : \A m \in Modules : Times(modattach[f], m) <= handles[m]
  /\ \A m \in svs_modules : \A f \in ToSet(Requires[m]) \ Events :
       f \in provides_list /\ Contains(modattach[f], m)

LEMMA ModulesNames ==
  Modules = {"nickserv", "ns_group", "chanserv", "cs_role", "cs_akick", "operserv", "botserv",
             "bs_g_kick", "os_module", "os_uevent", "sessionlimit"}
BY DEF Modules, Requires

LEMMA FilesName == \A m : ModulesFile(m) \in Seq(Modules)
<1>1. <<"nickserv", "chanserv", "operserv", "botserv">> \in Seq(Modules)
  BY ModulesNames
<1>2. <<"ns_group">> \in Seq(Modules)
  BY ModulesNames
<1>3. <<"cs_role", "cs_akick">> \in Seq(Modules)
  BY ModulesNames
<1>4. <<"os_module", "os_uevent", "sessionlimit">> \in Seq(Modules)
  BY ModulesNames
<1>5. <<"bs_g_kick">> \in Seq(Modules) /\ <<>> \in Seq(Modules)
  BY ModulesNames
<1>6. QED
  BY <1>1, <1>2, <1>3, <1>4, <1>5 DEF ModulesFile

LEMMA AttachInit == Init => AttachInv
<1> SUFFICES ASSUME Init PROVE AttachInv
  OBVIOUS
<1> USE DEF Init, ModulesInit
<1>1. pending \in Seq(Modules) /\ reloads \subseteq Modules
  BY FilesName, ModulesAssumption
<1>2. \A m : Times(<<>>, m) = 0
  BY EmptyTimes
<1>3. handles = [m \in Modules |-> 0] /\ modattach = [f \in Functions |-> <<>>]
      /\ svs_modules = {} /\ provides_list = {} /\ events_table = {}
  OBVIOUS
<1> USE DEF AttachInv
<1> HIDE DEF Init, ModulesInit
<1>4. handles \in [Modules -> Nat] /\ modattach \in [Functions -> Seq(Modules)]
  BY <1>3
<1>5. \A m \in Modules : handles[m] = 0
  BY <1>3
<1>6. \A f \in Functions : modattach[f] = <<>>
  BY <1>3
<1> QED
  BY <1>1, <1>2, <1>3, <1>4, <1>5, <1>6

(* What register_requires did for m, whether or not it loads               *)
LEMMA AttachedOK ==
  ASSUME AttachInv, NEW m \in Modules
  PROVE  /\ Attached(m) \in [Functions -> Seq(Modules)]
         /\ HandleOpen(m) \in [Modules -> Nat]
         /\ \A x \in Modules : handles[x] <= HandleOpen(m)[x]
         /\ HandleOpen(m)[m] # 0
         /\ \A f \in Functions : \A x \in Modules :
              /\ Times(Attached(m)[f], x) <= HandleOpen(m)[x]
              /\ Contains(modattach[f], x) => Contains(Attached(m)[f], x)
<1>1. /\ HandleOpen(m) \in [Modules -> Nat] /\ HandleOpen(m)[m] = handles[m] + 1
      /\ \A x \in Modules : x # m => HandleOpen(m)[x] = handles[x]
      /\ handles[m] \in Nat
  BY DEF AttachInv, HandleOpen
<1>2. \A f \in Functions : Attached(m)[f] \in {modattach[f], Append(modattach[f], m)}
  BY DEF Attached
<1>3. \A f \in Functions :
        /\ modattach[f] \in Seq(Modules)
        /\ Append(modattach[f], m) \in Seq(Modules)
        /\ Times(Append(modattach[f], m), m) = Times(modattach[f], m) + 1
        /\ \A x : x # m => Times(Append(modattach[f], m), x) = Times(modattach[f], x)
  BY AppendTimes DEF AttachInv
<1>4. \A f \in Functions : \A x \in Modules :
        /\ Times(modattach[f], x) \in Nat /\ Times(modattach[f], x) <= handles[x]
        /\ handles[x] \in Nat
  BY <1>3, TimesFacts DEF AttachInv
<1>5. ASSUME NEW f \in Functions, NEW x \in Modules
      PROVE  /\ Times(Attached(m)[f], x) <= HandleOpen(m)[x]
             /\ Contains(modattach[f], x) => Contains(Attached(m)[f], x)
  <2> DEFINE s == modattach[f]
             t == Attached(m)[f]
  <2>1. s \in Seq(Modules) /\ t \in Seq(Modules) /\ Times(s, x) \in Nat
        /\ t \in {s, Append(s, m)}
    BY <1>2, <1>3, <1>4
  <2>2. Times(t, x) \in {Times(s, x), Times(s, x) + IF x = m THEN 1 ELSE 0}
    <3>1. Times(s, x) + 0 = Times(s, x)
      BY <2>1
    <3>2. QED
      BY <1>3, <2>1, <3>1
  <2>3. Contains(s, x) => Contains(t, x)
    BY <2>1, <2>2, TimesFacts
  <2>4. Times(t, x) <= HandleOpen(m)[x]
    BY <1>1, <1>4, <2>1, <2>2
  <2>5. QED
    BY <2>3, <2>4
<1>6. \A x \in Modules : handles[x] <= HandleOpen(m)[x]
  <2>1. \A x \in Modules : handles[x] \in Nat
    BY DEF AttachInv
  <2>2. QED
    BY <1>1, <2>1
<1>7. Attached(m) \in [Functions -> Seq(Modules)]
  BY <1>2, <1>3 DEF Attached
<1>8. HandleOpen(m)[m] # 0
  BY <1>1
<1>9. QED
  BY <1>1, <1>5, <1>6, <1>7, <1>8

LEMMA RequiresLists ==
  ASSUME NEW m \in Modules
  PROVE  Len(Requires[m]) \in Nat /\ DOMAIN Requires[m] = 1..Len(Requires[m])
<1> DEFINE Lists3(s) == Len(s) \in Nat /\ DOMAIN s = 1..Len(s)
<1>1. Lists3(<<>>) /\ \A a, b, c : Lists3(<<a>>) /\ Lists3(<<a, b>>) /\ Lists3(<<a, b, c>>)
  OBVIOUS
<1>2. \/ Requires[m] = <<>>
      \/ \E a, b, c : Requires[m] \in {<<a>>, <<a, b>>, <<a, b, c>>}
  BY ModulesNames DEF Requires
<1>3. QED
  BY <1>1, <1>2, Zenon

Found(m, k) == Requires[m][k] \in provides_list \union events_table

LEMMA UnmetFacts ==
  ASSUME NEW m \in Modules
  PROVE  /\ Unmet(m) \in 1..Len(Requires[m]) + 1
         /\ Unmet(m) <= Len(Requires[m]) => ~Found(m, Unmet(m))
         /\ \A j \in 1..Unmet(m)-1 : Found(m, j)
<1> DEFINE n == Len(Requires[m])
           missing == {k \in 1..n : ~Found(m, k)}
           First(k) == (k <= n => ~Found(m, k)) /\ \A j \in 1..k-1 : Found(m, j)
<1>1. n \in Nat
  BY RequiresLists
<1>2. ASSUME missing = {} PROVE \E k \in 1..n+1 : First(k)
  <2>1. n + 1 \in 1..n+1 /\ First(n + 1)
    BY <1>1, <1>2
  <2>2. QED
    BY <2>1
<1>3. ASSUME missing # {} PROVE \E k \in 1..n+1 : First(k)
  <2>1. missing \in SUBSET Nat
    OBVIOUS
  <2>2. PICK k \in missing : \A j \in missing : k <= j
    <3> HIDE DEF missing
    <3>1. QED
      BY <1>3, <2>1, Least
  <2>3. k \in 1..n+1 /\ First(k)
    BY <1>1, <2>2
  <2>4. QED
    BY <2>3
<1>4. Unmet(m) = CHOOSE k \in 1..n+1 : First(k)
  BY DEF Unmet, Found
<1>5. Unmet(m) \in 1..n+1 /\ First(Unmet(m))
  <2> HIDE DEF First, missing, n
  <2>1. QED
    BY <1>2, <1>3, <1>4
<1>6. QED
  BY <1>5

(* All that m requires was found, in functions when it is not an event.    *)
LEMMA AllFound ==
  ASSUME AttachInv, NEW m \in Modules, Unmet(m) = Len(Requires[m]) + 1
  PROVE  \A f \in ToSet(Requires[m]) \ Events :
           /\ f \in provides_list /\ f \in Functions
           /\ Contains(Attached(m)[f], m)
<1> SUFFICES ASSUME NEW f \in ToSet(Requires[m]) \ Events
             PROVE  f \in provides_list /\ f \in Functions /\ Contains(Attached(m)[f], m)
  OBVIOUS
<1>1. PICK k \in 1..Len(Requires[m]) : Requires[m][k] = f
  BY RequiresLists DEF ToSet
<1>2. k \in 1..Unmet(m)-1 /\ Found(m, k)
  BY <1>1, RequiresLists, UnmetFacts
<1>3. f \in provides_list /\ f \in Functions
  BY <1>1, <1>2 DEF Found, AttachInv
<1>4. Attached(m)[f] = Append(modattach[f], m) /\ modattach[f] \in Seq(Modules)
  BY <1>1, <1>2, <1>3 DEF Attached, AttachInv
<1>5. Append(modattach[f], m) \in Seq(Modules) /\ Times(Append(modattach[f], m), m) # 0
  BY <1>4, AppendTimes, TimesFacts
<1>6. QED
  BY <1>3, <1>4, <1>5, TimesFacts

(* module_load, with or without success                                    *)
LEMMA LoadAttachInv ==
  ASSUME AttachInv, LoadNext
  PROVE  AttachInv'
<1> DEFINE m == Head(pending)
<1>1. m \in Modules /\ Tail(pending) \in Seq(Modules)
  BY DEF LoadNext, AttachInv
<1> HIDE DEF m
<1>2. /\ modattach' = Attached(m) /\ handles' = HandleOpen(m) /\ reloads' = reloads
      /\ \/ /\ pending' = <<>>
            /\ UNCHANGED <<svs_modules, provides_list, events_table>>
         \/ /\ Unmet(m) = Len(Requires[m]) + 1
            /\ pending' = ModulesFile(m) \o Tail(pending)
            /\ svs_modules' = svs_modules \union {m}
            /\ provides_list' = ProvidesRegistered(m)
            /\ events_table' = EventsRegistered(m)
  BY DEF LoadNext, LoadFails, LoadSucceeds, Fails, HandleOpen, m
<1>3. /\ modattach' \in [Functions -> Seq(Modules)] /\ handles' \in [Modules -> Nat]
      /\ \A x \in Modules : handles[x] <= handles'[x]
      /\ handles'[m] # 0
      /\ \A f \in Functions : \A x \in Modules :
           /\ Times(modattach'[f], x) <= handles'[x]
           /\ Contains(modattach[f], x) => Contains(modattach'[f], x)
  BY <1>1, <1>2, AttachedOK
<1>4. \A x \in Modules : handles[x] # 0 => handles'[x] # 0
  <2>1. \A x \in Modules : handles[x] \in Nat /\ handles'[x] \in Nat
    BY <1>3 DEF AttachInv
  <2>2. QED
    BY <1>3, <2>1
<1>5. /\ svs_modules \subseteq svs_modules' /\ provides_list \subseteq provides_list'
      /\ svs_modules' \subseteq Modules
      /\ provides_list' \subseteq Functions /\ events_table' \subseteq Events
  <2>1. Provides(m) \ Events \subseteq Functions
    BY <1>1 DEF Functions
  <2>2. QED
    BY <1>1, <1>2, <2>1 DEF ProvidesRegistered, EventsRegistered, AttachInv
<1>6. pending' \in Seq(Modules)
  <2>1. ModulesFile(m) \in Seq(Modules)
    BY FilesName
  <2>2. ModulesFile(m) \o Tail(pending) \in Seq(Modules) /\ <<>> \in Seq(Modules)
    BY <1>1, <2>1
  <2>3. QED
    BY <1>2, <2>2
<1>7. \A x \in svs_modules' : x \in svs_modules \/ (x = m /\ Unmet(m) = Len(Requires[m]) + 1)
  BY <1>2
<1>8. \A x \in svs_modules' : handles'[x] # 0
  BY <1>3, <1>4, <1>7 DEF AttachInv
<1>9. ASSUME NEW x \in svs_modules', NEW f \in ToSet(Requires[x]) \ Events
      PROVE  f \in provides_list' /\ Contains(modattach'[f], x)
  <2>1. CASE x \in svs_modules
    <3>1. f \in provides_list /\ Contains(modattach[f], x) /\ f \in Functions /\ x \in Modules
      BY <1>9, <2>1 DEF AttachInv
    <3>2. QED
      BY <1>3, <1>5, <3>1
  <2>2. CASE x = m /\ Unmet(m) = Len(Requires[m]) + 1
    BY <1>1, <1>2, <1>5, <1>9, <2>2, AllFound
  <2>3. QED
    BY <1>7, <2>1, <2>2
<1>10. reloads' \subseteq Modules
  BY <1>2 DEF AttachInv
<1>11. QED
  BY <1>3, <1>5, <1>6, <1>8, <1>9, <1>10 DEF AttachInv

(* module_unload: what a loaded module has taken is not in m, which nobody *)
(* is attached to.                                                         *)
LEMMA UnloadAttachInv ==
  ASSUME AttachInv, NEW m \in Modules, ModuleUnload(m)
  PROVE  AttachInv'
<1>1. /\ m \in svs_modules /\ handles[m] \in Nat /\ handles[m] # 0
      /\ svs_modules' = svs_modules \ {m}
      /\ provides_list' = provides_list \ Provides(m)
      /\ modattach' = [f \in Functions |->
                         IF f \in Provides(m) THEN <<>> ELSE Detached(modattach[f], m)]
      /\ handles' = [handles EXCEPT ![m] = @ - 1]
      /\ reloads' = reloads /\ pending' = pending /\ events_table' = events_table
      /\ \A f \in Provides(m) \ Events : modattach[f] = <<>>
  BY DEF ModuleUnload, AttachInv, InUse
<1>2. /\ handles' \in [Modules -> Nat] /\ handles'[m] = handles[m] - 1
      /\ \A x \in Modules \ {m} : handles'[x] = handles[x]
  BY <1>1 DEF AttachInv
<1>3. ASSUME NEW f \in Functions
      PROVE  /\ modattach'[f] \in Seq(Modules)
             /\ \A x \in Modules : Times(modattach'[f], x) <= handles'[x]
             /\ f \in Provides(m) => modattach[f] = <<>>
             /\ \A x \in Modules \ {m} :
                  Contains(modattach[f], x) => Contains(modattach'[f], x)
  <2> DEFINE s == modattach[f]
  <2>1. s \in Seq(Modules) /\ f \notin Events
    BY DEF AttachInv, Functions
  <2>2. \A x \in Modules : Times(s, x) <= handles[x] /\ handles[x] \in Nat /\ handles'[x] \in Nat
    BY <1>2 DEF AttachInv
  <2>3. \A x \in Modules : Times(s, x) \in Nat
    BY <2>1, TimesFacts
  <2> HIDE DEF s
  <2>4. CASE f \in Provides(m)
    <3>1. modattach'[f] = <<>> /\ s = <<>>
      BY <1>1, <2>1, <2>4 DEF s
    <3>2. \A x \in Modules : Times(modattach'[f], x) <= handles'[x]
      BY <2>2, <3>1, EmptyTimes
    <3>3. QED
      BY <3>1, <3>2 DEF s
  <2>5. CASE f \notin Provides(m)
    <3>1. modattach'[f] = Detached(s, m)
      BY <1>1, <2>5 DEF s
    <3>2. /\ Detached(s, m) \in Seq(Modules)
          /\ \A x : x # m => Times(Detached(s, m), x) = Times(s, x)
          /\ Times(Detached(s, m), m) <= Times(s, m)
          /\ Times(s, m) # 0 => Times(Detached(s, m), m) < Times(s, m)
      BY <2>1, DetachedFacts
    <3>3. Times(Detached(s, m), m) \in Nat
      BY <3>2, TimesFacts
    <3>4. Times(Detached(s, m), m) <= handles'[m]
      BY <1>1, <1>2, <2>2, <2>3, <3>2, <3>3
    <3>5. \A x \in Modules : Times(Detached(s, m), x) <= handles'[x]
      BY <1>2, <2>2, <3>2, <3>4
    <3>6. \A x \in Modules \ {m} : Contains(s, x) => Contains(Detached(s, m), x)
      BY <2>1, <3>2, TimesFacts
    <3>7. QED
      BY <2>5, <3>1, <3>2, <3>5, <3>6 DEF s
  <2>6. QED
    BY <2>4, <2>5
<1>4. modattach' \in [Functions -> Seq(Modules)]
  BY <1>1, <1>3
<1>5. \A x \in svs_modules' : handles'[x] # 0
  BY <1>1, <1>2 DEF AttachInv
<1>6. ASSUME NEW x \in svs_modules', NEW f \in ToSet(Requires[x]) \ Events
      PROVE  f \in provides_list' /\ Contains(modattach'[f], x)
  <2>1. /\ x \in Modules \ {m} /\ f \in provides_list /\ f \in Functions
        /\ Contains(modattach[f], x)
    BY <1>1, <1>6 DEF AttachInv
  <2>2. modattach[f] # <<>>
    BY <2>1 DEF Contains
  <2>3. QED
    BY <1>1, <1>3, <2>1, <2>2
<1>7. QED
  BY <1>1, <1>2, <1>3, <1>4, <1>5, <1>6 DEF AttachInv

LEMMA AttachStep == AttachInv /\ [Next]_vars => AttachInv'
<1> SUFFICES ASSUME AttachInv, [Next]_vars PROVE AttachInv'
  OBVIOUS
<1> DEFINE Same == UNCHANGED <<reloads, pending, handles, svs_modules, provides_list, modattach,
                               events_table>>
<1>1. ASSUME Same PROVE AttachInv'
  BY <1>1 DEF AttachInv
<1>2. CASE ModulesNext
  <2>1. CASE LoadNext
    BY <2>1, LoadAttachInv
  <2>2. CASE Started
    BY <1>1, <2>2 DEF Started
  <2>3. ASSUME NEW m \in Modules, ModuleLoad(m) PROVE AttachInv'
    <3>1. pending' = <<m>> /\ <<m>> \in Seq(Modules)
      BY <2>3 DEF ModuleLoad
    <3>2. UNCHANGED <<reloads, handles, svs_modules, provides_list, modattach, events_table>>
      BY <2>3 DEF ModuleLoad
    <3>3. QED
      BY <3>1, <3>2 DEF AttachInv
  <2>4. ASSUME NEW m \in reloads, ModuleUnload(m) PROVE AttachInv'
    BY <2>4, UnloadAttachInv DEF AttachInv
  <2>5. QED
    BY <1>2, <2>1, <2>2, <2>3, <2>4 DEF ModulesNext
<1>3. CASE UNCHANGED modvars
  BY <1>1, <1>3 DEF modvars
<1>4. [Next]_vars => ModulesNext \/ UNCHANGED modvars
  BY DEF Next, vars, NewUser, Join, UserLeaves, ChanMessage, Message, Step
<1>5. QED
  BY <1>2, <1>3, <1>4

-----------------------------------------------------------------------------
(* Sequences that hold everything once                                     *)

Once(s) == \A i, j \in DOMAIN s : s[i] = s[j] => i = j

LEMMA PrependFacts ==
  ASSUME NEW S, NEW s \in Seq(S), NEW x \in S
  PROVE  /\ <<x>> \o s \in Seq(S)
         /\ ToSet(<<x>> \o s) = ToSet(s) \union {x}
         /\ Once(s) /\ x \notin ToSet(s) => Once(<<x>> \o s)
<1> DEFINE t == <<x>> \o s
<1>1. /\ t \in Seq(S) /\ DOMAIN t = 1..Len(s)+1 /\ t[1] = x /\ Len(s) \in Nat
      /\ \A j \in 2..Len(s)+1 : t[j] = s[j - 1]
      /\ DOMAIN s = 1..Len(s)
  OBVIOUS
<1>2. \A j \in 1..Len(s) : j + 1 \in 2..Len(s)+1 /\ t[j + 1] = s[j]
  BY <1>1
<1> HIDE DEF t
<1>3. \A y : y \in ToSet(t) <=> \E j \in 1..Len(s)+1 : t[j] = y
  BY <1>1 DEF ToSet
<1>4. \A y : y \in ToSet(s) <=> \E j \in 1..Len(s) : s[j] = y
  BY <1>1 DEF ToSet
<1>5. \A y : y \in ToSet(t) <=> y \in ToSet(s) \/ y = x
  <2>1. ASSUME NEW j \in 1..Len(s)+1 PROVE t[j] = x \/ t[j] \in ToSet(s)
    <3>1. CASE j = 1
      BY <1>1, <3>1
    <3>2. CASE j # 1
      <4>1. j \in 2..Len(s)+1 /\ j - 1 \in 1..Len(s)
        BY <1>1, <3>2
      <4>2. QED
        BY <1>1, <1>4, <4>1
    <3>3. QED
      BY <3>1, <3>2
  <2>2. \A y \in ToSet(s) : y \in ToSet(t)
    BY <1>1, <1>2, <1>3, <1>4
  <2>3. x \in ToSet(t)
    BY <1>1, <1>3
  <2>4. QED
    BY <1>3, <2>1, <2>2, <2>3
<1>6. ASSUME Once(s), x \notin ToSet(s) PROVE Once(t)
  <2>1. SUFFICES ASSUME NEW i \in 1..Len(s)+1, NEW j \in 1..Len(s)+1, t[i] = t[j] PROVE i = j
    BY <1>1 DEF Once
  <2>2. \A k \in 2..Len(s)+1 : k - 1 \in 1..Len(s) /\ t[k] = s[k - 1] /\ t[k] # x
    BY <1>1, <1>4, <1>6
  <2>3. CASE i = 1 \/ j = 1
    BY <1>1, <2>1, <2>2, <2>3
  <2>4. CASE i # 1 /\ j # 1
    <3>1. s[i - 1] = s[j - 1] /\ i - 1 \in 1..Len(s) /\ j - 1 \in 1..Len(s)
      BY <2>1, <2>2, <2>4, <1>1
    <3>2. i - 1 = j - 1
      BY <1>1, <1>6, <3>1 DEF Once
    <3>3. QED
      BY <3>2
  <2>5. QED
    BY <2>3, <2>4
<1>7. QED
  BY <1>1, <1>5, <1>6 DEF t

LEMMA AppendFacts ==
  ASSUME NEW S, NEW s \in Seq(S), NEW x \in S
  PROVE  /\ Append(s, x) \in Seq(S)
         /\ ToSet(Append(s, x)) = ToSet(s) \union {x}
         /\ Once(s) /\ x \notin ToSet(s) => Once(Append(s, x))
<1> DEFINE t == Append(s, x)
<1>1. /\ t \in Seq(S) /\ DOMAIN t = 1..Len(s)+1 /\ t[Len(s) + 1] = x /\ Len(s) \in Nat
      /\ \A j \in 1..Len(s) : t[j] = s[j]
      /\ DOMAIN s = 1..Len(s)
  OBVIOUS
<1> HIDE DEF t
<1>2. \A y : y \in ToSet(t) <=> \E j \in 1..Len(s)+1 : t[j] = y
  BY <1>1 DEF ToSet
<1>3. \A y : y \in ToSet(s) <=> \E j \in 1..Len(s) : s[j] = y
  BY <1>1 DEF ToSet
<1>4. \A j \in 1..Len(s)+1 : j \in 1..Len(s) \/ j = Len(s) + 1
  BY <1>1
<1>5. \A y : y \in ToSet(t) <=> y \in ToSet(s) \/ y = x
  BY <1>1, <1>2, <1>3, <1>4
<1>6. Once(s) /\ x \notin ToSet(s) => Once(t)
  BY <1>1, <1>3, <1>4 DEF Once
<1>7. QED
  BY <1>1, <1>5, <1>6 DEF t

(* A sequence with one position taken out                                  *)
LEMMA Shift ==
  ASSUME NEW n \in Nat, NEW k \in 1..n, NEW j \in 1..n-1, ~(j < k)
  PROVE  j - (k - 1) \in 1..n-k /\ k + (j - (k - 1)) = j + 1 /\ ~(j <= k - 1)
OBVIOUS

LEMMA RemoveAtFacts ==
  ASSUME NEW S, NEW s \in Seq(S), NEW k \in DOMAIN s
  PROVE  /\ RemoveAt(s, k) \in Seq(S)
         /\ Len(RemoveAt(s, k)) = Len(s) - 1
         /\ \A j \in 1..Len(s)-1 : RemoveAt(s, k)[j] = s[IF j < k THEN j ELSE j + 1]
<1>1. /\ Len(s) \in Nat /\ k \in 1..Len(s)
      /\ SubSeq(s, 1, k - 1) \in Seq(S) /\ Len(SubSeq(s, 1, k - 1)) = k - 1
      /\ \A j \in 1..k-1 : SubSeq(s, 1, k - 1)[j] = s[j]
      /\ SubSeq(s, k + 1, Len(s)) \in Seq(S) /\ Len(SubSeq(s, k + 1, Len(s))) = Len(s) - k
      /\ \A j \in 1..Len(s)-k : SubSeq(s, k + 1, Len(s))[j] = s[k + j]
  BY SubSeqProperties, LenProperties
<1> DEFINE a == SubSeq(s, 1, k - 1)
           b == SubSeq(s, k + 1, Len(s))
<1>2. RemoveAt(s, k) = a \o b
  BY DEF RemoveAt
<1> HIDE DEF a, b
<1>3. /\ a \in Seq(S) /\ b \in Seq(S) /\ Len(a) = k - 1 /\ Len(b) = Len(s) - k
      /\ \A j \in 1..k-1 : a[j] = s[j]
      /\ \A j \in 1..Len(s)-k : b[j] = s[k + j]
  BY <1>1 DEF a, b
<1>4. /\ a \o b \in Seq(S) /\ Len(a \o b) = Len(s) - 1
      /\ \A j \in 1..Len(s)-1 : (a \o b)[j] = IF j <= k - 1 THEN a[j] ELSE b[j - (k - 1)]
  <2>1. k - 1 + (Len(s) - k) = Len(s) - 1
    BY <1>1
  <2>2. /\ a \o b \in Seq(S) /\ Len(a \o b) = Len(a) + Len(b)
        /\ \A j \in 1..Len(a)+Len(b) : (a \o b)[j] = IF j <= Len(a) THEN a[j] ELSE b[j - Len(a)]
    BY <1>3, ConcatProperties
  <2>3. QED
    BY <1>3, <2>1, <2>2
<1>5. ASSUME NEW j \in 1..Len(s)-1 PROVE (a \o b)[j] = s[IF j < k THEN j ELSE j + 1]
  <2>1. CASE j < k
    BY <1>1, <1>3, <1>4, <2>1
  <2>2. CASE ~(j < k)
    <3>1. j - (k - 1) \in 1..Len(s)-k /\ k + (j - (k - 1)) = j + 1 /\ ~(j <= k - 1)
      BY <1>1, <2>2, Shift
    <3>2. QED
      BY <1>3, <1>4, <2>2, <3>1
  <2>3. QED
    BY <2>1, <2>2
<1>6. QED
  BY <1>2, <1>4, <1>5

LEMMA RemoveFirstFacts ==
  ASSUME NEW S, NEW s \in Seq(S), NEW x, Once(s)
  PROVE  /\ RemoveFirst(s, x) \in Seq(S) /\ Once(RemoveFirst(s, x))
         /\ ToSet(RemoveFirst(s, x)) = ToSet(s) \ {x}
<1>1. Len(s) \in Nat /\ DOMAIN s = 1..Len(s)
  BY LenProperties
<1>2. \A y : y \in ToSet(s) <=> \E j \in 1..Len(s) : s[j] = y
  BY <1>1 DEF ToSet
<1>3. CASE ~\E i \in 1..Len(s) : s[i] = x
  BY <1>2, <1>3 DEF RemoveFirst
<1>4. CASE \E i \in 1..Len(s) : s[i] = x
  <2> DEFINE I == {i \in 1..Len(s) : s[i] = x}
             k == SelectInSeq(s, LAMBDA v : v = x)
             t == RemoveAt(s, k)
  <2>1. PICK i \in 1..Len(s) : s[i] = x
    BY <1>4
  <2>2. I = {i}
    BY <1>1, <2>1 DEF Once
  <2>3. Min(I) = i
    BY <1>1, <2>1, <2>2 DEF Min
  <2>4. k = IF I # {} THEN Min(I) ELSE 0
    BY Zenon DEF SelectInSeq
  <2> HIDE DEF I, k
  <2>5. k = i
    BY <2>2, <2>3, <2>4
  <2>6. RemoveFirst(s, x) = t
    BY <1>4, Zenon DEF RemoveFirst, k
  <2>7. /\ t \in Seq(S) /\ Len(t) = Len(s) - 1
        /\ \A j \in 1..Len(s)-1 : t[j] = s[IF j < i THEN j ELSE j + 1]
    BY <1>1, <2>1, <2>5, RemoveAtFacts
  <2> HIDE DEF t
  <2>8. DOMAIN t = 1..Len(s)-1
    BY <2>7, LenProperties
  <2>9. \A y : y \in ToSet(t) <=> \E j \in 1..Len(s)-1 : t[j] = y
    BY <2>8 DEF ToSet
  <2> DEFINE f == [j \in 1..Len(s)-1 |-> IF j < i THEN j ELSE j + 1]
  <2>10. /\ \A j \in 1..Len(s)-1 : t[j] = s[f[j]] /\ f[j] \in 1..Len(s) /\ f[j] # i
         /\ \A j, l \in 1..Len(s)-1 : f[j] = f[l] => j = l
         /\ \A l \in 1..Len(s) : l # i => \E j \in 1..Len(s)-1 : f[j] = l
    <3>1. \A j \in 1..Len(s)-1 : t[j] = s[f[j]] /\ f[j] \in 1..Len(s) /\ f[j] # i
      BY <1>1, <2>1, <2>7
    <3>2. \A j, l \in 1..Len(s)-1 : f[j] = f[l] => j = l
      BY <1>1, <2>1
    <3>3. ASSUME NEW l \in 1..Len(s), l # i PROVE \E j \in 1..Len(s)-1 : f[j] = l
      <4>1. CASE l < i
        <5>1. l \in 1..Len(s)-1 /\ f[l] = l
          BY <1>1, <2>1, <4>1
        <5>2. QED
          BY <5>1
      <4>2. CASE ~(l < i)
        <5>1. l - 1 \in 1..Len(s)-1 /\ f[l - 1] = l
          BY <1>1, <2>1, <3>3, <4>2
        <5>2. QED
          BY <5>1
      <4>3. QED
        BY <4>1, <4>2
    <3>4. QED
      BY <3>1, <3>2, <3>3
  <2> HIDE DEF f
  <2>11. Once(t)
    <3>1. ASSUME NEW j \in 1..Len(s)-1, NEW l \in 1..Len(s)-1, t[j] = t[l] PROVE j = l
      <4>1. s[f[j]] = s[f[l]] /\ f[j] \in DOMAIN s /\ f[l] \in DOMAIN s
        BY <1>1, <2>10, <3>1
      <4>2. f[j] = f[l]
        BY <4>1 DEF Once
      <4>3. QED
        BY <2>10, <4>2
    <3>2. QED
      BY <2>8, <3>1 DEF Once
  <2>12. \A y : y \in ToSet(t) <=> y \in ToSet(s) /\ y # x
    <3>1. ASSUME NEW j \in 1..Len(s)-1 PROVE t[j] \in ToSet(s) /\ t[j] # x
      BY <1>1, <1>2, <2>1, <2>10 DEF Once
    <3>2. ASSUME NEW l \in 1..Len(s), s[l] # x PROVE s[l] \in ToSet(t)
      <4>1. l # i
        BY <2>1, <3>2
      <4>2. PICK j \in 1..Len(s)-1 : f[j] = l
        BY <2>10, <4>1
      <4>3. t[j] = s[l]
        BY <2>10, <4>2
      <4>4. QED
        BY <2>9, <4>3
    <3>3. QED
      BY <1>2, <2>9, <3>1, <3>2
  <2>13. QED
    BY <2>6, <2>7, <2>11, <2>12
<1>5. QED
  BY <1>3, <1>4

-----------------------------------------------------------------------------
(* What is left of a list: its loop, one position after the other          *)

Picked(kept, s, gone, i) ==
  IF i = 0 THEN <<>> ELSE IF s[i] \in gone THEN kept[i-1] ELSE Append(kept[i-1], s[i])

IsPick(kept, s, gone) == kept = [i \in 0..Len(s) |-> Picked(kept, s, gone, i)]

LEMMA PickExists ==
  ASSUME NEW S, NEW s \in Seq(S), NEW gone
  PROVE  \E kept : IsPick(kept, s, gone)
<1> DEFINE Upto(kept, n) == kept = [i \in 0..n |-> Picked(kept, s, gone, i)]
           N == {j \in Nat : \E kept : Upto(kept, j)}
<1>1. 0 \in N
  <2> DEFINE kept == [i \in 0..0 |-> <<>>]
  <2>1. Upto(kept, 0)
    BY DEF Picked
  <2>2. QED
    BY <2>1
<1>2. ASSUME NEW j \in Nat, j \in N PROVE j + 1 \in N
  <2>1. PICK kept : Upto(kept, j)
    BY <1>2
  <2> DEFINE more == [i \in 0..j+1 |-> IF i <= j THEN kept[i] ELSE Picked(kept, s, gone, i)]
  <2>2. \A i \in 0..j : kept[i] = Picked(kept, s, gone, i)
    BY <2>1
  <2>3. \A i \in 0..j : more[i] = kept[i]
    OBVIOUS
  <2>4. more[j + 1] = Picked(kept, s, gone, j + 1)
    OBVIOUS
  <2>5. more = [i \in 0..j+1 |-> more[i]]
    OBVIOUS
  <2> HIDE DEF more
  <2>6. ASSUME NEW i \in 0..j+1 PROVE more[i] = Picked(more, s, gone, i)
    <3>1. CASE i = 0
      BY <2>2, <2>3, <3>1 DEF Picked
    <3>2. CASE i # 0
      <4>1. i - 1 \in 0..j /\ more[i - 1] = kept[i - 1]
        BY <2>3, <3>2
      <4>2. Picked(more, s, gone, i) = Picked(kept, s, gone, i)
        BY <4>1 DEF Picked
      <4>3. CASE i <= j
        BY <2>2, <2>3, <4>2, <4>3
      <4>4. CASE i = j + 1
        BY <2>4, <4>2, <4>4
      <4>5. QED
        BY <4>3, <4>4
    <3>3. QED
      BY <3>1, <3>2
  <2>7. Upto(more, j + 1)
    BY <2>5, <2>6
  <2>8. QED
    BY <2>7
<1>3. Len(s) \in Nat
  OBVIOUS
<1> HIDE DEF N
<1>4. Len(s) \in N
  <2>1. \A k \in 0..Len(s) : k \in N /\ k < Len(s) => k + 1 \in N
    BY <1>2, <1>3
  <2>2. \A k \in 0..Len(s) : k \in N
    BY <1>1, <1>3, <2>1, Steps
  <2>3. QED
    BY <1>3, <2>2
<1>5. QED
  BY <1>4 DEF N, IsPick

(* The positions of s that are left, in their order                        *)
Thins(f, r, s, gone) ==
  /\ f \in [1..Len(r) -> 1..Len(s)]
  /\ \A j \in 1..Len(r) : r[j] = s[f[j]] /\ r[j] \notin gone
  /\ \A j, l \in 1..Len(r) : j < l => f[j] < f[l]
  /\ \A k \in 1..Len(s) : s[k] \notin gone => \E j \in 1..Len(r) : f[j] = k

LEMMA PickThins ==
  ASSUME NEW S, NEW s \in Seq(S), NEW gone, NEW kept, IsPick(kept, s, gone)
  PROVE  kept[Len(s)] \in Seq(S) /\ \E f : Thins(f, kept[Len(s)], s, gone)
<1> DEFINE n == Len(s)
           Upto(f, i) ==
             /\ f \in [1..Len(kept[i]) -> 1..i]
             /\ \A j \in 1..Len(kept[i]) : kept[i][j] = s[f[j]] /\ kept[i][j] \notin gone
             /\ \A j, l \in 1..Len(kept[i]) : j < l => f[j] < f[l]
             /\ \A k \in 1..i : s[k] \notin gone => \E j \in 1..Len(kept[i]) : f[j] = k
           N == {i \in 0..n : kept[i] \in Seq(S) /\ \E f : Upto(f, i)}
<1>1. n \in Nat /\ \A i \in 1..n : s[i] \in S
  BY LenProperties, ElementOfSeq
<1>2. \A i \in 0..n : kept[i] = Picked(kept, s, gone, i)
  BY DEF IsPick
<1>3. 0 \in N
  <2>1. kept[0] = <<>>
    BY <1>1, <1>2 DEF Picked
  <2>2. Upto([j \in 1..0 |-> 0], 0)
    BY <2>1
  <2>3. \E f : Upto(f, 0)
    BY <2>2, Zenon
  <2>4. 0 \in 0..n /\ kept[0] \in Seq(S)
    BY <1>1, <2>1
  <2> HIDE DEF Upto
  <2>5. QED
    BY <2>3, <2>4
<1>4. ASSUME NEW i \in 0..n, i \in N, i < n PROVE i + 1 \in N
  <2> DEFINE k == i + 1
             t == kept[i]
  <2>1. k \in 1..n /\ k \in 0..n /\ k # 0 /\ k - 1 = i
    BY <1>1, <1>4
  <2>2. kept[k] = IF s[k] \in gone THEN t ELSE Append(t, s[k])
    BY <1>2, <2>1 DEF Picked
  <2>3. t \in Seq(S) /\ s[k] \in S
    BY <1>1, <1>4, <2>1
  <2>4. PICK f : Upto(f, i)
    BY <1>4
  <2> HIDE DEF N
  <2>5. CASE s[k] \in gone
    <3>1. kept[k] = kept[i]
      BY <2>2, <2>5
    <3>2. \A l \in 1..k : l \in 1..i \/ l = k
      BY <1>1
    <3>3. 1..i \subseteq 1..k
      BY <1>1
    <3>4. Upto(f, k)
      BY <2>4, <2>5, <3>1, <3>2, <3>3
    <3>5. QED
      BY <2>1, <2>3, <3>1, <3>4 DEF N
  <2>6. CASE s[k] \notin gone
    <3> DEFINE m == Len(t)
               r == Append(t, s[k])
               g == [j \in 1..m+1 |-> IF j = m + 1 THEN k ELSE f[j]]
    <3>1. /\ r \in Seq(S) /\ Len(r) = m + 1 /\ r[m + 1] = s[k]
          /\ \A j \in 1..m : r[j] = t[j]
          /\ m \in Nat
      BY <2>3
    <3>2. kept[k] = r
      BY <2>2, <2>6
    <3>3. \A j \in 1..m+1 : j \in 1..m \/ j = m + 1
      BY <3>1
    <3>4. \A j \in 1..m : g[j] = f[j] /\ f[j] \in 1..i
      <4>1. f \in [1..m -> 1..i]
        BY <2>4
      <4>2. \A j \in 1..m : j \in 1..m+1 /\ j # m + 1 /\ f[j] \in 1..i
        <5> HIDE DEF m
        <5>1. QED
          BY <3>1, <4>1
      <4> HIDE DEF m
      <4>3. QED
        BY <4>2
    <3>5. g[m + 1] = k
      BY <3>1
    <3>6. g \in [1..m+1 -> 1..k]
      <4>1. \A j \in 1..m+1 : g[j] \in 1..k
        <5>1. 1..i \subseteq 1..k /\ k \in 1..k
          BY <1>1
        <5> HIDE DEF g, k, m
        <5>2. QED
          BY <3>3, <3>4, <3>5, <5>1
      <4>2. g = [j \in 1..m+1 |-> g[j]]
        OBVIOUS
      <4> HIDE DEF g, k
      <4>3. QED
        BY <4>1, <4>2
    <3> HIDE DEF g, r, m, k
    <3>7. \A j \in 1..m+1 : r[j] = s[g[j]] /\ r[j] \notin gone
      <4>1. \A j \in 1..m : t[j] = s[f[j]] /\ t[j] \notin gone
        BY <2>4 DEF m
      <4>2. QED
        BY <2>6, <3>1, <3>3, <3>4, <3>5, <4>1
    <3>8. \A j, l \in 1..m+1 : j < l => g[j] < g[l]
      <4>1. \A j, l \in 1..m : j < l => f[j] < f[l]
        BY <2>4 DEF m
      <4>2. \A j \in 1..m : g[j] < k
        BY <1>1, <3>4 DEF k
      <4>3. \A j, l \in 1..m+1 : j < l => j \in 1..m
        BY <3>1
      <4>4. QED
        BY <3>3, <3>4, <3>5, <4>1, <4>2, <4>3
    <3>9. \A l \in 1..k : s[l] \notin gone => \E j \in 1..m+1 : g[j] = l
      <4>1. SUFFICES ASSUME NEW l \in 1..k, s[l] \notin gone PROVE \E j \in 1..m+1 : g[j] = l
        OBVIOUS
      <4>2. CASE l = k
        BY <3>1, <3>5, <4>2
      <4>3. CASE l # k
        <5>1. l \in 1..i
          BY <1>1, <4>3 DEF k
        <5>2. PICK j \in 1..m : f[j] = l
          BY <2>4, <4>1, <5>1 DEF m
        <5>3. j \in 1..m+1 /\ g[j] = l
          BY <3>1, <3>4, <5>2
        <5>4. QED
          BY <5>3
      <4>4. QED
        BY <4>2, <4>3
    <3>10. Upto(g, k)
      BY <3>1, <3>2, <3>6, <3>7, <3>8, <3>9
    <3>11. QED
      BY <2>1, <3>1, <3>2, <3>10 DEF N, k
  <2>7. QED
    BY <2>5, <2>6
<1> HIDE DEF N
<1>5. n \in N
  <2> HIDE DEF n
  <2>1. \A i \in 0..n : i \in N /\ i < n => i + 1 \in N
    BY <1>4
  <2>2. \A i \in 0..n : i \in N
    BY <1>1, <1>3, <2>1, Steps
  <2>3. QED
    BY <1>1, <2>2
<1>6. QED
  BY <1>5 DEF N, Thins

LEMMA ThinnedFacts ==
  ASSUME NEW S, NEW s \in Seq(S), NEW gone, NEW r \in Seq(S), NEW f, Thins(f, r, s, gone)
  PROVE  /\ ToSet(r) = ToSet(s) \ gone
         /\ Once(s) => Once(r)
<1>1. /\ Len(s) \in Nat /\ DOMAIN s = 1..Len(s)
      /\ Len(r) \in Nat /\ DOMAIN r = 1..Len(r)
  BY LenProperties
<1>2. \A y : y \in ToSet(s) <=> \E j \in 1..Len(s) : s[j] = y
  BY <1>1 DEF ToSet
<1>3. \A y : y \in ToSet(r) <=> \E j \in 1..Len(r) : r[j] = y
  BY <1>1 DEF ToSet
<1>4. \A j \in 1..Len(r) : f[j] \in 1..Len(s) /\ r[j] = s[f[j]] /\ r[j] \notin gone
  BY DEF Thins
<1>5. ASSUME NEW y \in ToSet(s) \ gone PROVE y \in ToSet(r)
  <2>1. PICK k \in 1..Len(s) : s[k] = y
    BY <1>2
  <2>2. PICK j \in 1..Len(r) : f[j] = k
    BY <1>5, <2>1 DEF Thins
  <2>3. QED
    BY <1>3, <1>4, <2>1, <2>2
<1>6. \A y \in ToSet(r) : y \in ToSet(s) /\ y \notin gone
  BY <1>2, <1>3, <1>4
<1>7. ASSUME Once(s), NEW i \in 1..Len(r), NEW j \in 1..Len(r), r[i] = r[j] PROVE i = j
  <2>1. f[i] \in DOMAIN s /\ f[j] \in DOMAIN s /\ s[f[i]] = s[f[j]]
    BY <1>1, <1>4, <1>7
  <2>2. f[i] = f[j]
    BY <1>7, <2>1 DEF Once
  <2>3. f[i] \in Nat /\ ~(i < j) /\ ~(j < i)
    BY <1>1, <1>4, <2>2 DEF Thins
  <2>4. QED
    BY <2>3
<1>8. QED
  BY <1>1, <1>5, <1>6, <1>7 DEF Once

LEMMA WithoutFacts ==
  ASSUME NEW S, NEW s \in Seq(S), NEW gone
  PROVE  /\ Without(s, gone) \in Seq(S)
         /\ \E f : Thins(f, Without(s, gone), s, gone)
         /\ ToSet(Without(s, gone)) = ToSet(s) \ gone
         /\ Once(s) => Once(Without(s, gone))
<1> DEFINE left == CHOOSE left : left = [i \in 0..Len(s) |->
                     IF i = 0 THEN <<>>
                     ELSE IF s[i] \in gone THEN left[i-1] ELSE Append(left[i-1], s[i])]
<1>1. Without(s, gone) = left[Len(s)]
  BY DEF Without
<1>2. \E kept : IsPick(kept, s, gone)
  BY PickExists
<1>3. IsPick(left, s, gone)
  BY <1>2, Zenon DEF IsPick, Picked
<1> HIDE DEF left
<1>4. Without(s, gone) \in Seq(S) /\ \E f : Thins(f, Without(s, gone), s, gone)
  BY <1>1, <1>3, PickThins
<1> DEFINE r == Without(s, gone)
<1> HIDE DEF r
<1>5. r \in Seq(S) /\ \E f : Thins(f, r, s, gone)
  BY <1>4 DEF r
<1>6. PICK f : Thins(f, r, s, gone)
  BY <1>5
<1>7. ToSet(r) = ToSet(s) \ gone /\ (Once(s) => Once(r))
  BY <1>5, <1>6, ThinnedFacts
<1>8. QED
  BY <1>4, <1>7 DEF r

-----------------------------------------------------------------------------
(* The commands of a module to a service: two at most                      *)

CommandSet(m, s) == {c \in Commands(m) : c.to = s}

Few(C) == C = {} \/ (\E a : C = {a}) \/ \E a, b : a # b /\ C = {a, b}

LEMMA CommandSetFew ==
  ASSUME NEW m \in Modules, NEW s
  PROVE  Few(CommandSet(m, s))
<1>1. \A a : Few({a}) /\ Few({})
  BY DEF Few
<1>2. CASE m = "cs_role"
  <2>1. Commands(m) = {[to |-> "chanserv", cmd |-> 0, answers |-> FALSE],
                       [to |-> "chanserv", cmd |-> 2, answers |-> TRUE]}
    BY <1>2 DEF Commands
  <2>2. CommandSet(m, s) = IF s = "chanserv" THEN Commands(m) ELSE {}
    BY <2>1 DEF CommandSet
  <2>3. QED
    BY <1>1, <2>1, <2>2 DEF Few
<1>3. CASE m = "os_uevent"
  <2>1. Commands(m) = {[to |-> "operserv", cmd |-> 3, answers |-> TRUE],
                       [to |-> "operserv", cmd |-> 4, answers |-> FALSE]}
    BY <1>3 DEF Commands
  <2>2. CommandSet(m, s) = IF s = "operserv" THEN Commands(m) ELSE {}
    BY <2>1 DEF CommandSet
  <2>3. QED
    BY <1>1, <2>1, <2>2 DEF Few
<1>4. CASE m \notin {"cs_role", "os_uevent"}
  <2>1. Commands(m) = {} \/ \E c : Commands(m) = {c}
    BY <1>4, ModulesNames DEF Commands
  <2>2. CommandSet(m, s) = {} \/ \E c : CommandSet(m, s) = {c}
    BY <2>1 DEF CommandSet
  <2>3. QED
    BY <1>1, <2>2
<1>5. QED
  BY <1>2, <1>3, <1>4

LEMMA SizedSeq ==
  ASSUME NEW S, NEW n \in Nat, NEW s \in [1..n -> S]
  PROVE  s \in Seq(S) /\ Len(s) = n
<1>1. s \in Seq(S)
  BY SeqDef
<1>2. QED
  BY <1>1, LenProperties

LEMMA CommandsToFacts ==
  ASSUME NEW m \in Modules, NEW s
  PROVE  /\ CommandsTo(m, s) \in Seq(CommandSet(m, s))
         /\ ToSet(CommandsTo(m, s)) = CommandSet(m, s)
         /\ Len(CommandsTo(m, s)) \in 0..2 /\ Once(CommandsTo(m, s))
<1> DEFINE C == CommandSet(m, s)
           q == CHOOSE f \in [1..Cardinality(C) -> C] : IsInjective(f)
<1>1. CommandsTo(m, s) = q
  BY DEF CommandsTo, SetToSeq, CommandSet
<1>2. Few(C)
  BY CommandSetFew
<1> HIDE DEF C
<1>3. CASE C = {}
  <2>1. Cardinality(C) = 0
    BY <1>3, FS_EmptySet
  <2>2. <<>> \in [1..0 -> C] /\ IsInjective(<<>>)
    BY DEF IsInjective
  <2>3. q \in [1..0 -> C]
    <3>1. q = CHOOSE f \in [1..0 -> C] : IsInjective(f)
      BY <2>1
    <3> HIDE DEF q
    <3>2. QED
      BY <2>2, <3>1
  <2> HIDE DEF q
  <2>4. q \in Seq(C) /\ Len(q) = 0 /\ DOMAIN q = {}
    BY <2>3, SizedSeq
  <2>5. ToSet(q) = {}
    BY <2>4 DEF ToSet
  <2>6. QED
    BY <1>1, <1>3, <2>4, <2>5 DEF Once, C
<1>4. ASSUME NEW a, C = {a}
      PROVE  q \in Seq(C) /\ ToSet(q) = C /\ Len(q) \in 0..2 /\ Once(q)
  <2>1. Cardinality(C) = 1
    BY <1>4, FS_Singleton
  <2>2. <<a>> \in [1..1 -> C] /\ IsInjective(<<a>>)
    BY <1>4 DEF IsInjective
  <2>3. q \in [1..1 -> C]
    <3>1. q = CHOOSE f \in [1..1 -> C] : IsInjective(f)
      BY <2>1
    <3> HIDE DEF q
    <3>2. QED
      BY <2>2, <3>1
  <2> HIDE DEF q
  <2>4. q \in Seq(C) /\ Len(q) = 1 /\ q[1] = a /\ DOMAIN q = 1..1
    <3>1. 1 \in Nat /\ 1 \in 1..1
      OBVIOUS
    <3>2. q \in Seq(C) /\ Len(q) = 1 /\ DOMAIN q = 1..1
      BY <2>3, <3>1, SizedSeq
    <3>3. q[1] \in C
      BY <2>3, <3>1
    <3>4. QED
      BY <1>4, <3>2, <3>3
  <2>5. QED
    BY <1>4, <2>4 DEF ToSet, Once
<1>5. ASSUME NEW a, NEW b, a # b, C = {a, b}
      PROVE  q \in Seq(C) /\ ToSet(q) = C /\ Len(q) \in 0..2 /\ Once(q)
  <2>1. Cardinality(C) = 2
    <3>1. IsFiniteSet({a}) /\ Cardinality({a}) = 1
      BY FS_Singleton
    <3>2. C = {a} \union {b} /\ b \notin {a}
      BY <1>5
    <3>3. QED
      BY <3>1, <3>2, FS_AddElement
  <2>2. <<a, b>> \in [1..2 -> C] /\ IsInjective(<<a, b>>)
    BY <1>5 DEF IsInjective
  <2>3. q \in [1..2 -> C] /\ IsInjective(q)
    <3>1. q = CHOOSE f \in [1..2 -> C] : IsInjective(f)
      BY <2>1
    <3> HIDE DEF q
    <3>2. QED
      BY <2>2, <3>1
  <2> HIDE DEF q
  <2>4. q \in Seq(C) /\ Len(q) = 2 /\ q[1] \in C /\ q[2] \in C /\ DOMAIN q = 1..2
    <3>1. 2 \in Nat /\ 1 \in 1..2 /\ 2 \in 1..2
      OBVIOUS
    <3>2. q \in Seq(C) /\ Len(q) = 2 /\ DOMAIN q = 1..2
      BY <2>3, <3>1, SizedSeq
    <3>3. QED
      BY <2>3, <3>1, <3>2
  <2>5. q[1] # q[2]
    BY <2>3, <2>4 DEF IsInjective
  <2>6. ToSet(q) = {q[1], q[2]}
    BY <2>4 DEF ToSet
  <2>7. QED
    BY <1>5, <2>4, <2>5, <2>6 DEF Once
<1>6. QED
  BY <1>1, <1>2, <1>3, <1>4, <1>5 DEF Few, C

(* A set of one or two positions                                           *)
LEMMA TwoPositions ==
  ASSUME NEW n \in 0..2, NEW z \in SUBSET (1..n), z # {}
  PROVE  \/ n >= 1 /\ z = {1} /\ Max(z) = 1 /\ z \ {Max(z)} = {}
         \/ n = 2 /\ z = {2} /\ Max(z) = 2 /\ z \ {Max(z)} = {}
         \/ n = 2 /\ z = {1, 2} /\ Max(z) = 2 /\ z \ {Max(z)} = {1}
<1>1. z = {1} \/ z = {2} \/ z = {1, 2}
  <2>1. \A k \in z : k = 1 \/ k = 2
    OBVIOUS
  <2>2. QED
    BY <2>1
<1>2. Max({1}) = 1 /\ Max({2}) = 2 /\ Max({1, 2}) = 2
  BY DEF Max
<1>3. (2 \in z => n = 2) /\ (1 \in z => n >= 1)
  OBVIOUS
<1>4. QED
  BY <1>1, <1>2, <1>3

(* Two positions, folded                                                   *)
FoldedTwo(n, base, one, two, both) ==
  [z \in SUBSET (1..n) |->
     IF z = {} THEN base ELSE IF z = {1} THEN one ELSE IF z = {2} THEN two ELSE both]

ListedOf(m, list, c) == Listed(list, Entry(m, c))

HandlerAdded(m, list, c) == IF c.answers THEN AddUMsgEvent(list, HandlerOf(m, c)) ELSE list

HandlerTaken(m, list, c) == DelUMsgEvent(list, HandlerOf(m, c))

LEMMA ListedFolded ==
  ASSUME NEW m, NEW base, NEW C, NEW q \in Seq(C), Len(q) \in 0..2
  PROVE  LET F == FoldLeft(LAMBDA list, c : Listed(list, Entry(m, c)), base, q)
         IN  /\ Len(q) = 0 => F = base
             /\ Len(q) = 1 => F = ListedOf(m, base, q[1])
             /\ Len(q) = 2 => F = ListedOf(m, ListedOf(m, base, q[1]), q[2])
<1> DEFINE n == Len(q)
           G(it) == [z \in SUBSET DOMAIN q |->
                       IF z = {} THEN base ELSE ListedOf(m, it[z \ {Max(z)}], q[Max(z)])]
           iter == CHOOSE it : it = G(it)
           one == ListedOf(m, base, q[1])
           w == FoldedTwo(n, base, one, ListedOf(m, base, q[2]), ListedOf(m, one, q[2]))
           F == FoldLeft(LAMBDA list, c : Listed(list, Entry(m, c)), base, q)
<1>1. n \in 0..2 /\ DOMAIN q = 1..n
  BY LenProperties
<1>2. F = iter[1..n]
  <2>1. F = iter[DOMAIN q]
    BY Zenon DEF FoldLeft, MapThenFoldSet, ListedOf
  <2> HIDE DEF iter
  <2>2. QED
    BY <1>1, <2>1
<1>3. w = G(w)
  <2>1. w[{}] = base /\ (n >= 1 => w[{1}] = one)
    BY <1>1 DEF FoldedTwo
  <2>2. \A z \in SUBSET (1..n) : z # {} => w[z] = ListedOf(m, w[z \ {Max(z)}], q[Max(z)])
    <3>1. SUFFICES ASSUME NEW z \in SUBSET (1..n), z # {}
                   PROVE  w[z] = ListedOf(m, w[z \ {Max(z)}], q[Max(z)])
      OBVIOUS
    <3>2. /\ n >= 1 => w[{1}] = one
          /\ n = 2 => w[{2}] = ListedOf(m, base, q[2]) /\ w[{1, 2}] = ListedOf(m, one, q[2])
      BY <1>1 DEF FoldedTwo
    <3>3. \/ n >= 1 /\ z = {1} /\ Max(z) = 1 /\ z \ {Max(z)} = {}
          \/ n = 2 /\ z = {2} /\ Max(z) = 2 /\ z \ {Max(z)} = {}
          \/ n = 2 /\ z = {1, 2} /\ Max(z) = 2 /\ z \ {Max(z)} = {1}
      BY <1>1, <3>1, TwoPositions
    <3> HIDE DEF w, n
    <3>4. n = 2 => n >= 1
      OBVIOUS
    <3>5. QED
      BY <2>1, <3>2, <3>3, <3>4 DEF one
  <2>3. w = [z \in SUBSET (1..n) |-> w[z]]
    BY DEF FoldedTwo
  <2> HIDE DEF w, n
  <2>4. \A z \in SUBSET (1..n) :
          w[z] = IF z = {} THEN base ELSE ListedOf(m, w[z \ {Max(z)}], q[Max(z)])
    BY <2>1, <2>2
  <2>5. QED
    BY <1>1, <2>3, <2>4
<1>4. iter = G(iter)
  <2> HIDE DEF G, w
  <2>1. QED
    BY <1>3, Zenon
<1> HIDE DEF iter
<1>5. \A z \in SUBSET (1..n) :
        iter[z] = IF z = {} THEN base ELSE ListedOf(m, iter[z \ {Max(z)}], q[Max(z)])
  BY <1>1, <1>4, Zenon
<1> HIDE DEF n, F, G, w
<1>6. iter[{}] = base
  BY <1>5
<1>7. n >= 1 => iter[{1}] = one
  <2>1. Max({1}) = 1 /\ {1} \ {1} = {}
    BY DEF Max
  <2>2. n >= 1 => {1} \in SUBSET (1..n)
    BY <1>1
  <2>3. QED
    BY <1>5, <1>6, <2>1, <2>2
<1>8. n = 2 => iter[{1, 2}] = ListedOf(m, one, q[2])
  <2>1. Max({1, 2}) = 2 /\ {1, 2} \ {2} = {1}
    BY DEF Max
  <2>2. n = 2 => {1, 2} \in SUBSET (1..n) /\ n >= 1
    BY <1>1
  <2>3. QED
    BY <1>5, <1>7, <2>1, <2>2
<1>9. /\ n = 0 => F = base
      /\ n = 1 => F = one
      /\ n = 2 => F = ListedOf(m, one, q[2])
  <2>1. 1..0 = {} /\ 1..1 = {1} /\ 1..2 = {1, 2} /\ 1 >= 1
    OBVIOUS
  <2> HIDE DEF one
  <2>2. n = 0 => F = base
    BY <1>2, <1>6, <2>1, Zenon
  <2>3. n = 1 => F = one
    BY <1>2, <1>7, <2>1, Zenon
  <2>4. n = 2 => F = ListedOf(m, one, q[2])
    BY <1>2, <1>8, <2>1, Zenon
  <2>5. QED
    BY <2>2, <2>3, <2>4
<1> HIDE DEF one
<1>10. QED
  BY <1>9, Zenon DEF F, n, one

LEMMA AddedFolded ==
  ASSUME NEW m, NEW base, NEW C, NEW q \in Seq(C), Len(q) \in 0..2
  PROVE  LET F == FoldLeft(LAMBDA list, c :
                              IF c.answers THEN AddUMsgEvent(list, HandlerOf(m, c)) ELSE list, base, q)
         IN  /\ Len(q) = 0 => F = base
             /\ Len(q) = 1 => F = HandlerAdded(m, base, q[1])
             /\ Len(q) = 2 => F = HandlerAdded(m, HandlerAdded(m, base, q[1]), q[2])
<1> DEFINE n == Len(q)
           G(it) == [z \in SUBSET DOMAIN q |->
                       IF z = {} THEN base ELSE HandlerAdded(m, it[z \ {Max(z)}], q[Max(z)])]
           iter == CHOOSE it : it = G(it)
           one == HandlerAdded(m, base, q[1])
           w == FoldedTwo(n, base, one, HandlerAdded(m, base, q[2]), HandlerAdded(m, one, q[2]))
           F == FoldLeft(LAMBDA list, c :
                              IF c.answers THEN AddUMsgEvent(list, HandlerOf(m, c)) ELSE list, base, q)
<1>1. n \in 0..2 /\ DOMAIN q = 1..n
  BY LenProperties
<1>2. F = iter[1..n]
  <2>1. F = iter[DOMAIN q]
    BY Zenon DEF FoldLeft, MapThenFoldSet, HandlerAdded
  <2> HIDE DEF iter
  <2>2. QED
    BY <1>1, <2>1
<1>3. w = G(w)
  <2>1. w[{}] = base /\ (n >= 1 => w[{1}] = one)
    BY <1>1 DEF FoldedTwo
  <2>2. \A z \in SUBSET (1..n) : z # {} => w[z] = HandlerAdded(m, w[z \ {Max(z)}], q[Max(z)])
    <3>1. SUFFICES ASSUME NEW z \in SUBSET (1..n), z # {}
                   PROVE  w[z] = HandlerAdded(m, w[z \ {Max(z)}], q[Max(z)])
      OBVIOUS
    <3>2. /\ n >= 1 => w[{1}] = one
          /\ n = 2 => w[{2}] = HandlerAdded(m, base, q[2]) /\ w[{1, 2}] = HandlerAdded(m, one, q[2])
      BY <1>1 DEF FoldedTwo
    <3>3. \/ n >= 1 /\ z = {1} /\ Max(z) = 1 /\ z \ {Max(z)} = {}
          \/ n = 2 /\ z = {2} /\ Max(z) = 2 /\ z \ {Max(z)} = {}
          \/ n = 2 /\ z = {1, 2} /\ Max(z) = 2 /\ z \ {Max(z)} = {1}
      BY <1>1, <3>1, TwoPositions
    <3> HIDE DEF w, n
    <3>4. n = 2 => n >= 1
      OBVIOUS
    <3>5. QED
      BY <2>1, <3>2, <3>3, <3>4 DEF one
  <2>3. w = [z \in SUBSET (1..n) |-> w[z]]
    BY DEF FoldedTwo
  <2> HIDE DEF w, n
  <2>4. \A z \in SUBSET (1..n) :
          w[z] = IF z = {} THEN base ELSE HandlerAdded(m, w[z \ {Max(z)}], q[Max(z)])
    BY <2>1, <2>2
  <2>5. QED
    BY <1>1, <2>3, <2>4
<1>4. iter = G(iter)
  <2> HIDE DEF G, w
  <2>1. QED
    BY <1>3, Zenon
<1> HIDE DEF iter
<1>5. \A z \in SUBSET (1..n) :
        iter[z] = IF z = {} THEN base ELSE HandlerAdded(m, iter[z \ {Max(z)}], q[Max(z)])
  BY <1>1, <1>4, Zenon
<1> HIDE DEF n, F, G, w
<1>6. iter[{}] = base
  BY <1>5
<1>7. n >= 1 => iter[{1}] = one
  <2>1. Max({1}) = 1 /\ {1} \ {1} = {}
    BY DEF Max
  <2>2. n >= 1 => {1} \in SUBSET (1..n)
    BY <1>1
  <2>3. QED
    BY <1>5, <1>6, <2>1, <2>2
<1>8. n = 2 => iter[{1, 2}] = HandlerAdded(m, one, q[2])
  <2>1. Max({1, 2}) = 2 /\ {1, 2} \ {2} = {1}
    BY DEF Max
  <2>2. n = 2 => {1, 2} \in SUBSET (1..n) /\ n >= 1
    BY <1>1
  <2>3. QED
    BY <1>5, <1>7, <2>1, <2>2
<1>9. /\ n = 0 => F = base
      /\ n = 1 => F = one
      /\ n = 2 => F = HandlerAdded(m, one, q[2])
  <2>1. 1..0 = {} /\ 1..1 = {1} /\ 1..2 = {1, 2} /\ 1 >= 1
    OBVIOUS
  <2> HIDE DEF one
  <2>2. n = 0 => F = base
    BY <1>2, <1>6, <2>1, Zenon
  <2>3. n = 1 => F = one
    BY <1>2, <1>7, <2>1, Zenon
  <2>4. n = 2 => F = HandlerAdded(m, one, q[2])
    BY <1>2, <1>8, <2>1, Zenon
  <2>5. QED
    BY <2>2, <2>3, <2>4
<1> HIDE DEF one
<1>10. QED
  BY <1>9, Zenon DEF F, n, one

LEMMA TakenFolded ==
  ASSUME NEW m, NEW base, NEW C, NEW q \in Seq(C), Len(q) \in 0..2
  PROVE  LET F == FoldLeft(LAMBDA list, c : DelUMsgEvent(list, HandlerOf(m, c)), base, q)
         IN  /\ Len(q) = 0 => F = base
             /\ Len(q) = 1 => F = HandlerTaken(m, base, q[1])
             /\ Len(q) = 2 => F = HandlerTaken(m, HandlerTaken(m, base, q[1]), q[2])
<1> DEFINE n == Len(q)
           G(it) == [z \in SUBSET DOMAIN q |->
                       IF z = {} THEN base ELSE HandlerTaken(m, it[z \ {Max(z)}], q[Max(z)])]
           iter == CHOOSE it : it = G(it)
           one == HandlerTaken(m, base, q[1])
           w == FoldedTwo(n, base, one, HandlerTaken(m, base, q[2]), HandlerTaken(m, one, q[2]))
           F == FoldLeft(LAMBDA list, c : DelUMsgEvent(list, HandlerOf(m, c)), base, q)
<1>1. n \in 0..2 /\ DOMAIN q = 1..n
  BY LenProperties
<1>2. F = iter[1..n]
  <2>1. F = iter[DOMAIN q]
    BY Zenon DEF FoldLeft, MapThenFoldSet, HandlerTaken
  <2> HIDE DEF iter
  <2>2. QED
    BY <1>1, <2>1
<1>3. w = G(w)
  <2>1. w[{}] = base /\ (n >= 1 => w[{1}] = one)
    BY <1>1 DEF FoldedTwo
  <2>2. \A z \in SUBSET (1..n) : z # {} => w[z] = HandlerTaken(m, w[z \ {Max(z)}], q[Max(z)])
    <3>1. SUFFICES ASSUME NEW z \in SUBSET (1..n), z # {}
                   PROVE  w[z] = HandlerTaken(m, w[z \ {Max(z)}], q[Max(z)])
      OBVIOUS
    <3>2. /\ n >= 1 => w[{1}] = one
          /\ n = 2 => w[{2}] = HandlerTaken(m, base, q[2]) /\ w[{1, 2}] = HandlerTaken(m, one, q[2])
      BY <1>1 DEF FoldedTwo
    <3>3. \/ n >= 1 /\ z = {1} /\ Max(z) = 1 /\ z \ {Max(z)} = {}
          \/ n = 2 /\ z = {2} /\ Max(z) = 2 /\ z \ {Max(z)} = {}
          \/ n = 2 /\ z = {1, 2} /\ Max(z) = 2 /\ z \ {Max(z)} = {1}
      BY <1>1, <3>1, TwoPositions
    <3> HIDE DEF w, n
    <3>4. n = 2 => n >= 1
      OBVIOUS
    <3>5. QED
      BY <2>1, <3>2, <3>3, <3>4 DEF one
  <2>3. w = [z \in SUBSET (1..n) |-> w[z]]
    BY DEF FoldedTwo
  <2> HIDE DEF w, n
  <2>4. \A z \in SUBSET (1..n) :
          w[z] = IF z = {} THEN base ELSE HandlerTaken(m, w[z \ {Max(z)}], q[Max(z)])
    BY <2>1, <2>2
  <2>5. QED
    BY <1>1, <2>3, <2>4
<1>4. iter = G(iter)
  <2> HIDE DEF G, w
  <2>1. QED
    BY <1>3, Zenon
<1> HIDE DEF iter
<1>5. \A z \in SUBSET (1..n) :
        iter[z] = IF z = {} THEN base ELSE HandlerTaken(m, iter[z \ {Max(z)}], q[Max(z)])
  BY <1>1, <1>4, Zenon
<1> HIDE DEF n, F, G, w
<1>6. iter[{}] = base
  BY <1>5
<1>7. n >= 1 => iter[{1}] = one
  <2>1. Max({1}) = 1 /\ {1} \ {1} = {}
    BY DEF Max
  <2>2. n >= 1 => {1} \in SUBSET (1..n)
    BY <1>1
  <2>3. QED
    BY <1>5, <1>6, <2>1, <2>2
<1>8. n = 2 => iter[{1, 2}] = HandlerTaken(m, one, q[2])
  <2>1. Max({1, 2}) = 2 /\ {1, 2} \ {2} = {1}
    BY DEF Max
  <2>2. n = 2 => {1, 2} \in SUBSET (1..n) /\ n >= 1
    BY <1>1
  <2>3. QED
    BY <1>5, <1>7, <2>1, <2>2
<1>9. /\ n = 0 => F = base
      /\ n = 1 => F = one
      /\ n = 2 => F = HandlerTaken(m, one, q[2])
  <2>1. 1..0 = {} /\ 1..1 = {1} /\ 1..2 = {1, 2} /\ 1 >= 1
    OBVIOUS
  <2> HIDE DEF one
  <2>2. n = 0 => F = base
    BY <1>2, <1>6, <2>1, Zenon
  <2>3. n = 1 => F = one
    BY <1>2, <1>7, <2>1, Zenon
  <2>4. n = 2 => F = HandlerTaken(m, one, q[2])
    BY <1>2, <1>8, <2>1, Zenon
  <2>5. QED
    BY <2>2, <2>3, <2>4
<1> HIDE DEF one
<1>10. QED
  BY <1>9, Zenon DEF F, n, one

-----------------------------------------------------------------------------
(* The lists of commands and of their handlers                             *)

Entries == [cmd : Nat, owner : Modules]

MsgHandlers == [msg : Nat, owner : Modules]

Sorted(list) == \A i, j \in DOMAIN list : i < j => list[i].cmd < list[j].cmd

LEMMA InsertAtFacts ==
  ASSUME NEW S, NEW s \in Seq(S), NEW e \in S, NEW k \in 1..Len(s)+1
  PROVE  /\ InsertAt(s, k, e) \in Seq(S)
         /\ Len(InsertAt(s, k, e)) = Len(s) + 1
         /\ \A j \in 1..k-1 : InsertAt(s, k, e)[j] = s[j]
         /\ InsertAt(s, k, e)[k] = e
         /\ \A j \in k+1..Len(s)+1 : InsertAt(s, k, e)[j] = s[j - 1]
<1> DEFINE n == Len(s)
           a == SubSeq(s, 1, k - 1)
           b == SubSeq(s, k, Len(s))
           t == a \o <<e>>
<1>1. n \in Nat /\ k \in 1..n+1
  BY LenProperties
<1>2. /\ a \in Seq(S) /\ Len(a) = k - 1 /\ \A j \in 1..k-1 : a[j] = s[j]
      /\ b \in Seq(S) /\ Len(b) = n + 1 - k /\ \A j \in 1..n+1-k : b[j] = s[k + j - 1]
  BY <1>1, SubSeqProperties
<1>3. InsertAt(s, k, e) = t \o b
  BY DEF InsertAt
<1> HIDE DEF n, a, b
<1>4. <<e>> \in Seq(S) /\ Len(<<e>>) = 1 /\ <<e>>[1] = e
  OBVIOUS
<1>5. /\ t \in Seq(S) /\ Len(t) = k
      /\ \A j \in 1..k-1 : t[j] = s[j]
      /\ t[k] = e
  <2>1. k - 1 + 1 = k /\ \A j \in 1..k-1 : j \in 1..k /\ j <= k - 1
    BY <1>1
  <2>2. k \in 1..k /\ ~(k <= k - 1) /\ k - (k - 1) = 1
    BY <1>1
  <2>3. /\ t \in Seq(S) /\ Len(t) = Len(a) + Len(<<e>>)
        /\ \A j \in 1..Len(a)+Len(<<e>>) : t[j] = IF j <= Len(a) THEN a[j] ELSE <<e>>[j - Len(a)]
    BY <1>2, <1>4, ConcatProperties
  <2> HIDE DEF t
  <2>4. Len(a) + Len(<<e>>) = k
    BY <1>2, <1>4, <2>1
  <2>5. \A j \in 1..k : t[j] = IF j <= k - 1 THEN a[j] ELSE <<e>>[j - (k - 1)]
    BY <1>2, <2>3, <2>4
  <2>6. QED
    BY <1>2, <1>4, <2>1, <2>2, <2>3, <2>4, <2>5
<1> HIDE DEF t
<1>6. /\ t \o b \in Seq(S) /\ Len(t \o b) = n + 1
      /\ \A j \in 1..n+1 : (t \o b)[j] = IF j <= k THEN t[j] ELSE b[j - k]
  <2>1. k + (n + 1 - k) = n + 1
    BY <1>1
  <2>2. /\ t \o b \in Seq(S) /\ Len(t \o b) = Len(t) + Len(b)
        /\ \A j \in 1..Len(t)+Len(b) : (t \o b)[j] = IF j <= Len(t) THEN t[j] ELSE b[j - Len(t)]
    BY <1>2, <1>5, ConcatProperties
  <2>3. QED
    BY <1>2, <1>5, <2>1, <2>2
<1>7. \A j \in 1..k-1 : j \in 1..n+1 /\ j <= k
  BY <1>1
<1>8. k \in 1..n+1 /\ k <= k
  BY <1>1
<1>9. ASSUME NEW j \in k+1..n+1 PROVE (t \o b)[j] = s[j - 1]
  <2>1. j \in 1..n+1 /\ ~(j <= k) /\ j - k \in 1..n+1-k /\ k + (j - k) - 1 = j - 1
    BY <1>1
  <2>2. b[j - k] = s[k + (j - k) - 1]
    BY <1>2, <2>1
  <2>3. QED
    BY <1>6, <2>1, <2>2
<1>10. QED
  BY <1>3, <1>5, <1>6, <1>7, <1>8, <1>9 DEF n

(* suser_add_cmd keeps the order that HELP shows.                          *)
LEMMA ListedFacts ==
  ASSUME NEW list \in Seq(Entries), NEW c \in Entries, Sorted(list),
         \A e \in ToSet(list) : e.cmd # c.cmd
  PROVE  /\ Listed(list, c) \in Seq(Entries)
         /\ Sorted(Listed(list, c))
         /\ ToSet(Listed(list, c)) = ToSet(list) \union {c}
<1> DEFINE n == Len(list)
           Here(i) == /\ i = n \/ c.cmd <= list[i + 1].cmd
                      /\ \A j \in 1..i-1 : c.cmd > list[j + 1].cmd
<1>1. /\ n \in Nat /\ DOMAIN list = 1..n /\ c.cmd \in Nat
      /\ \A i \in 1..n : list[i] \in Entries /\ list[i].cmd \in Nat /\ list[i].cmd # c.cmd
  <2>1. n \in Nat /\ DOMAIN list = 1..n /\ \A i \in 1..n : list[i] \in Entries
    BY LenProperties, ElementOfSeq
  <2>2. \A e \in Entries : e.cmd \in Nat
    BY DEF Entries
  <2>3. \A i \in 1..n : list[i] \in ToSet(list)
    BY <2>1 DEF ToSet
  <2>4. QED
    BY <2>1, <2>2, <2>3
<1>2. CASE list = <<>>
  <2>1. Listed(list, c) = <<c>>
    BY <1>2 DEF Listed
  <2>2. /\ <<c>> \in Seq(Entries) /\ DOMAIN <<c>> = 1..1 /\ <<c>>[1] = c
        /\ ToSet(list) = {}
    BY <1>2 DEF ToSet
  <2>3. Sorted(<<c>>) /\ ToSet(<<c>>) = {c}
    BY <2>2 DEF Sorted, ToSet
  <2>4. QED
    BY <2>1, <2>2, <2>3
<1>3. CASE list # <<>>
  <2> DEFINE k == After(list, c)
  <2>1. n >= 1
    BY <1>1, <1>3
  <2>2. \E i \in 1..n : Here(i)
    <3> DEFINE Ends == {i \in 1..n : i = n \/ c.cmd <= list[i + 1].cmd}
    <3>1. Ends \in SUBSET Nat /\ n \in Ends
      BY <1>1, <2>1
    <3>2. PICK i \in Ends : \A j \in Ends : i <= j
      <4> HIDE DEF Ends
      <4>1. QED
        BY <3>1, Least
    <3>3. \A j \in 1..i-1 : c.cmd > list[j + 1].cmd
      <4>1. SUFFICES ASSUME NEW j \in 1..i-1 PROVE c.cmd > list[j + 1].cmd
        OBVIOUS
      <4>2. i \in 1..n
        OBVIOUS
      <4>3. j \in 1..n /\ j + 1 \in 1..n /\ ~(i <= j) /\ j # n
        <5>1. n \in Nat
          BY <1>1
        <5> HIDE DEF n, Ends
        <5>2. QED
          BY <4>2, <5>1
      <4>4. j \notin Ends
        <5> HIDE DEF Ends
        <5>1. QED
          BY <3>2, <4>3
      <4>5. ~(c.cmd <= list[j + 1].cmd)
        <5> HIDE DEF n
        <5>1. QED
          BY <4>3, <4>4
      <4>6. c.cmd \in Nat /\ list[j + 1].cmd \in Nat
        BY <1>1, <4>3
      <4>7. QED
        BY <4>5, <4>6
    <3>4. QED
      BY <3>2, <3>3
  <2>3. k = CHOOSE i \in 1..n : Here(i)
    BY <1>1 DEF After
  <2>4. k \in 1..n /\ Here(k)
    <3> HIDE DEF k, Here, n
    <3>1. QED
      BY <2>2, <2>3
  <2> HIDE DEF k
  <2>5. CASE k = 1 /\ c.cmd < list[1].cmd
    <3> DEFINE t == <<c>> \o list
    <3>1. Listed(list, c) = t
      BY <1>3, <2>5 DEF Listed, k
    <3>2. t \in Seq(Entries) /\ ToSet(t) = ToSet(list) \union {c}
      BY PrependFacts
    <3>3. DOMAIN t = 1..n+1 /\ t[1] = c /\ \A j \in 1..n : t[j + 1] = list[j]
      BY <1>1
    <3> HIDE DEF t
    <3>4. \A j \in 1..n : c.cmd < list[j].cmd
      <4>1. \A j \in 1..n : j = 1 \/ list[1].cmd < list[j].cmd
        BY <1>1, <2>1 DEF Sorted
      <4>2. 1 \in 1..n
        BY <1>1, <2>1
      <4>3. QED
        BY <1>1, <2>5, <4>1, <4>2
    <3>5. ASSUME NEW i \in 1..n+1, NEW j \in 1..n+1, i < j PROVE t[i].cmd < t[j].cmd
      <4>1. j - 1 \in 1..n /\ t[j] = list[j - 1]
        <5>1. j - 1 \in 1..n /\ (j - 1) + 1 = j
          BY <1>1, <3>5
        <5>2. QED
          BY <3>3, <5>1
      <4>2. CASE i = 1
        BY <3>3, <3>4, <4>1, <4>2
      <4>3. CASE i # 1
        <5>1. i - 1 \in 1..n /\ (i - 1) + 1 = i /\ i - 1 < j - 1
          BY <1>1, <3>5, <4>3
        <5>2. t[i] = list[i - 1]
          BY <3>3, <5>1
        <5>3. QED
          BY <1>1, <4>1, <5>1, <5>2 DEF Sorted
      <4>4. QED
        BY <4>2, <4>3
    <3>6. Sorted(t)
      BY <3>3, <3>5 DEF Sorted
    <3>7. QED
      BY <3>1, <3>2, <3>6
  <2>6. CASE ~(k = 1 /\ c.cmd < list[1].cmd)
    <3> DEFINE t == InsertAt(list, k + 1, c)
    <3>1. Listed(list, c) = t
      BY <1>3, <2>6 DEF Listed, k
    <3>2. k + 1 \in 1..n+1 /\ (k + 1) - 1 = k
      <4>1. n \in Nat /\ k \in 1..n
        BY <1>1, <2>4
      <4> HIDE DEF n
      <4>2. QED
        BY <4>1
    <3>3. /\ t \in Seq(Entries) /\ Len(t) = n + 1
          /\ \A j \in 1..(k+1)-1 : t[j] = list[j]
          /\ t[k + 1] = c
          /\ \A j \in (k+1)+1..n+1 : t[j] = list[j - 1]
      <4> DEFINE p == k + 1
      <4>1. p \in 1..Len(list)+1
        BY <3>2
      <4> HIDE DEF p, t
      <4>2. /\ InsertAt(list, p, c) \in Seq(Entries)
            /\ Len(InsertAt(list, p, c)) = Len(list) + 1
            /\ \A j \in 1..p-1 : InsertAt(list, p, c)[j] = list[j]
            /\ InsertAt(list, p, c)[p] = c
            /\ \A j \in p+1..Len(list)+1 : InsertAt(list, p, c)[j] = list[j - 1]
        BY <4>1, InsertAtFacts
      <4>3. t = InsertAt(list, p, c)
        BY DEF t, p
      <4>4. QED
        BY <4>2, <4>3, Zenon DEF p
    <3> HIDE DEF t, n
    <3>4. DOMAIN t = 1..n+1
      BY <3>3, LenProperties
    <3>5. \A j \in 1..k : t[j] = list[j] /\ j \in 1..n /\ list[j].cmd < c.cmd
      <4>1. \A j \in 1..k : j \in 1..n /\ j \in 1..(k+1)-1
        BY <1>1, <2>4
      <4>2. list[1].cmd < c.cmd
        <5>1. CASE k = 1
          BY <1>1, <2>4, <2>6, <5>1
        <5>2. CASE k # 1
          <6>1. 1 \in 1..k-1 /\ 1 \in 1..n /\ 1 + 1 \in 1..n /\ 1 < 1 + 1
            BY <1>1, <2>4, <5>2
          <6>2. c.cmd > list[1 + 1].cmd
            BY <2>4, <6>1
          <6>3. list[1].cmd < list[1 + 1].cmd
            BY <1>1, <6>1 DEF Sorted
          <6>4. QED
            BY <1>1, <6>1, <6>2, <6>3
        <5>3. QED
          BY <5>1, <5>2
      <4>3. ASSUME NEW j \in 1..k, j # 1 PROVE list[j].cmd < c.cmd
        <5>1. j - 1 \in 1..k-1 /\ (j - 1) + 1 = j
          BY <1>1, <2>4, <4>3
        <5>2. c.cmd > list[(j - 1) + 1].cmd
          BY <2>4, <5>1
        <5>3. QED
          BY <1>1, <4>1, <5>1, <5>2
      <4>4. QED
        BY <3>3, <4>1, <4>2, <4>3
    <3>6. \A j \in k+2..n+1 : t[j] = list[j - 1] /\ j - 1 \in 1..n /\ c.cmd < list[j - 1].cmd
      <4>1. SUFFICES ASSUME NEW j \in k+2..n+1
                     PROVE  t[j] = list[j - 1] /\ j - 1 \in 1..n /\ c.cmd < list[j - 1].cmd
        OBVIOUS
      <4>2. j \in k+1+1..n+1 /\ j - 1 \in 1..n /\ k + 1 \in 1..n /\ k # n /\ k + 1 <= j - 1
        BY <1>1, <2>4
      <4>3. c.cmd <= list[k + 1].cmd
        BY <2>4, <4>2
      <4>4. k + 1 = j - 1 \/ list[k + 1].cmd < list[j - 1].cmd
        <5>1. k + 1 = j - 1 \/ k + 1 < j - 1
          BY <1>1, <2>4, <4>2
        <5>2. QED
          BY <1>1, <4>2, <5>1 DEF Sorted
      <4>5. list[k + 1].cmd \in Nat /\ list[j - 1].cmd \in Nat /\ list[k + 1].cmd # c.cmd
        BY <1>1, <4>2
      <4>6. c.cmd < list[j - 1].cmd
        <5>1. c.cmd < list[k + 1].cmd
          BY <1>1, <4>3, <4>5
        <5>2. QED
          BY <1>1, <4>4, <4>5, <5>1
      <4>7. QED
        BY <3>3, <4>2, <4>6
    <3>7. \A j \in 1..n+1 : j \in 1..k \/ j = k + 1 \/ j \in k+2..n+1
      BY <1>1, <2>4
    <3>8. ASSUME NEW i \in 1..n+1, NEW j \in 1..n+1, i < j PROVE t[i].cmd < t[j].cmd
      <4>1. k \in Nat
        BY <1>1, <2>4
      <4>2. CASE j \in 1..k
        <5>1. i \in 1..k
          BY <3>8, <4>1, <4>2
        <5>2. QED
          BY <1>1, <3>5, <3>8, <4>2, <5>1 DEF Sorted
      <4>3. CASE j = k + 1
        <5>1. i \in 1..k
          BY <3>8, <4>1, <4>3
        <5>2. QED
          BY <3>3, <3>5, <4>3, <5>1
      <4>4. CASE j \in k+2..n+1
        <5>1. CASE i \in 1..k
          <6>1. i \in 1..n /\ j - 1 \in 1..n /\ i < j - 1
            BY <1>1, <3>5, <3>6, <4>1, <4>4, <5>1
          <6>2. QED
            BY <1>1, <3>5, <3>6, <4>4, <5>1, <6>1 DEF Sorted
        <5>2. CASE i = k + 1
          BY <3>3, <3>6, <4>4, <5>2
        <5>3. CASE i \in k+2..n+1
          <6>1. i - 1 \in 1..n /\ j - 1 \in 1..n /\ i - 1 < j - 1
            BY <1>1, <3>6, <3>8, <4>1, <4>4, <5>3
          <6>2. QED
            BY <1>1, <3>6, <4>4, <5>3, <6>1 DEF Sorted
        <5>4. QED
          BY <3>7, <5>1, <5>2, <5>3
      <4>5. QED
        BY <3>7, <4>2, <4>3, <4>4
    <3>9. Sorted(t)
      BY <3>4, <3>8 DEF Sorted
    <3>10. ToSet(t) = ToSet(list) \union {c}
      <4>1. \A y : y \in ToSet(t) <=> \E j \in 1..n+1 : t[j] = y
        BY <3>4 DEF ToSet
      <4>2. \A y : y \in ToSet(list) <=> \E j \in 1..n : list[j] = y
        BY <1>1 DEF ToSet
      <4>3. \A j \in 1..n+1 : t[j] \in ToSet(list) \/ t[j] = c
        BY <3>3, <3>5, <3>6, <3>7, <4>2
      <4>4. c \in ToSet(t)
        BY <3>2, <3>3, <4>1
      <4>5. ASSUME NEW j \in 1..n PROVE list[j] \in ToSet(t)
        <5>1. CASE j \in 1..k
          <6>1. j \in 1..n+1
            BY <1>1
          <6>2. QED
            BY <3>5, <4>1, <5>1, <6>1
        <5>2. CASE j \notin 1..k
          <6>1. j + 1 \in k+2..n+1 /\ j + 1 \in 1..n+1 /\ (j + 1) - 1 = j
            BY <1>1, <2>4, <5>2
          <6>2. t[j + 1] = list[j]
            BY <3>6, <6>1
          <6>3. QED
            BY <4>1, <6>1, <6>2
        <5>3. QED
          BY <5>1, <5>2
      <4>6. QED
        BY <4>1, <4>2, <4>3, <4>4, <4>5
    <3>11. QED
      BY <3>1, <3>3, <3>9, <3>10
  <2>7. QED
    BY <2>5, <2>6
<1>4. QED
  BY <1>2, <1>3

(* check_user_msg_events                                                   *)
LEMMA HandlersForFacts ==
  ASSUME NEW list \in Seq(MsgHandlers), NEW msg
  PROVE  /\ \/ HandlersFor(list, msg) = <<>>
            \/ \E h \in ToSet(list) : HandlersFor(list, msg) = <<h>>
         /\ \A h \in ToSet(list) : h.msg = msg =>
              \E g \in ToSet(list) : g.msg = msg /\ HandlersFor(list, msg) = <<g>>
<1> DEFINE n == Len(list)
           I == {i \in 1..n : list[i].msg = msg}
           J == {i \in 1..n : list[i].msg = AnyMsg}
           first == IF I # {} THEN Min(I) ELSE 0
           last == IF J # {} THEN Max(J) ELSE 0
<1>1. /\ n \in Nat /\ DOMAIN list = 1..n
      /\ \A i \in 1..n : list[i] \in ToSet(list)
      /\ \A h \in ToSet(list) : \E i \in 1..n : list[i] = h
  BY LenProperties DEF ToSet
<1>2. HandlersFor(list, msg) = IF first # 0 THEN <<list[first]>>
                               ELSE IF last # 0 THEN <<list[last]>> ELSE <<>>
  BY Zenon DEF HandlersFor, SelectInSeq, SelectLastInSeq
<1>3. I # {} => first \in I
  <2>1. I \in SUBSET Nat /\ (I # {} => Min(I) = CHOOSE x \in I : \A y \in I : x <= y)
    BY DEF Min
  <2>2. I # {} => \E x \in I : \A y \in I : x <= y
    <3> HIDE DEF I
    <3>1. QED
      BY <2>1, Least
  <2> HIDE DEF I
  <2>3. QED
    BY <2>1, <2>2
<1>4. J # {} => last \in J
  <2> DEFINE K == {n - j : j \in J}
  <2>1. J \in SUBSET (1..n) /\ (J # {} => Max(J) = CHOOSE x \in J : \A y \in J : x >= y)
    BY DEF Max
  <2>2. J # {} => \E x \in J : \A y \in J : x >= y
    <3> HIDE DEF J
    <3>1. SUFFICES ASSUME J # {} PROVE \E x \in J : \A y \in J : x >= y
      OBVIOUS
    <3>2. K \in SUBSET Nat /\ K # {}
      <4>1. \A j \in 1..n : n - j \in Nat
        BY <1>1
      <4> HIDE DEF n
      <4>2. QED
        BY <2>1, <3>1, <4>1
    <3> HIDE DEF K
    <3>3. PICK m \in K : \A k \in K : m <= k
      BY <3>2, Least
    <3>4. PICK x \in J : m = n - x
      BY DEF K
    <3>5. \A y \in J : n - y \in K
      BY DEF K
    <3>6. \A y \in J : x >= y
      BY <1>1, <2>1, <3>3, <3>4, <3>5
    <3>7. QED
      BY <3>6
  <2> HIDE DEF J
  <2>3. QED
    BY <2>1, <2>2
<1>5. 0 \notin I /\ 0 \notin J /\ I \subseteq 1..n /\ J \subseteq 1..n
  OBVIOUS
<1>6. \A i \in I : list[i].msg = msg
  OBVIOUS
<1>7. \A i \in 1..n : list[i].msg = msg => i \in I
  OBVIOUS
<1> HIDE DEF n, I, J
<1>8. QED
  BY <1>1, <1>2, <1>3, <1>4, <1>5, <1>6, <1>7

-----------------------------------------------------------------------------
(* What the modules promise each other                                     *)

LEMMA CommandFacts ==
  ASSUME NEW m \in Modules, NEW c \in Commands(m)
  PROVE  \/ m = "ns_group"     /\ c = [to |-> "nickserv", cmd |-> 1, answers |-> TRUE]
         \/ m = "cs_akick"     /\ c = [to |-> "chanserv", cmd |-> 1, answers |-> TRUE]
         \/ m = "cs_role"      /\ c = [to |-> "chanserv", cmd |-> 0, answers |-> FALSE]
         \/ m = "cs_role"      /\ c = [to |-> "chanserv", cmd |-> 2, answers |-> TRUE]
         \/ m = "os_module"    /\ c = [to |-> "operserv", cmd |-> 1, answers |-> TRUE]
         \/ m = "sessionlimit" /\ c = [to |-> "operserv", cmd |-> 2, answers |-> TRUE]
         \/ m = "os_uevent"    /\ c = [to |-> "operserv", cmd |-> 3, answers |-> TRUE]
         \/ m = "os_uevent"    /\ c = [to |-> "operserv", cmd |-> 4, answers |-> FALSE]
<1>1. CASE m = "cs_role"
  BY <1>1 DEF Commands
<1>2. CASE m = "os_uevent"
  BY <1>2 DEF Commands
<1>3. CASE m \notin {"cs_role", "os_uevent"}
  <2>1. m \in {"ns_group", "cs_akick", "os_module", "sessionlimit"}
    BY <1>3, ModulesNames DEF Commands
  <2>2. QED
    BY <2>1 DEF Commands
<1>4. QED
  BY <1>1, <1>2, <1>3

(* Whose command a number is                                               *)
LEMMA CommandNumbers ==
  ASSUME NEW m \in Modules, NEW c \in Commands(m)
  PROVE  /\ c.to \in Services /\ c.to # m /\ c.cmd \in Nat /\ c.cmd # AnyMsg
         /\ m \notin Services
         /\ <<m, c.to, c.cmd>> \in
              {<<"ns_group", "nickserv", 1>>, <<"cs_akick", "chanserv", 1>>,
               <<"cs_role", "chanserv", 0>>, <<"cs_role", "chanserv", 2>>,
               <<"os_module", "operserv", 1>>, <<"sessionlimit", "operserv", 2>>,
               <<"os_uevent", "operserv", 3>>, <<"os_uevent", "operserv", 4>>}
<1>1. CASE m \in {"ns_group", "cs_akick", "cs_role"}
  BY <1>1, CommandFacts DEF Services, AnyMsg
<1>2. CASE m \notin {"ns_group", "cs_akick", "cs_role"}
  BY <1>2, CommandFacts DEF Services, AnyMsg
<1>3. QED
  BY <1>1, <1>2

LEMMA CommandOwner ==
  ASSUME NEW m \in Modules, NEW c \in Commands(m), NEW x \in Modules, NEW d \in Commands(x),
         c.to = d.to, c.cmd = d.cmd
  PROVE  m = x /\ c = d
<1> DEFINE to == c.to
           cmd == c.cmd
<1>1. /\ <<m, to, cmd>> \in
           {<<"ns_group", "nickserv", 1>>, <<"cs_akick", "chanserv", 1>>,
            <<"cs_role", "chanserv", 0>>, <<"cs_role", "chanserv", 2>>,
            <<"os_module", "operserv", 1>>, <<"sessionlimit", "operserv", 2>>,
            <<"os_uevent", "operserv", 3>>, <<"os_uevent", "operserv", 4>>}
      /\ <<x, to, cmd>> \in
           {<<"ns_group", "nickserv", 1>>, <<"cs_akick", "chanserv", 1>>,
            <<"cs_role", "chanserv", 0>>, <<"cs_role", "chanserv", 2>>,
            <<"os_module", "operserv", 1>>, <<"sessionlimit", "operserv", 2>>,
            <<"os_uevent", "operserv", 3>>, <<"os_uevent", "operserv", 4>>}
  BY CommandNumbers
<1> HIDE DEF to, cmd
<1>2. m = x
  BY <1>1
<1>3. \A e, f \in Commands(m) : e.cmd = f.cmd => e = f
  <2>1. CASE m = "cs_role"
    <3> DEFINE a == [to |-> "chanserv", cmd |-> 0, answers |-> FALSE]
               b == [to |-> "chanserv", cmd |-> 2, answers |-> TRUE]
    <3>1. Commands(m) = {a, b}
      BY <2>1 DEF Commands
    <3>2. a.cmd = 0 /\ b.cmd = 2
      OBVIOUS
    <3> HIDE DEF a, b
    <3>3. QED
      BY <3>1, <3>2
  <2>2. CASE m = "os_uevent"
    <3> DEFINE a == [to |-> "operserv", cmd |-> 3, answers |-> TRUE]
               b == [to |-> "operserv", cmd |-> 4, answers |-> FALSE]
    <3>1. Commands(m) = {a, b}
      BY <2>2 DEF Commands
    <3>2. a.cmd = 3 /\ b.cmd = 4
      OBVIOUS
    <3> HIDE DEF a, b
    <3>3. QED
      BY <3>1, <3>2
  <2>3. CASE m \notin {"cs_role", "os_uevent"}
    <3>1. Commands(m) = {} \/ \E e : Commands(m) = {e}
      BY <2>3, ModulesNames DEF Commands
    <3>2. QED
      BY <3>1
  <2>4. QED
    BY <2>1, <2>2, <2>3
<1>4. QED
  BY <1>2, <1>3 DEF cmd

(* A module with commands to a service, or in its file, requires it.       *)
SuserOf(s) ==
  CASE s = "nickserv" -> "nickserv_suser" [] s = "chanserv" -> "chanserv_suser"
    [] s = "operserv" -> "operserv_suser" [] OTHER -> "botserv_suser"

LEMMA SuserFacts ==
  ASSUME NEW s \in Services
  PROVE  s \in Modules /\ SuserOf(s) \in Provides(s) \ Events /\ SuserOf(s) \in Functions
<1>1. s \in Modules /\ SuserOf(s) \in Provides(s) \ Events
  BY ModulesNames DEF Services, SuserOf, Provides, Events
<1>2. QED
  BY <1>1 DEF Functions

LEMMA SuserRequired ==
  /\ \A m \in Modules : \A c \in Commands(m) : SuserOf(c.to) \in ToSet(Requires[m])
  /\ \A s \in Modules : \A m \in ToSet(ModulesFile(s)) :
       s \in Services /\ m \in Modules /\ m \notin Services /\ SuserOf(s) \in ToSet(Requires[m])
<1> DEFINE Needs(m, f) == f \in ToSet(Requires[m])
<1>1. \A a : a \in ToSet(<<a>>)
  BY DEF ToSet
<1>2. \A a, b : a \in ToSet(<<a, b>>) /\ b \in ToSet(<<a, b>>)
  <2>1. \A a, b : DOMAIN <<a, b>> = 1..2 /\ <<a, b>>[1] = a /\ <<a, b>>[2] = b
    OBVIOUS
  <2>2. QED
    BY <2>1 DEF ToSet
<1>3. \A a, b, c : a \in ToSet(<<a, b, c>>) /\ b \in ToSet(<<a, b, c>>) /\ c \in ToSet(<<a, b, c>>)
  <2>1. \A a, b, c : DOMAIN <<a, b, c>> = 1..3 /\ <<a, b, c>>[1] = a /\ <<a, b, c>>[2] = b
                     /\ <<a, b, c>>[3] = c
    OBVIOUS
  <2>2. QED
    BY <2>1 DEF ToSet
<1>4. /\ Requires["ns_group"] = <<"nickserv_suser", "e_nick_identify">>
      /\ Requires["cs_role"] = <<"chanserv_suser", "e_regchan_join", "e_nick_identify">>
      /\ Requires["cs_akick"] = <<"role_with_permission", "chanserv_suser", "e_regchan_join">>
      /\ Requires["bs_g_kick"] = <<"botserv_suser", "chanserv_suser", "role_with_permission">>
      /\ Requires["os_module"] = <<"operserv_suser", "is_sroot">>
      /\ Requires["os_uevent"] = <<"operserv_suser", "is_sadmin", "e_nick_identify">>
      /\ Requires["sessionlimit"] = <<"operserv_suser", "is_soper", "is_sadmin">>
  BY DEF Requires
<1>5. /\ Needs("ns_group", "nickserv_suser")
      /\ Needs("cs_role", "chanserv_suser") /\ Needs("cs_akick", "chanserv_suser")
      /\ Needs("bs_g_kick", "botserv_suser")
      /\ Needs("os_module", "operserv_suser") /\ Needs("os_uevent", "operserv_suser")
      /\ Needs("sessionlimit", "operserv_suser")
  BY <1>1, <1>2, <1>3, <1>4, Zenon
<1> HIDE DEF Needs
<1>6. ASSUME NEW m \in Modules, NEW c \in Commands(m) PROVE Needs(m, SuserOf(c.to))
  BY <1>5, CommandNumbers DEF SuserOf
<1>7. ASSUME NEW s \in Modules, NEW m \in ToSet(ModulesFile(s))
      PROVE  s \in Services /\ m \in Modules /\ m \notin Services /\ Needs(m, SuserOf(s))
  <2>1. \A a : ToSet(<<a>>) = {a}
    BY DEF ToSet
  <2>2. \A a, b : ToSet(<<a, b>>) = {a, b}
    <3>1. \A a, b : DOMAIN <<a, b>> = 1..2 /\ <<a, b>>[1] = a /\ <<a, b>>[2] = b
      OBVIOUS
    <3>2. QED
      BY <3>1 DEF ToSet
  <2>3. \A a, b, c : ToSet(<<a, b, c>>) = {a, b, c}
    <3>1. \A a, b, c : DOMAIN <<a, b, c>> = 1..3 /\ <<a, b, c>>[1] = a /\ <<a, b, c>>[2] = b
                       /\ <<a, b, c>>[3] = c
      OBVIOUS
    <3>2. QED
      BY <3>1 DEF ToSet
  <2>4. ToSet(<<>>) = {}
    BY DEF ToSet
  <2>5. \/ s = "nickserv" /\ m = "ns_group"
        \/ s = "chanserv" /\ m \in {"cs_role", "cs_akick"}
        \/ s = "operserv" /\ m \in {"os_module", "os_uevent", "sessionlimit"}
        \/ s = "botserv" /\ m = "bs_g_kick"
    <3>1. CASE s = "nickserv"
      BY <2>1, <3>1 DEF ModulesFile
    <3>2. CASE s = "chanserv"
      BY <2>2, <3>2 DEF ModulesFile
    <3>3. CASE s = "operserv"
      BY <2>3, <3>3 DEF ModulesFile
    <3>4. CASE s = "botserv"
      BY <2>1, <3>4 DEF ModulesFile
    <3>5. CASE s \notin {"nickserv", "chanserv", "operserv", "botserv"}
      <4>1. ModulesFile(s) = <<>>
        BY <3>5, ModulesNames DEF ModulesFile
      <4>2. QED
        BY <2>4, <4>1
    <3>6. QED
      BY <3>1, <3>2, <3>3, <3>4, <3>5
  <2>6. QED
    BY <1>5, <2>5, ModulesNames DEF Services, SuserOf
<1>8. QED
  BY <1>6, <1>7 DEF Needs

LEMMA FileOnce ==
  /\ \A s : Once(ModulesFile(s))
  /\ \A s, t \in Modules : s # t => ToSet(ModulesFile(s)) \intersect ToSet(ModulesFile(t)) = {}
<1>1. ASSUME NEW s PROVE Once(ModulesFile(s))
  <2>1. Once(<<>>) /\ \A a : Once(<<a>>)
    BY DEF Once
  <2>2. \A a, b : a # b => Once(<<a, b>>)
    <3>1. \A a, b : DOMAIN <<a, b>> = 1..2 /\ <<a, b>>[1] = a /\ <<a, b>>[2] = b
      OBVIOUS
    <3>2. QED
      BY <3>1 DEF Once
  <2>3. \A a, b, c : a # b /\ a # c /\ b # c => Once(<<a, b, c>>)
    <3>1. \A a, b, c : DOMAIN <<a, b, c>> = 1..3 /\ <<a, b, c>>[1] = a /\ <<a, b, c>>[2] = b
                       /\ <<a, b, c>>[3] = c
      OBVIOUS
    <3>2. QED
      BY <3>1 DEF Once
  <2>4. Once(<<"nickserv", "chanserv", "operserv", "botserv">>)
    <3> DEFINE w == <<"nickserv", "chanserv", "operserv", "botserv">>
    <3>1. DOMAIN w = 1..4 /\ w[1] = "nickserv" /\ w[2] = "chanserv" /\ w[3] = "operserv"
          /\ w[4] = "botserv"
      OBVIOUS
    <3> HIDE DEF w
    <3>2. QED
      BY <3>1 DEF Once, w
  <2>5. QED
    BY <2>1, <2>2, <2>3, <2>4 DEF ModulesFile
<1>2. ASSUME NEW s \in Modules, NEW t \in Modules, NEW m \in ToSet(ModulesFile(s)),
             m \in ToSet(ModulesFile(t))
      PROVE  s = t
  <2>1. \A a : ToSet(<<a>>) = {a}
    BY DEF ToSet
  <2>2. \A a, b : ToSet(<<a, b>>) = {a, b}
    <3>1. \A a, b : DOMAIN <<a, b>> = 1..2 /\ <<a, b>>[1] = a /\ <<a, b>>[2] = b
      OBVIOUS
    <3>2. QED
      BY <3>1 DEF ToSet
  <2>3. \A a, b, c : ToSet(<<a, b, c>>) = {a, b, c}
    <3>1. \A a, b, c : DOMAIN <<a, b, c>> = 1..3 /\ <<a, b, c>>[1] = a /\ <<a, b, c>>[2] = b
                       /\ <<a, b, c>>[3] = c
      OBVIOUS
    <3>2. QED
      BY <3>1 DEF ToSet
  <2>4. /\ ToSet(ModulesFile("nickserv")) = {"ns_group"}
        /\ ToSet(ModulesFile("chanserv")) = {"cs_role", "cs_akick"}
        /\ ToSet(ModulesFile("operserv")) = {"os_module", "os_uevent", "sessionlimit"}
        /\ ToSet(ModulesFile("botserv")) = {"bs_g_kick"}
    <3>1. /\ ModulesFile("nickserv") = <<"ns_group">>
          /\ ModulesFile("chanserv") = <<"cs_role", "cs_akick">>
          /\ ModulesFile("operserv") = <<"os_module", "os_uevent", "sessionlimit">>
          /\ ModulesFile("botserv") = <<"bs_g_kick">>
      BY DEF ModulesFile
    <3>2. ToSet(ModulesFile("nickserv")) = {"ns_group"} /\ ToSet(ModulesFile("botserv")) = {"bs_g_kick"}
      BY <2>1, <3>1
    <3>3. ToSet(ModulesFile("chanserv")) = {"cs_role", "cs_akick"}
      BY <2>2, <3>1
    <3>4. ToSet(ModulesFile("operserv")) = {"os_module", "os_uevent", "sessionlimit"}
      BY <2>3, <3>1
    <3>5. QED
      BY <3>2, <3>3, <3>4
  <2>5. s \in Services /\ t \in Services
    BY <1>2, SuserRequired
  <2>6. QED
    BY <1>2, <2>4, <2>5 DEF Services
<1>3. QED
  BY <1>1, <1>2

LEMMA ProvidesDisjoint ==
  ASSUME NEW m \in Modules, NEW x \in Modules, NEW f \in Provides(m), f \in Provides(x)
  PROVE  m = x
<1>1. <<m, f>> \in {<<"nickserv", "nickserv_suser">>, <<"nickserv", "e_nick_identify">>,
                    <<"nickserv", "e_nick_delete">>, <<"ns_group", "is_sadmin">>,
                    <<"ns_group", "is_sroot">>, <<"ns_group", "is_soper">>,
                    <<"chanserv", "chanserv_suser">>, <<"chanserv", "e_regchan_join">>,
                    <<"cs_role", "role_with_permission">>, <<"operserv", "operserv_suser">>,
                    <<"botserv", "botserv_suser">>}
  BY ModulesNames DEF Provides
<1>2. <<x, f>> \in {<<"nickserv", "nickserv_suser">>, <<"nickserv", "e_nick_identify">>,
                    <<"nickserv", "e_nick_delete">>, <<"ns_group", "is_sadmin">>,
                    <<"ns_group", "is_sroot">>, <<"ns_group", "is_soper">>,
                    <<"chanserv", "chanserv_suser">>, <<"chanserv", "e_regchan_join">>,
                    <<"cs_role", "role_with_permission">>, <<"operserv", "operserv_suser">>,
                    <<"botserv", "botserv_suser">>}
  BY ModulesNames DEF Provides
<1>3. QED
  BY <1>1, <1>2

-----------------------------------------------------------------------------
(* What the lists hold for the modules that are loaded                     *)

AttendsOf(mods, l) == {m \in mods : l \in Adds(m)}

AnswersOf(mods, s) ==
  {h \in MsgHandlers : h.owner \in mods /\
     \/ h.owner = s /\ h.msg = AnyMsg
     \/ \E c \in Commands(h.owner) : c.to = s /\ c.answers /\ h.msg = c.cmd}

ShownOf(mods, s) ==
  {e \in Entries : e.owner \in mods /\ \E c \in Commands(e.owner) : c.to = s /\ e.cmd = c.cmd}

KicksOf(mods) == {h \in MsgHandlers : h.owner \in mods /\ Triggers(h.owner) /\ h.msg = KickTrigger}

(* A service is loaded when a module with commands to it is.               *)
Served(mods) == \A x \in mods : \A c \in Commands(x) : c.to \in mods

Handled(list, mods, s) ==
  list \in Seq(MsgHandlers) /\ Once(list) /\ ToSet(list) = AnswersOf(mods, s)

Helped(list, mods, s) ==
  list \in Seq(Entries) /\ Sorted(list) /\ ToSet(list) = ShownOf(mods, s)

Attended(list, mods, l) ==
  list \in Seq(Modules) /\ Once(list) /\ ToSet(list) = AttendsOf(mods, l)

Kicked(list, mods) ==
  list \in Seq(MsgHandlers) /\ Once(list) /\ ToSet(list) = KicksOf(mods)

LEMMA EntryFacts ==
  ASSUME NEW m \in Modules, NEW c \in Commands(m)
  PROVE  /\ Entry(m, c) \in Entries /\ Entry(m, c).cmd = c.cmd /\ Entry(m, c).owner = m
         /\ HandlerOf(m, c) \in MsgHandlers
         /\ HandlerOf(m, c).msg = c.cmd /\ HandlerOf(m, c).owner = m
BY CommandNumbers DEF Entry, HandlerOf, Entries, MsgHandlers

LEMMA Fields ==
  /\ \A h, g \in MsgHandlers : h.msg = g.msg /\ h.owner = g.owner => h = g
  /\ \A e, f \in Entries : e.cmd = f.cmd /\ e.owner = f.owner => e = f
BY DEF MsgHandlers, Entries

(* Commands of m are added.                                                *)
LEMMA HandlersHandled ==
  ASSUME NEW mods \in SUBSET Modules, NEW m \in Modules \ mods, NEW s \in Services, s # m,
         NEW list, Handled(list, mods, s)
  PROVE  Handled(FoldLeft(LAMBDA z, c : IF c.answers THEN AddUMsgEvent(z, HandlerOf(m, c)) ELSE z,
                          list, CommandsTo(m, s)),
                 mods \union {m}, s)
<1> DEFINE q == CommandsTo(m, s)
           C == CommandSet(m, s)
           Added(z, c) == HandlerAdded(m, z, c)
           New(z, D) == /\ z \in Seq(MsgHandlers) /\ Once(z)
                        /\ ToSet(z) = ToSet(list) \union {HandlerOf(m, d) : d \in {d \in D : d.answers}}
<1>1. q \in Seq(C) /\ ToSet(q) = C /\ Len(q) \in 0..2 /\ Once(q) /\ DOMAIN q = 1..Len(q)
  BY CommandsToFacts, LenProperties
<1>2. \A c \in C : /\ c \in Commands(m) /\ c.to = s
                   /\ HandlerOf(m, c) \in MsgHandlers /\ HandlerOf(m, c).owner = m
                   /\ HandlerOf(m, c).msg = c.cmd /\ c.cmd # AnyMsg
  BY EntryFacts, CommandNumbers DEF CommandSet
<1>3. \A h \in ToSet(list) : h.owner # m
  BY DEF Handled, AnswersOf
<1>4. ASSUME NEW D \in SUBSET C, NEW c \in C \ D, NEW z, New(z, D)
      PROVE  New(Added(z, c), D \union {c})
  <2>1. CASE ~c.answers
    BY <1>4, <2>1 DEF HandlerAdded
  <2>2. CASE c.answers
    <3> DEFINE h == HandlerOf(m, c)
    <3>1. Added(z, c) = <<h>> \o z
      BY <1>2, <2>2 DEF HandlerAdded, AddUMsgEvent
    <3>2. h \in MsgHandlers /\ h \notin ToSet(list)
      BY <1>2, <1>3
    <3>3. \A d \in D : HandlerOf(m, d) # h
      <4>1. \A d \in D : d \in Commands(m) /\ d.to = c.to /\ d # c
        BY <1>2
      <4>2. \A d \in D : d.cmd # c.cmd
        BY <1>2, <4>1, CommandOwner
      <4>3. QED
        BY <1>2, <4>2
    <3>4. h \notin ToSet(z)
      BY <1>4, <3>2, <3>3
    <3>5. /\ <<h>> \o z \in Seq(MsgHandlers) /\ Once(<<h>> \o z)
          /\ ToSet(<<h>> \o z) = ToSet(z) \union {h}
      BY <1>4, <3>2, <3>4, PrependFacts
    <3>6. {HandlerOf(m, d) : d \in {d \in D \union {c} : d.answers}} =
          {HandlerOf(m, d) : d \in {d \in D : d.answers}} \union {h}
      BY <2>2
    <3> HIDE DEF h, Added
    <3>7. QED
      BY <1>4, <3>1, <3>5, <3>6
  <2>3. QED
    BY <2>1, <2>2
<1>5. New(list, {})
  BY DEF Handled
<1> DEFINE F == FoldLeft(LAMBDA z, c : IF c.answers THEN AddUMsgEvent(z, HandlerOf(m, c)) ELSE z,
                         list, CommandsTo(m, s))
<1>6. /\ Len(q) = 0 => F = list
      /\ Len(q) = 1 => F = Added(list, q[1])
      /\ Len(q) = 2 => F = Added(Added(list, q[1]), q[2])
  BY <1>1, AddedFolded, Zenon
<1> HIDE DEF New, Added, F, q, C
<1>7. New(F, C)
  <2>1. CASE Len(q) = 0
    <3>1. C = {}
      BY <1>1, <2>1 DEF ToSet
    <3>2. QED
      BY <1>5, <1>6, <2>1, <3>1
  <2>2. CASE Len(q) = 1
    <3>1. C = {q[1]} /\ q[1] \in C \ {} /\ {} \in SUBSET C /\ {} \union {q[1]} = C
      BY <1>1, <2>2 DEF ToSet
    <3>2. New(Added(list, q[1]), {} \union {q[1]})
      BY <1>4, <1>5, <3>1
    <3>3. QED
      BY <1>6, <2>2, <3>1, <3>2
  <2>3. CASE Len(q) = 2
    <3>1. C = {q[1], q[2]} /\ q[1] # q[2]
      <4>1. DOMAIN q = 1..2 /\ 1 \in 1..2 /\ 2 \in 1..2
        BY <1>1, <2>3
      <4>2. C = {q[1], q[2]}
        BY <1>1, <4>1 DEF ToSet
      <4>3. QED
        BY <1>1, <4>1, <4>2 DEF Once
    <3>2. {} \in SUBSET C /\ q[1] \in C \ {} /\ {q[1]} \in SUBSET C /\ q[2] \in C \ {q[1]}
          /\ {} \union {q[1]} = {q[1]} /\ {q[1]} \union {q[2]} = C
      BY <3>1
    <3>3. New(Added(list, q[1]), {q[1]})
      <4>1. New(Added(list, q[1]), {} \union {q[1]})
        BY <1>4, <1>5, <3>2
      <4>2. QED
        BY <3>2, <4>1
    <3>4. New(Added(Added(list, q[1]), q[2]), {q[1]} \union {q[2]})
      BY <1>4, <3>2, <3>3
    <3>5. QED
      BY <1>6, <2>3, <3>2, <3>4
  <2>4. QED
    BY <1>1, <2>1, <2>2, <2>3
<1>8. AnswersOf(mods \union {m}, s) =
      AnswersOf(mods, s) \union {HandlerOf(m, d) : d \in {d \in C : d.answers}}
  <2> DEFINE A == AnswersOf(mods \union {m}, s)
  <2>1. \A h \in AnswersOf(mods, s) : h \in A
    BY DEF AnswersOf
  <2>2. ASSUME NEW d \in C, d.answers PROVE HandlerOf(m, d) \in A
    BY <1>2, <2>2 DEF AnswersOf
  <2>3. ASSUME NEW h \in A, h \notin AnswersOf(mods, s)
        PROVE  \E d \in C : d.answers /\ h = HandlerOf(m, d)
    <3>1. h.owner = m /\ h \in MsgHandlers /\ h.owner # s
      BY <2>3 DEF AnswersOf
    <3>2. PICK c \in Commands(m) : c.to = s /\ c.answers /\ h.msg = c.cmd
      BY <2>3, <3>1 DEF AnswersOf
    <3>3. c \in C
      BY <3>2 DEF C, CommandSet
    <3>4. HandlerOf(m, c) \in MsgHandlers /\ HandlerOf(m, c).owner = m /\ HandlerOf(m, c).msg = c.cmd
      BY <1>2, <3>3
    <3>5. h = HandlerOf(m, c)
      BY <3>1, <3>2, <3>4, Fields
    <3>6. QED
      BY <3>2, <3>3, <3>5
  <2> HIDE DEF A
  <2>4. QED
    BY <2>1, <2>2, <2>3 DEF A
<1>9. QED
  BY <1>7, <1>8 DEF Handled, New, F

LEMMA EntriesHelped ==
  ASSUME NEW mods \in SUBSET Modules, NEW m \in Modules \ mods, NEW s \in Services,
         NEW list, Helped(list, mods, s)
  PROVE  Helped(FoldLeft(LAMBDA z, c : Listed(z, Entry(m, c)), list, CommandsTo(m, s)),
                mods \union {m}, s)
<1> DEFINE q == CommandsTo(m, s)
           C == CommandSet(m, s)
           Added(z, c) == ListedOf(m, z, c)
           New(z, D) == /\ z \in Seq(Entries) /\ Sorted(z)
                        /\ ToSet(z) = ToSet(list) \union {Entry(m, d) : d \in D}
<1>1. q \in Seq(C) /\ ToSet(q) = C /\ Len(q) \in 0..2 /\ Once(q) /\ DOMAIN q = 1..Len(q)
  BY CommandsToFacts, LenProperties
<1>2. \A c \in C : /\ c \in Commands(m) /\ c.to = s
                   /\ Entry(m, c) \in Entries /\ Entry(m, c).owner = m /\ Entry(m, c).cmd = c.cmd
  BY EntryFacts DEF CommandSet
<1>3. \A e \in ToSet(list) : \A c \in C : e.cmd # c.cmd
  <2>1. SUFFICES ASSUME NEW e \in ToSet(list), NEW c \in C, e.cmd = c.cmd PROVE FALSE
    OBVIOUS
  <2>2. e.owner \in mods /\ e.owner \in Modules /\ e.owner # m
    BY DEF Helped, ShownOf
  <2>3. PICK d \in Commands(e.owner) : d.to = s /\ e.cmd = d.cmd
    BY DEF Helped, ShownOf
  <2>4. c \in Commands(m) /\ c.to = d.to /\ c.cmd = d.cmd
    BY <1>2, <2>1, <2>3
  <2>5. QED
    BY <2>2, <2>3, <2>4, CommandOwner
<1>4. ASSUME NEW D \in SUBSET C, NEW c \in C \ D, NEW z, New(z, D)
      PROVE  New(Added(z, c), D \union {c})
  <2> DEFINE h == Entry(m, c)
  <2>1. h \in Entries /\ h.cmd = c.cmd
    BY <1>2
  <2>2. \A d \in D : d.cmd # c.cmd
    <3>1. \A d \in D : d \in Commands(m) /\ d.to = c.to /\ d # c
      BY <1>2
    <3>2. QED
      BY <1>2, <3>1, CommandOwner
  <2>3. \A e \in ToSet(z) : e.cmd # h.cmd
    <3>1. \A d \in D : Entry(m, d).cmd = d.cmd
      BY <1>2
    <3>2. QED
      BY <1>3, <1>4, <2>1, <2>2, <3>1
  <2>4. /\ Listed(z, h) \in Seq(Entries) /\ Sorted(Listed(z, h))
        /\ ToSet(Listed(z, h)) = ToSet(z) \union {h}
    BY <1>4, <2>1, <2>3, ListedFacts
  <2>5. {Entry(m, d) : d \in D \union {c}} = {Entry(m, d) : d \in D} \union {h}
    OBVIOUS
  <2>6. Added(z, c) = Listed(z, h)
    BY DEF ListedOf
  <2> HIDE DEF h, Added
  <2>7. QED
    BY <1>4, <2>4, <2>5, <2>6
<1>5. New(list, {})
  BY DEF Helped
<1> DEFINE F == FoldLeft(LAMBDA z, c : Listed(z, Entry(m, c)), list, CommandsTo(m, s))
<1>6. /\ Len(q) = 0 => F = list
      /\ Len(q) = 1 => F = Added(list, q[1])
      /\ Len(q) = 2 => F = Added(Added(list, q[1]), q[2])
  BY <1>1, ListedFolded, Zenon
<1> HIDE DEF New, Added, F, q, C
<1>7. New(F, C)
  <2>1. CASE Len(q) = 0
    <3>1. C = {}
      BY <1>1, <2>1 DEF ToSet
    <3>2. QED
      BY <1>5, <1>6, <2>1, <3>1
  <2>2. CASE Len(q) = 1
    <3>1. C = {q[1]} /\ q[1] \in C \ {} /\ {} \in SUBSET C /\ {} \union {q[1]} = C
      BY <1>1, <2>2 DEF ToSet
    <3>2. New(Added(list, q[1]), {} \union {q[1]})
      BY <1>4, <1>5, <3>1
    <3>3. QED
      BY <1>6, <2>2, <3>1, <3>2
  <2>3. CASE Len(q) = 2
    <3>1. C = {q[1], q[2]} /\ q[1] # q[2]
      <4>1. DOMAIN q = 1..2 /\ 1 \in 1..2 /\ 2 \in 1..2
        BY <1>1, <2>3
      <4>2. C = {q[1], q[2]}
        BY <1>1, <4>1 DEF ToSet
      <4>3. QED
        BY <1>1, <4>1, <4>2 DEF Once
    <3>2. {} \in SUBSET C /\ q[1] \in C \ {} /\ {q[1]} \in SUBSET C /\ q[2] \in C \ {q[1]}
          /\ {} \union {q[1]} = {q[1]} /\ {q[1]} \union {q[2]} = C
      BY <3>1
    <3>3. New(Added(list, q[1]), {q[1]})
      <4>1. New(Added(list, q[1]), {} \union {q[1]})
        BY <1>4, <1>5, <3>2
      <4>2. QED
        BY <3>2, <4>1
    <3>4. New(Added(Added(list, q[1]), q[2]), {q[1]} \union {q[2]})
      BY <1>4, <3>2, <3>3
    <3>5. QED
      BY <1>6, <2>3, <3>2, <3>4
  <2>4. QED
    BY <1>1, <2>1, <2>2, <2>3
<1>8. ShownOf(mods \union {m}, s) = ShownOf(mods, s) \union {Entry(m, d) : d \in C}
  <2> DEFINE A == ShownOf(mods \union {m}, s)
  <2>1. \A h \in ShownOf(mods, s) : h \in A
    BY DEF ShownOf
  <2>2. ASSUME NEW d \in C PROVE Entry(m, d) \in A
    BY <1>2, <2>2 DEF ShownOf
  <2>3. ASSUME NEW h \in A, h \notin ShownOf(mods, s)
        PROVE  \E d \in C : h = Entry(m, d)
    <3>1. h.owner = m /\ h \in Entries
      BY <2>3 DEF ShownOf
    <3>2. PICK c \in Commands(m) : c.to = s /\ h.cmd = c.cmd
      BY <2>3, <3>1 DEF ShownOf
    <3>3. c \in C
      BY <3>2 DEF C, CommandSet
    <3>4. Entry(m, c) \in Entries /\ Entry(m, c).owner = m /\ Entry(m, c).cmd = c.cmd
      BY <1>2, <3>3
    <3>5. h = Entry(m, c)
      BY <3>1, <3>2, <3>4, Fields
    <3>6. QED
      BY <3>3, <3>5
  <2> HIDE DEF A
  <2>4. QED
    BY <2>1, <2>2, <2>3 DEF A
<1>9. QED
  BY <1>7, <1>8 DEF Helped, New, F

(* They are deleted.                                                       *)
LEMMA HandlersTaken ==
  ASSUME NEW mods \in SUBSET Modules, NEW m \in Modules, NEW s \in Services, s # m,
         NEW list, Handled(list, mods, s)
  PROVE  Handled(FoldLeft(LAMBDA z, c : DelUMsgEvent(z, HandlerOf(m, c)), list, CommandsTo(m, s)),
                 mods \ {m}, s)
<1> DEFINE q == CommandsTo(m, s)
           C == CommandSet(m, s)
           Taken(z, c) == HandlerTaken(m, z, c)
           New(z, D) == /\ z \in Seq(MsgHandlers) /\ Once(z)
                        /\ ToSet(z) = ToSet(list) \ {HandlerOf(m, d) : d \in D}
<1>1. q \in Seq(C) /\ ToSet(q) = C /\ Len(q) \in 0..2 /\ DOMAIN q = 1..Len(q)
  BY CommandsToFacts, LenProperties
<1>2. \A c \in C : /\ c \in Commands(m) /\ c.to = s
                   /\ HandlerOf(m, c) \in MsgHandlers /\ HandlerOf(m, c).owner = m
                   /\ HandlerOf(m, c).msg = c.cmd
  BY EntryFacts DEF CommandSet
<1>3. ASSUME NEW D \in SUBSET C, NEW c \in C, NEW z, New(z, D)
      PROVE  New(Taken(z, c), D \union {c})
  <2> DEFINE h == HandlerOf(m, c)
             r == RemoveFirst(z, h)
  <2>1. Taken(z, c) = r
    BY DEF HandlerTaken, DelUMsgEvent
  <2> HIDE DEF h
  <2>2. r \in Seq(MsgHandlers) /\ Once(r) /\ ToSet(r) = ToSet(z) \ {h}
    BY <1>3, RemoveFirstFacts
  <2>3. {HandlerOf(m, d) : d \in D \union {c}} = {HandlerOf(m, d) : d \in D} \union {h}
    BY DEF h
  <2> HIDE DEF r, Taken
  <2>4. QED
    BY <1>3, <2>1, <2>2, <2>3
<1>4. New(list, {})
  BY DEF Handled
<1> DEFINE F == FoldLeft(LAMBDA z, c : DelUMsgEvent(z, HandlerOf(m, c)), list, CommandsTo(m, s))
<1>5. /\ Len(q) = 0 => F = list
      /\ Len(q) = 1 => F = Taken(list, q[1])
      /\ Len(q) = 2 => F = Taken(Taken(list, q[1]), q[2])
  BY <1>1, TakenFolded, Zenon
<1> HIDE DEF New, Taken, F, q, C
<1>6. New(F, C)
  <2>1. CASE Len(q) = 0
    <3>1. C = {}
      BY <1>1, <2>1 DEF ToSet
    <3>2. QED
      BY <1>4, <1>5, <2>1, <3>1
  <2>2. CASE Len(q) = 1
    <3>1. C = {q[1]} /\ q[1] \in C /\ {} \in SUBSET C /\ {} \union {q[1]} = C
      BY <1>1, <2>2 DEF ToSet
    <3>2. New(Taken(list, q[1]), {} \union {q[1]})
      BY <1>3, <1>4, <3>1
    <3>3. QED
      BY <1>5, <2>2, <3>1, <3>2
  <2>3. CASE Len(q) = 2
    <3>1. C = {q[1], q[2]}
      <4>1. DOMAIN q = 1..2
        BY <1>1, <2>3
      <4>2. QED
        BY <1>1, <4>1 DEF ToSet
    <3>2. {} \in SUBSET C /\ q[1] \in C /\ {q[1]} \in SUBSET C /\ q[2] \in C
          /\ {} \union {q[1]} = {q[1]} /\ {q[1]} \union {q[2]} = C
      BY <3>1
    <3>3. New(Taken(list, q[1]), {q[1]})
      <4>1. New(Taken(list, q[1]), {} \union {q[1]})
        BY <1>3, <1>4, <3>2
      <4>2. QED
        BY <3>2, <4>1
    <3>4. New(Taken(Taken(list, q[1]), q[2]), {q[1]} \union {q[2]})
      BY <1>3, <3>2, <3>3
    <3>5. QED
      BY <1>5, <2>3, <3>2, <3>4
  <2>4. QED
    BY <1>1, <2>1, <2>2, <2>3
<1>7. AnswersOf(mods \ {m}, s) = AnswersOf(mods, s) \ {HandlerOf(m, d) : d \in C}
  <2> DEFINE A == AnswersOf(mods \ {m}, s)
  <2>1. ASSUME NEW h \in A PROVE h \in AnswersOf(mods, s) /\ \A d \in C : h # HandlerOf(m, d)
    <3>1. h \in AnswersOf(mods, s) /\ h.owner # m
      BY DEF AnswersOf
    <3>2. QED
      BY <1>2, <3>1
  <2>2. ASSUME NEW h \in AnswersOf(mods, s), h \notin A PROVE \E d \in C : h = HandlerOf(m, d)
    <3>1. h.owner = m /\ h \in MsgHandlers /\ h.owner # s
      BY <2>2 DEF AnswersOf
    <3>2. PICK c \in Commands(m) : c.to = s /\ h.msg = c.cmd
      BY <3>1 DEF AnswersOf
    <3>3. c \in C
      BY <3>2 DEF C, CommandSet
    <3>4. QED
      BY <1>2, <3>1, <3>2, <3>3, Fields
  <2> HIDE DEF A
  <2>3. QED
    BY <2>1, <2>2 DEF A
<1>8. QED
  BY <1>6, <1>7 DEF Handled, New, F

LEMMA EntriesTaken ==
  ASSUME NEW mods \in SUBSET Modules, NEW m \in Modules, NEW s \in Services,
         NEW list, Helped(list, mods, s)
  PROVE  Helped(Without(list, {e \in ToSet(list) : e.owner = m}), mods \ {m}, s)
<1> DEFINE gone == {e \in ToSet(list) : e.owner = m}
           r == Without(list, gone)
<1>1. list \in Seq(Entries) /\ Sorted(list) /\ ToSet(list) = ShownOf(mods, s)
  BY DEF Helped
<1> HIDE DEF gone
<1>2. r \in Seq(Entries) /\ (\E f : Thins(f, r, list, gone)) /\ ToSet(r) = ToSet(list) \ gone
  BY <1>1, WithoutFacts
<1> HIDE DEF r
<1>3. ToSet(r) = ShownOf(mods \ {m}, s)
  BY <1>1, <1>2 DEF gone, ShownOf
<1>4. PICK f : Thins(f, r, list, gone)
  BY <1>2
<1>5. DOMAIN r = 1..Len(r) /\ DOMAIN list = 1..Len(list)
  BY <1>1, <1>2, LenProperties
<1>6. ASSUME NEW i \in DOMAIN r, NEW j \in DOMAIN r, i < j PROVE r[i].cmd < r[j].cmd
  <2>1. /\ f[i] \in DOMAIN list /\ f[j] \in DOMAIN list /\ f[i] < f[j]
        /\ r[i] = list[f[i]] /\ r[j] = list[f[j]]
    BY <1>4, <1>5, <1>6 DEF Thins
  <2>2. QED
    BY <1>1, <2>1 DEF Sorted
<1>7. QED
  BY <1>2, <1>3, <1>6 DEF Helped, Sorted, r, gone

-----------------------------------------------------------------------------
(* What the lists hold, step by step                                       *)

LEMMA JoinedTwo ==
  ASSUME NEW x, NEW y
  PROVE  <<x>> \o <<y>> = <<x, y>>
<1> DEFINE S == {x, y}
           p == <<x>>
           q == <<y>>
           b == <<x, y>>
<1>1. p \in Seq(S) /\ q \in Seq(S) /\ Len(p) = 1 /\ Len(q) = 1 /\ p[1] = x /\ q[1] = y
  OBVIOUS
<1>2. b \in Seq(S) /\ Len(b) = 2 /\ b[1] = x /\ b[2] = y
  OBVIOUS
<1> HIDE DEF S, p, q, b
<1>3. p \o q \in Seq(S) /\ Len(p \o q) = 2 /\ (p \o q)[1] = x /\ (p \o q)[2] = y
  BY <1>1, ConcatProperties
<1>4. \A i \in 1..Len(b) : i = 1 \/ i = 2
  BY <1>2
<1>5. b = p \o q
  BY <1>2, <1>3, <1>4, SeqEqual
<1>6. QED
  BY <1>5 DEF p, q, b

LEMMA JoinedFour ==
  ASSUME NEW x, NEW y, NEW z, NEW w
  PROVE  <<x>> \o <<y, z, w>> = <<x, y, z, w>>
<1> DEFINE S == {x, y, z, w}
           p == <<x>>
           q == <<y, z, w>>
           b == <<x, y, z, w>>
<1>1. p \in Seq(S) /\ q \in Seq(S) /\ Len(p) = 1 /\ Len(q) = 3 /\ p[1] = x /\ q[1] = y /\ q[2] = z /\ q[3] = w
  OBVIOUS
<1>2. b \in Seq(S) /\ Len(b) = 4 /\ b[1] = x /\ b[2] = y /\ b[3] = z /\ b[4] = w
  OBVIOUS
<1> HIDE DEF S, p, q, b
<1>3. p \o q \in Seq(S) /\ Len(p \o q) = 4
      /\ (p \o q)[1] = x /\ (p \o q)[2] = y /\ (p \o q)[3] = z /\ (p \o q)[4] = w
  <2>1. /\ p \o q \in Seq(S) /\ Len(p \o q) = 4
        /\ \A i \in 1..4 : (p \o q)[i] = IF i <= 1 THEN p[i] ELSE q[i - 1]
    <3>1. Len(p) + Len(q) = 4
      BY <1>1
    <3>2. QED
      <4>1. /\ p \o q \in Seq(S) /\ Len(p \o q) = Len(p) + Len(q)
            /\ \A i \in 1..Len(p) + Len(q) :
                 (p \o q)[i] = IF i <= Len(p) THEN p[i] ELSE q[i - Len(p)]
        BY <1>1, ConcatProperties, Zenon
      <4>2. QED
        BY <1>1, <3>1, <4>1
  <2>2. (p \o q)[1] = p[1] /\ (p \o q)[2] = q[1]
    BY <2>1
  <2>3. (p \o q)[3] = q[2] /\ (p \o q)[4] = q[3]
    BY <2>1
  <2>4. QED
    BY <1>1, <2>1, <2>2, <2>3
<1>4. \A i \in 1..Len(b) : i = 1 \/ i = 2 \/ i = 3 \/ i = 4
  BY <1>2
<1>5. b = p \o q
  BY <1>2, <1>3, <1>4, SeqEqual
<1>6. QED
  BY <1>5 DEF p, q, b

LEMMA JoinedNone ==
  ASSUME NEW S, NEW s \in Seq(S)
  PROVE  <<>> \o s = s
OBVIOUS

LEMMA FirstFile ==
  LET w == <<"nickserv", "chanserv", "operserv", "botserv">>
  IN  DOMAIN w = 1..4 /\ w[1] = "nickserv" /\ w[2] = "chanserv" /\ w[3] = "operserv" /\ w[4] = "botserv"
OBVIOUS

(* Those that leave a handler or commands behind, and chanserv, which would*)
(* come before os_uevent                                                   *)
Kept == {"chanserv", "botserv", "sessionlimit"}

KeptLoaded == \A r \in Reloaded : r \intersect Kept = {}

(* Nothing is loaded twice.                                                *)
PendingFresh ==
  /\ Once(pending)
  /\ \A m \in ToSet(pending) :
       m \notin svs_modules /\ ToSet(ModulesFile(m)) \intersect ToSet(pending) = {}

(* chanserv is there when os_uevent comes: its file is read first.         *)
InOrder ==
  /\ \/ "chanserv" \in svs_modules
     \/ /\ phase = "starting" /\ "os_uevent" \notin svs_modules
        /\ pending \in {<<"nickserv", "chanserv", "operserv", "botserv">>,
                        <<"ns_group", "chanserv", "operserv", "botserv">>,
                        <<"chanserv", "operserv", "botserv">>}
     \/ phase = "exited" /\ pending = <<>>
  /\ {"chanserv", "os_uevent"} \subseteq svs_modules =>
       handlers["ET_CHAN_JOIN"] = <<"os_uevent", "chanserv">>

ListsHold ==
  /\ handlers = [l \in Lists |-> handlers[l]]
  /\ \A l \in Lists : Attended(handlers[l], svs_modules, l)
  /\ msglist = [s \in Services |-> msglist[s]]
  /\ \A s \in Services : Handled(msglist[s], svs_modules, s)
  /\ cmds = [s \in Services |-> cmds[s]]
  /\ \A s \in Services : Helped(cmds[s], svs_modules, s)
  /\ Kicked(chan_msg_events, svs_modules)

ListInv ==
  /\ AttachInv
  /\ reloads \intersect Kept = {}
  /\ \A m \in Modules : Provides(m) \intersect provides_list # {} => m \in svs_modules
  /\ PendingFresh
  /\ InOrder
  /\ ListsHold

LEMMA IsServed ==
  ASSUME ListInv
  PROVE  Served(svs_modules)
<1> SUFFICES ASSUME NEW x \in svs_modules, NEW c \in Commands(x) PROVE c.to \in svs_modules
  BY DEF Served
<1>1. x \in Modules
  BY DEF ListInv, AttachInv
<1>2. c.to \in Services
  BY <1>1, CommandNumbers
<1>3. /\ c.to \in Modules /\ SuserOf(c.to) \in Provides(c.to) \ Events
      /\ SuserOf(c.to) \in ToSet(Requires[x])
  BY <1>1, <1>2, SuserFacts, SuserRequired
<1>4. SuserOf(c.to) \in provides_list
  BY <1>3 DEF ListInv, AttachInv
<1>5. QED
  BY <1>3, <1>4 DEF ListInv

LEMMA ListInit ==
  ASSUME KeptLoaded, Init
  PROVE  ListInv
<1> USE DEF Init, ModulesInit
<1>1. AttachInv
  BY AttachInit
<1>2. reloads \intersect Kept = {}
  BY DEF KeptLoaded
<1>3. svs_modules = {} /\ provides_list = {}
  OBVIOUS
<1>4. pending = <<"nickserv", "chanserv", "operserv", "botserv">> /\ phase = "starting"
  BY DEF ModulesFile
<1>5. PendingFresh
  <2>1. Once(pending)
    BY FileOnce
  <2>2. ToSet(pending) \subseteq Services
    <3>1. DOMAIN pending = 1..4 /\ pending[1] = "nickserv" /\ pending[2] = "chanserv"
          /\ pending[3] = "operserv" /\ pending[4] = "botserv"
      BY <1>4, FirstFile, Zenon
    <3> HIDE DEF Init, ModulesInit
    <3>2. QED
      BY <3>1 DEF ToSet, Services
  <2>3. ASSUME NEW m \in ToSet(pending) PROVE ToSet(ModulesFile(m)) \intersect ToSet(pending) = {}
    <3>1. m \in Modules
      BY <2>2, SuserFacts
    <3>2. QED
      BY <2>2, <3>1, SuserRequired
  <2> HIDE DEF Init, ModulesInit
  <2>4. QED
    BY <1>3, <2>1, <2>3 DEF PendingFresh
<1>6. InOrder
  BY <1>3, <1>4 DEF InOrder
<1>7. /\ handlers = [l \in Lists |-> <<>>] /\ msglist = [s \in Services |-> <<>>]
      /\ cmds = [s \in Services |-> <<>>] /\ chan_msg_events = <<>>
  OBVIOUS
<1> HIDE DEF Init, ModulesInit
<1>8. /\ <<>> \in Seq(Modules) /\ <<>> \in Seq(MsgHandlers) /\ <<>> \in Seq(Entries)
      /\ Once(<<>>) /\ Sorted(<<>>) /\ ToSet(<<>>) = {}
  BY DEF Once, Sorted, ToSet
<1>9. /\ \A l : AttendsOf({}, l) = {}
      /\ \A s : AnswersOf({}, s) = {} /\ ShownOf({}, s) = {}
      /\ KicksOf({}) = {}
  BY DEF AttendsOf, AnswersOf, ShownOf, KicksOf
<1>10. /\ \A l : Attended(<<>>, svs_modules, l)
       /\ \A s : Handled(<<>>, svs_modules, s) /\ Helped(<<>>, svs_modules, s)
       /\ Kicked(<<>>, svs_modules)
  BY <1>3, <1>8, <1>9 DEF Attended, Handled, Helped, Kicked
<1>11. ListsHold
  BY <1>7, <1>10 DEF ListsHold
<1>12. QED
  BY <1>1, <1>2, <1>3, <1>5, <1>6, <1>11 DEF ListInv

(* A handler is put before the others.                                     *)
LEMMA AttendedMore ==
  ASSUME NEW mods \in SUBSET Modules, NEW m \in Modules \ mods, NEW l, NEW list, Attended(list, mods, l)
  PROVE  Attended(IF l \in Adds(m) THEN <<m>> \o list ELSE list, mods \union {m}, l)
<1>1. CASE l \in Adds(m)
  <2>1. m \notin ToSet(list)
    BY DEF Attended, AttendsOf
  <2>2. /\ <<m>> \o list \in Seq(Modules) /\ Once(<<m>> \o list)
        /\ ToSet(<<m>> \o list) = ToSet(list) \union {m}
    BY <2>1, PrependFacts DEF Attended
  <2>3. AttendsOf(mods \union {m}, l) = AttendsOf(mods, l) \union {m}
    BY <1>1 DEF AttendsOf
  <2>4. QED
    BY <1>1, <2>2, <2>3 DEF Attended
<1>2. CASE l \notin Adds(m)
  <2>1. AttendsOf(mods \union {m}, l) = AttendsOf(mods, l)
    BY <1>2 DEF AttendsOf
  <2>2. QED
    BY <1>2, <2>1 DEF Attended
<1>3. QED
  BY <1>1, <1>2

LEMMA AttendedLess ==
  ASSUME NEW mods \in SUBSET Modules, NEW m \in Modules, NEW l, NEW list, Attended(list, mods, l),
         NEW r, r \in {Without(list, {m}), RemoveFirst(list, m)} \/ (l \notin Adds(m) /\ r = list)
  PROVE  Attended(r, mods \ {m}, l)
<1>1. list \in Seq(Modules) /\ Once(list) /\ ToSet(list) = AttendsOf(mods, l)
  BY DEF Attended
<1>2. AttendsOf(mods \ {m}, l) = AttendsOf(mods, l) \ {m}
  BY DEF AttendsOf
<1>3. CASE l \notin Adds(m) /\ r = list
  <2>1. AttendsOf(mods, l) \ {m} = AttendsOf(mods, l)
    BY <1>3 DEF AttendsOf
  <2>2. QED
    BY <1>1, <1>2, <1>3, <2>1 DEF Attended
<1>4. CASE r = Without(list, {m})
  <2>1. r \in Seq(Modules) /\ Once(r) /\ ToSet(r) = ToSet(list) \ {m}
    BY <1>1, <1>4, WithoutFacts
  <2>2. QED
    BY <1>1, <1>2, <2>1 DEF Attended
<1>5. CASE r = RemoveFirst(list, m)
  <2>1. r \in Seq(Modules) /\ Once(r) /\ ToSet(r) = ToSet(list) \ {m}
    BY <1>1, <1>5, RemoveFirstFacts
  <2>2. QED
    BY <1>1, <1>2, <2>1 DEF Attended
<1>6. QED
  BY <1>3, <1>4, <1>5

LEMMA KickedMore ==
  ASSUME NEW mods \in SUBSET Modules, NEW m \in Modules \ mods, Kicked(chan_msg_events, mods)
  PROVE  Kicked(IF Triggers(m) THEN AddChanGMsgEvent([msg |-> KickTrigger, owner |-> m])
                ELSE chan_msg_events, mods \union {m})
<1> DEFINE h == [msg |-> KickTrigger, owner |-> m]
<1>1. h \in MsgHandlers /\ h.msg = KickTrigger /\ h.owner = m /\ KickTrigger # AnyMsg
  BY DEF MsgHandlers, KickTrigger, AnyMsg
<1> HIDE DEF h
<1>2. h \notin ToSet(chan_msg_events)
  BY <1>1 DEF Kicked, KicksOf
<1>3. CASE Triggers(m)
  <2>1. AddChanGMsgEvent(h) = <<h>> \o chan_msg_events
    BY <1>1 DEF AddChanGMsgEvent, AddUMsgEvent
  <2>2. /\ <<h>> \o chan_msg_events \in Seq(MsgHandlers) /\ Once(<<h>> \o chan_msg_events)
        /\ ToSet(<<h>> \o chan_msg_events) = ToSet(chan_msg_events) \union {h}
    BY <1>1, <1>2, PrependFacts DEF Kicked
  <2>3. KicksOf(mods \union {m}) = KicksOf(mods) \union {h}
    BY <1>1, <1>3, Fields DEF KicksOf
  <2>4. QED
    BY <1>3, <2>1, <2>2, <2>3 DEF Kicked, h
<1>4. CASE ~Triggers(m)
  <2>1. KicksOf(mods \union {m}) = KicksOf(mods)
    BY <1>4 DEF KicksOf
  <2>2. QED
    BY <1>4, <2>1 DEF Kicked
<1>5. QED
  BY <1>3, <1>4

LEMMA KickedLess ==
  ASSUME NEW mods \in SUBSET Modules, NEW m \in Modules, Kicked(chan_msg_events, mods)
  PROVE  Kicked(IF Triggers(m) THEN DelChanGMsgEvent([msg |-> KickTrigger, owner |-> m])
                ELSE chan_msg_events, mods \ {m})
<1> DEFINE h == [msg |-> KickTrigger, owner |-> m]
           r == RemoveFirst(chan_msg_events, h)
<1>1. h \in MsgHandlers /\ h.msg = KickTrigger /\ h.owner = m
  BY DEF MsgHandlers, KickTrigger
<1> HIDE DEF h
<1>2. CASE Triggers(m)
  <2>1. DelChanGMsgEvent(h) = r
    BY DEF DelChanGMsgEvent, DelUMsgEvent
  <2>2. r \in Seq(MsgHandlers) /\ Once(r) /\ ToSet(r) = ToSet(chan_msg_events) \ {h}
    BY RemoveFirstFacts DEF Kicked
  <2> HIDE DEF r
  <2>3. KicksOf(mods \ {m}) = KicksOf(mods) \ {h}
    BY <1>1, Fields DEF KicksOf
  <2>4. QED
    BY <1>2, <2>1, <2>2, <2>3 DEF Kicked, h
<1>3. CASE ~Triggers(m)
  <2>1. KicksOf(mods \ {m}) = KicksOf(mods)
    BY <1>3 DEF KicksOf
  <2>2. QED
    BY <1>3, <2>1 DEF Kicked
<1>4. QED
  BY <1>2, <1>3

(* module_load                                                             *)
LEMMA PendingNext ==
  ASSUME ListInv, pending # <<>>
  PROVE  LET m == Head(pending)
         IN  /\ m \in Modules /\ m \notin svs_modules
             /\ Tail(pending) \in Seq(Modules) /\ Once(Tail(pending))
             /\ ToSet(Tail(pending)) = ToSet(pending) \ {m} /\ m \in ToSet(pending)
<1> DEFINE m == Head(pending)
           t == Tail(pending)
           n == Len(pending)
<1>1. pending \in Seq(Modules) /\ Once(pending)
  BY DEF ListInv, AttachInv, PendingFresh
<1>2. /\ n \in Nat /\ n >= 1 /\ DOMAIN pending = 1..n /\ m = pending[1] /\ m \in Modules
      /\ t \in Seq(Modules) /\ Len(t) = n - 1 /\ DOMAIN t = 1..n-1
      /\ \A j \in 1..n-1 : t[j] = pending[j + 1]
  BY <1>1
<1> HIDE DEF m, t, n
<1>3. m \in ToSet(pending)
  BY <1>2 DEF ToSet
<1>4. \A j \in 1..n-1 : j + 1 \in 1..n /\ j + 1 # 1
  BY <1>2
<1>5. Once(t)
  <2>1. ASSUME NEW i \in 1..n-1, NEW j \in 1..n-1, t[i] = t[j] PROVE i = j
    <3>1. i + 1 = j + 1
      BY <1>1, <1>2, <1>4, <2>1 DEF Once
    <3>2. QED
      BY <3>1
  <2>2. QED
    BY <1>2, <2>1 DEF Once
<1>6. ToSet(t) = ToSet(pending) \ {m}
  <2>1. \A y : y \in ToSet(t) <=> \E j \in 1..n-1 : t[j] = y
    BY <1>2 DEF ToSet
  <2>2. \A y : y \in ToSet(pending) <=> \E j \in 1..n : pending[j] = y
    BY <1>2 DEF ToSet
  <2>3. ASSUME NEW j \in 1..n-1 PROVE t[j] \in ToSet(pending) /\ t[j] # m
    <3>1. 1 \in 1..n /\ j + 1 \in 1..n /\ j + 1 # 1 /\ t[j] = pending[j + 1]
      BY <1>2, <1>4
    <3>2. pending[j + 1] # pending[1]
      BY <1>1, <1>2, <3>1 DEF Once
    <3>3. QED
      BY <1>2, <2>2, <3>1, <3>2
  <2>4. ASSUME NEW j \in 1..n, pending[j] # m PROVE pending[j] \in ToSet(t)
    <3>1. j - 1 \in 1..n-1 /\ (j - 1) + 1 = j
      BY <1>2, <2>4
    <3>2. QED
      BY <1>2, <2>1, <3>1
  <2>5. QED
    BY <2>1, <2>2, <2>3, <2>4
<1>7. m \notin svs_modules
  BY <1>3 DEF ListInv, PendingFresh
<1>8. QED
  BY <1>2, <1>3, <1>5, <1>6, <1>7 DEF m, t

LEMMA ConcatOnce ==
  ASSUME NEW S, NEW s \in Seq(S), NEW t \in Seq(S)
  PROVE  /\ ToSet(s \o t) = ToSet(s) \union ToSet(t)
         /\ Once(s) /\ Once(t) /\ ToSet(s) \intersect ToSet(t) = {} => Once(s \o t)
<1> DEFINE a == Len(s)
           b == Len(t)
           u == s \o t
<1>1. /\ a \in Nat /\ b \in Nat /\ DOMAIN s = 1..a /\ DOMAIN t = 1..b
      /\ u \in Seq(S) /\ DOMAIN u = 1..a+b
      /\ \A i \in 1..a+b : u[i] = IF i <= a THEN s[i] ELSE t[i - a]
  BY ConcatProperties, LenProperties
<1> HIDE DEF a, b, u
<1>2. \A i \in 1..a+b : i \in 1..a \/ (~(i <= a) /\ i - a \in 1..b)
  BY <1>1
<1>3. /\ \A y : y \in ToSet(u) <=> \E i \in 1..a+b : u[i] = y
      /\ \A y : y \in ToSet(s) <=> \E i \in 1..a : s[i] = y
      /\ \A y : y \in ToSet(t) <=> \E i \in 1..b : t[i] = y
  BY <1>1 DEF ToSet
<1>4. \A i \in 1..a : i \in 1..a+b /\ i <= a
  BY <1>1
<1>5. \A i \in 1..b : i + a \in 1..a+b /\ ~(i + a <= a) /\ i + a - a = i
  BY <1>1
<1>6. \A y : y \in ToSet(u) <=> y \in ToSet(s) \/ y \in ToSet(t)
  <2>1. \A i \in 1..a+b : u[i] \in ToSet(s) \/ u[i] \in ToSet(t)
    BY <1>1, <1>2, <1>3
  <2>2. \A i \in 1..a : s[i] \in ToSet(u)
    BY <1>1, <1>3, <1>4
  <2>3. \A i \in 1..b : t[i] \in ToSet(u)
    <3>1. ASSUME NEW i \in 1..b PROVE u[i + a] = t[i] /\ i + a \in 1..a+b
      BY <1>1, <1>5
    <3>2. QED
      BY <1>3, <3>1
  <2>4. QED
    BY <1>3, <2>1, <2>2, <2>3
<1>7. ASSUME Once(s), Once(t), ToSet(s) \intersect ToSet(t) = {} PROVE Once(u)
  <2>1. SUFFICES ASSUME NEW i \in 1..a+b, NEW j \in 1..a+b, u[i] = u[j] PROVE i = j
    BY <1>1 DEF Once
  <2>2. CASE i \in 1..a /\ j \in 1..a
    BY <1>1, <1>4, <1>7, <2>1, <2>2 DEF Once
  <2>3. CASE i \notin 1..a /\ j \notin 1..a
    <3>1. i - a \in 1..b /\ j - a \in 1..b /\ u[i] = t[i - a] /\ u[j] = t[j - a]
      BY <1>1, <1>2, <2>3
    <3>2. i - a = j - a
      BY <1>1, <1>7, <2>1, <3>1 DEF Once
    <3>3. QED
      BY <1>1, <3>2
  <2>4. \A k \in 1..a+b : /\ k \in 1..a => u[k] \in ToSet(s)
                          /\ k \notin 1..a => u[k] \in ToSet(t)
    BY <1>1, <1>2, <1>3
  <2>5. QED
    BY <1>7, <2>1, <2>2, <2>3, <2>4
<1>8. QED
  BY <1>6, <1>7 DEF u

LEMMA LoadListInv ==
  ASSUME ListInv, LoadNext
  PROVE  ListInv'
<1> DEFINE m == Head(pending)
           mods == svs_modules
<1>1. AttachInv'
  BY LoadAttachInv DEF ListInv
<1>2. /\ m \in Modules /\ m \notin mods
      /\ Tail(pending) \in Seq(Modules) /\ Once(Tail(pending))
      /\ ToSet(Tail(pending)) = ToSet(pending) \ {m} /\ m \in ToSet(pending)
  BY PendingNext, Zenon DEF LoadNext
<1>3. LoadFails(m) \/ LoadSucceeds(m)
  BY DEF LoadNext
<1> HIDE DEF m
<1>4. reloads' = reloads
  BY <1>3 DEF LoadFails, LoadSucceeds, Fails
<1>5. CASE LoadFails(m)
  <2>1. /\ pending' = <<>> /\ (phase' = IF phase = "starting" THEN "exited" ELSE phase)
        /\ UNCHANGED <<cmds, msglist, chan_msg_events, svs_modules, provides_list, handlers>>
    BY <1>5 DEF LoadFails, Fails, cmdvars
  <2>2. Once(<<>>) /\ ToSet(<<>>) = {}
    BY DEF Once, ToSet
  <2>3. PendingFresh'
    BY <2>1, <2>2 DEF PendingFresh
  <2>4. InOrder'
    BY <2>1 DEF InOrder, ListInv
  <2>5. ListsHold'
    BY <2>1 DEF ListsHold, ListInv
  <2>6. QED
    BY <1>1, <1>4, <2>1, <2>3, <2>4, <2>5 DEF ListInv
<1>6. CASE LoadSucceeds(m)
  <2>1. /\ svs_modules' = mods \union {m}
        /\ provides_list' = ProvidesRegistered(m)
        /\ handlers' = HandlersAdded(m)
        /\ pending' = ModulesFile(m) \o Tail(pending)
        /\ CommandsAdded(m)
        /\ phase' = phase
    BY <1>6 DEF LoadSucceeds
  <2>2. mods \in SUBSET Modules
    BY DEF ListInv, AttachInv
  <2>3. ASSUME NEW x \in Modules, Provides(x) \intersect provides_list' # {}
        PROVE  x \in svs_modules'
    <3>1. PICK f \in Provides(x) : f \in provides_list \/ f \in Provides(m)
      BY <2>1, <2>3 DEF ProvidesRegistered
    <3>2. CASE f \in provides_list
      BY <2>1, <3>1, <3>2 DEF ListInv
    <3>3. CASE f \in Provides(m)
      BY <1>2, <2>1, <3>1, <3>3, ProvidesDisjoint
    <3>4. QED
      BY <3>1, <3>2, <3>3
  <2>4. PendingFresh'
    <3> DEFINE file == ModulesFile(m)
               rest == Tail(pending)
    <3>1. file \in Seq(Modules) /\ Once(file)
      BY FilesName, FileOnce
    <3>2. /\ ToSet(file) \intersect ToSet(pending) = {}
          /\ \A x \in ToSet(pending) :
               x \notin mods /\ ToSet(ModulesFile(x)) \intersect ToSet(pending) = {}
      BY <1>2 DEF ListInv, PendingFresh
    <3>3. ASSUME NEW x \in ToSet(file)
          PROVE  x \notin mods /\ x # m /\ x \in Modules /\ ToSet(ModulesFile(x)) = {}
      <4>1. m \in Services /\ x \in Modules /\ x \notin Services /\ SuserOf(m) \in ToSet(Requires[x])
        BY <1>2, SuserRequired
      <4>2. ToSet(ModulesFile(x)) = {}
        BY <4>1, SuserRequired
      <4>3. SuserOf(m) \in Provides(m) \ Events
        BY <4>1, SuserFacts
      <4>4. x \notin mods
        <5>1. x \in mods => SuserOf(m) \in provides_list
          BY <4>1, <4>3 DEF ListInv, AttachInv
        <5>2. QED
          BY <1>2, <4>3, <5>1 DEF ListInv
      <4>5. QED
        BY <4>1, <4>2, <4>4
    <3>4. \A x \in ToSet(rest) : x \in Modules /\ x # m /\ x \in ToSet(pending)
      <4>1. DOMAIN rest = 1..Len(rest) /\ \A i \in 1..Len(rest) : rest[i] \in Modules
        BY <1>2, LenProperties, ElementOfSeq
      <4>2. \A x \in ToSet(rest) : x \in Modules
        BY <4>1 DEF ToSet
      <4>3. QED
        BY <1>2, <4>2
    <3> HIDE DEF file, rest
    <3>5. ToSet(file) \intersect ToSet(rest) = {}
      BY <1>2, <3>2 DEF rest
    <3>6. Once(file \o rest) /\ ToSet(file \o rest) = ToSet(file) \union ToSet(rest)
      <4>1. rest \in Seq(Modules) /\ Once(rest)
        BY <1>2 DEF rest
      <4>2. QED
        BY <3>1, <3>5, <4>1, ConcatOnce
    <3>7. ASSUME NEW x \in ToSet(file) \union ToSet(rest)
          PROVE  /\ x \notin mods \union {m}
                 /\ ToSet(ModulesFile(x)) \intersect (ToSet(file) \union ToSet(rest)) = {}
      <4>1. CASE x \in ToSet(file)
        BY <3>3, <4>1
      <4>2. CASE x \in ToSet(rest)
        <5>1. ToSet(ModulesFile(x)) \intersect ToSet(file) = {}
          BY <1>2, <3>4, <4>2, FileOnce DEF file
        <5>2. ToSet(ModulesFile(x)) \intersect ToSet(rest) = {}
          BY <3>2, <3>4, <4>2
        <5>3. QED
          BY <3>2, <3>4, <4>2, <5>1, <5>2
      <4>3. QED
        BY <4>1, <4>2
    <3>8. pending' = file \o rest
      BY <2>1 DEF file, rest
    <3>9. QED
      BY <2>1, <3>6, <3>7, <3>8 DEF PendingFresh
  <2>5. \A l \in Lists : handlers'[l] = IF l \in Adds(m) THEN <<m>> \o handlers[l] ELSE handlers[l]
    BY <2>1 DEF HandlersAdded, AddEvent, AddEventAction
  <2>6. InOrder'
    <3>1. CASE "chanserv" \in mods
      <4>1. ASSUME "os_uevent" \in svs_modules'
            PROVE  handlers'["ET_CHAN_JOIN"] = <<"os_uevent", "chanserv">>
        <5>1. "ET_CHAN_JOIN" \in Lists
          BY DEF Lists, IrcLists
        <5>2. CASE "os_uevent" \in mods
          <6>1. "ET_CHAN_JOIN" \notin Adds(m)
            <7>1. m # "os_uevent" /\ m # "chanserv"
              BY <1>2, <3>1, <5>2
            <7>2. QED
              BY <1>2, <7>1, ModulesNames DEF Adds
          <6>2. QED
            BY <2>5, <3>1, <5>1, <5>2, <6>1 DEF ListInv, InOrder
        <5>3. CASE "os_uevent" \notin mods
          <6>1. m = "os_uevent" /\ "ET_CHAN_JOIN" \in Adds(m)
            BY <2>1, <4>1, <5>3 DEF Adds
          <6> DEFINE list == handlers["ET_CHAN_JOIN"]
          <6>2. AttendsOf(mods, "ET_CHAN_JOIN") = {"chanserv"}
            <7>1. \A x \in mods : "ET_CHAN_JOIN" \in Adds(x) <=> x = "chanserv"
              BY <2>2, <5>3, ModulesNames DEF Adds
            <7>2. QED
              BY <3>1, <7>1 DEF AttendsOf
          <6>3. list \in Seq(Modules) /\ Once(list) /\ ToSet(list) = {"chanserv"}
            BY <5>1, <6>2 DEF ListInv, ListsHold, Attended
          <6>4. list = <<"chanserv">>
            <7> HIDE DEF list
            <7>1. DOMAIN list = 1..Len(list) /\ Len(list) \in Nat
              BY <6>3, LenProperties
            <7>2. \A i \in 1..Len(list) : list[i] = "chanserv"
              BY <6>3, <7>1 DEF ToSet
            <7>3. \E i \in 1..Len(list) : TRUE
              BY <6>3, <7>1 DEF ToSet
            <7>4. Len(list) = 1
              <8>1. ASSUME Len(list) >= 2 PROVE FALSE
                <9>1. 1 \in DOMAIN list /\ 2 \in DOMAIN list /\ list[1] = list[2]
                  BY <7>1, <7>2, <8>1
                <9>2. QED
                  BY <6>3, <9>1 DEF Once
              <8>2. QED
                BY <7>1, <7>3, <8>1
            <7>5. QED
              BY <6>3, <7>2, <7>4
          <6>5. <<"os_uevent">> \o <<"chanserv">> = <<"os_uevent", "chanserv">>
            BY JoinedTwo, Zenon
          <6>6. QED
            BY <2>5, <5>1, <6>1, <6>4, <6>5, Zenon
        <5>4. QED
          BY <5>2, <5>3
      <4>2. QED
        BY <2>1, <3>1, <4>1 DEF InOrder
    <3>2. CASE "chanserv" \notin mods
      <4>1. /\ phase = "starting" /\ "os_uevent" \notin mods
            /\ pending \in {<<"nickserv", "chanserv", "operserv", "botserv">>,
                            <<"ns_group", "chanserv", "operserv", "botserv">>,
                            <<"chanserv", "operserv", "botserv">>}
        BY <3>2 DEF ListInv, InOrder, LoadNext
      <4>2. CASE pending = <<"nickserv", "chanserv", "operserv", "botserv">>
        <5>1. m = "nickserv" /\ Tail(pending) = <<"chanserv", "operserv", "botserv">>
          BY <4>2 DEF m
        <5>2. pending' = <<"ns_group", "chanserv", "operserv", "botserv">>
          <6>1. ModulesFile(m) = <<"ns_group">>
            BY <5>1 DEF ModulesFile
          <6>2. <<"ns_group">> \o <<"chanserv", "operserv", "botserv">>
                  = <<"ns_group", "chanserv", "operserv", "botserv">>
            BY JoinedFour, Zenon
          <6>3. QED
            BY <2>1, <5>1, <6>1, <6>2, Zenon
        <5>3. QED
          BY <2>1, <3>2, <4>1, <5>1, <5>2 DEF InOrder
      <4>3. CASE pending = <<"ns_group", "chanserv", "operserv", "botserv">>
        <5>1. m = "ns_group" /\ Tail(pending) = <<"chanserv", "operserv", "botserv">>
          BY <4>3 DEF m
        <5>2. pending' = <<"chanserv", "operserv", "botserv">>
          <6>1. ModulesFile(m) = <<>>
            BY <5>1 DEF ModulesFile
          <6>2. <<>> \o <<"chanserv", "operserv", "botserv">> = <<"chanserv", "operserv", "botserv">>
            OBVIOUS
          <6>3. QED
            BY <2>1, <5>1, <6>1, <6>2, Zenon
        <5>3. QED
          BY <2>1, <3>2, <4>1, <5>1, <5>2 DEF InOrder
      <4>4. CASE pending = <<"chanserv", "operserv", "botserv">>
        <5>1. m = "chanserv"
          BY <4>4 DEF m
        <5>2. QED
          BY <2>1, <4>1, <5>1 DEF InOrder
      <4>5. QED
        BY <4>1, <4>2, <4>3, <4>4
    <3>3. QED
      BY <3>1, <3>2
  <2>7. ListsHold'
    <3>1. /\ \A l \in Lists : Attended(handlers[l], mods, l)
          /\ \A s \in Services : Handled(msglist[s], mods, s)
          /\ \A s \in Services : Helped(cmds[s], mods, s)
          /\ Kicked(chan_msg_events, mods)
      BY DEF ListInv, ListsHold
    <3>2. \A l \in Lists : Attended(handlers'[l], mods \union {m}, l)
      BY <1>2, <2>2, <2>5, <3>1, AttendedMore
    <3>3. handlers' = [l \in Lists |-> handlers'[l]]
      BY <2>1 DEF HandlersAdded
    <3>4. Kicked(chan_msg_events', mods \union {m})
      <4>1. chan_msg_events' = IF Triggers(m) THEN AddChanGMsgEvent([msg |-> KickTrigger, owner |-> m])
                               ELSE chan_msg_events
        BY <2>1 DEF CommandsAdded
      <4>2. QED
        BY <1>2, <2>2, <3>1, <4>1, KickedMore
    <3>5. ASSUME NEW s \in Services PROVE Helped(cmds'[s], mods \union {m}, s)
      <4>1. cmds'[s] = FoldLeft(LAMBDA z, c : Listed(z, Entry(m, c)), cmds[s], CommandsTo(m, s))
        BY <2>1, Zenon DEF CommandsAdded
      <4>2. QED
        BY <1>2, <2>2, <3>1, <4>1, EntriesHelped
    <3>6. ASSUME NEW s \in Services, s # m PROVE Handled(msglist'[s], mods \union {m}, s)
      <4>1. msglist'[s] = FoldLeft(LAMBDA z, c : IF c.answers THEN AddUMsgEvent(z, HandlerOf(m, c)) ELSE z,
                                   msglist[s], CommandsTo(m, s))
        BY <2>1, <3>6, Zenon DEF CommandsAdded
      <4>2. QED
        BY <1>2, <2>2, <3>1, <3>6, <4>1, HandlersHandled
    <3>7. ASSUME m \in Services PROVE Handled(msglist'[m], mods \union {m}, m)
      <4> DEFINE h == [msg |-> AnyMsg, owner |-> m]
      <4>1. msglist'[m] = Append(<<>>, h)
        <5>1. msglist'[m] = AddUMsgEvent(<<>>, h)
          BY <2>1, <3>7, Zenon DEF CommandsAdded
        <5>2. h.msg = AnyMsg
          OBVIOUS
        <5>3. QED
          BY <5>1, <5>2 DEF AddUMsgEvent
      <4>2. h \in MsgHandlers /\ h.msg = AnyMsg /\ h.owner = m
        BY <1>2 DEF MsgHandlers, AnyMsg
      <4> HIDE DEF h
      <4>3. /\ <<>> \in Seq(MsgHandlers) /\ Once(<<>>) /\ ToSet(<<>>) = {}
        BY DEF Once, ToSet
      <4>4. msglist'[m] \in Seq(MsgHandlers) /\ Once(msglist'[m]) /\ ToSet(msglist'[m]) = {h}
        <5>1. /\ Append(<<>>, h) \in Seq(MsgHandlers)
              /\ ToSet(Append(<<>>, h)) = ToSet(<<>>) \union {h}
              /\ Once(<<>>) /\ h \notin ToSet(<<>>) => Once(Append(<<>>, h))
          BY <4>2, <4>3, AppendFacts, Zenon
        <5>2. QED
          BY <4>1, <4>3, <5>1
      <4>5. \A x \in mods \union {m} : \A c \in Commands(x) : c.to # m
        <5>1. \A x \in mods : \A c \in Commands(x) : c.to \in mods
          BY IsServed DEF Served
        <5>2. \A c \in Commands(m) : c.to # m
          BY <1>2, CommandNumbers
        <5>3. QED
          BY <1>2, <5>1, <5>2
      <4>6. AnswersOf(mods \union {m}, m) = {h}
        <5>1. \A g \in AnswersOf(mods \union {m}, m) : g \in MsgHandlers /\ g.owner = m /\ g.msg = AnyMsg
          BY <4>5 DEF AnswersOf
        <5>2. h \in AnswersOf(mods \union {m}, m)
          BY <4>2 DEF AnswersOf
        <5>3. QED
          BY <4>2, <5>1, <5>2, Fields
      <4>7. QED
        BY <4>4, <4>6 DEF Handled
    <3>8. msglist' = [s \in Services |-> msglist'[s]] /\ cmds' = [s \in Services |-> cmds'[s]]
      <4>1. DOMAIN msglist' = Services /\ DOMAIN cmds' = Services
        BY <2>1, Zenon DEF CommandsAdded
      <4>2. (\E f : msglist' = [s \in Services |-> f[s]]) /\ \E f : cmds' = [s \in Services |-> f[s]]
        <5> DEFINE A == [s \in Services |->
                     IF s = m THEN AddUMsgEvent(<<>>, [msg |-> AnyMsg, owner |-> m])
                     ELSE FoldLeft(LAMBDA z, c : IF c.answers THEN AddUMsgEvent(z, HandlerOf(m, c)) ELSE z,
                                   msglist[s], CommandsTo(m, s))]
                   B == [s \in Services |->
                     FoldLeft(LAMBDA z, c : Listed(z, Entry(m, c)), cmds[s], CommandsTo(m, s))]
        <5>1. msglist' = A /\ cmds' = B
          BY <2>1, Zenon DEF CommandsAdded
        <5>2. A = [s \in Services |-> A[s]] /\ B = [s \in Services |-> B[s]]
          BY Zenon
        <5> HIDE DEF A, B
        <5>3. QED
          BY <5>1, <5>2
      <4>3. QED
        BY <4>2
    <3>9. \A s \in Services : Handled(msglist'[s], mods \union {m}, s)
      BY <3>6, <3>7
    <3>10. QED
      BY <2>1, <3>2, <3>3, <3>4, <3>5, <3>8, <3>9 DEF ListsHold
  <2>8. QED
    BY <1>1, <1>4, <2>3, <2>4, <2>6, <2>7 DEF ListInv
<1>7. QED
  BY <1>3, <1>5, <1>6

(* module_unload: nobody is attached to m, so no loaded module has commands*)
(* to it.                                                                  *)
LEMMA UnloadListInv ==
  ASSUME ListInv, NEW m \in reloads, ModuleUnload(m)
  PROVE  ListInv'
<1> DEFINE mods == svs_modules
<1>1. /\ m \in Modules /\ m \notin Kept /\ m \in mods /\ mods \in SUBSET Modules
      /\ phase = "running" /\ pending = <<>>
  BY DEF ListInv, AttachInv, ModuleUnload, MayCommand
<1>2. AttachInv'
  BY <1>1, UnloadAttachInv DEF ListInv
<1>3. /\ svs_modules' = mods \ {m}
      /\ provides_list' = provides_list \ Provides(m)
      /\ handlers' = HandlersWithout(m)
      /\ CommandsDeleted(m)
      /\ reloads' = reloads /\ phase' = phase /\ pending' = pending
      /\ \A f \in Provides(m) \ Events : modattach[f] = <<>>
  BY DEF ModuleUnload, InUse
<1>4. ASSUME NEW x \in Modules, Provides(x) \intersect provides_list' # {} PROVE x \in svs_modules'
  <2>1. PICK f \in Provides(x) : f \in provides_list /\ f \notin Provides(m)
    BY <1>3, <1>4
  <2>2. x \in mods
    BY <2>1 DEF ListInv
  <2>3. QED
    BY <1>3, <2>1, <2>2
<1>5. PendingFresh'
  <2>1. Once(<<>>) /\ ToSet(<<>>) = {}
    BY DEF Once, ToSet
  <2>2. QED
    BY <1>1, <1>3, <2>1 DEF PendingFresh
<1>6. \A l \in Lists : handlers'[l] =
        IF l \in Events THEN Without(handlers[l], {m})
        ELSE IF l \in Adds(m) \ Leaves(m) THEN RemoveFirst(handlers[l], m) ELSE handlers[l]
  BY <1>3, Zenon DEF HandlersWithout, EventActionsDeleted, DelEvent
<1>7. Leaves(m) = {} /\ ~KeepsCommands(m)
  BY <1>1 DEF Leaves, KeepsCommands, Kept
<1>8. InOrder'
  <2>1. "chanserv" \in mods /\ "chanserv" # m
    BY <1>1 DEF ListInv, InOrder, Kept
  <2>2. ASSUME "os_uevent" \in svs_modules' PROVE handlers'["ET_CHAN_JOIN"] = <<"os_uevent", "chanserv">>
    <3>1. "ET_CHAN_JOIN" \in Lists /\ "ET_CHAN_JOIN" \notin Events
      BY DEF Lists, IrcLists, Events
    <3>2. "ET_CHAN_JOIN" \notin Adds(m)
      BY <1>1, <1>3, <2>1, <2>2, ModulesNames DEF Adds
    <3>3. QED
      BY <1>3, <1>6, <2>1, <2>2, <3>1, <3>2 DEF ListInv, InOrder
  <2>3. QED
    BY <1>3, <2>1, <2>2 DEF InOrder
<1>9. \A x \in mods : \A c \in Commands(x) : c.to # m
  <2>1. SUFFICES ASSUME NEW x \in mods, NEW c \in Commands(x), c.to = m PROVE FALSE
    OBVIOUS
  <2>2. x \in Modules /\ m \in Services
    BY <1>1, <2>1, CommandNumbers
  <2>3. SuserOf(m) \in Provides(m) \ Events /\ SuserOf(m) \in ToSet(Requires[x])
    BY <2>1, <2>2, SuserFacts, SuserRequired
  <2>4. Contains(modattach[SuserOf(m)], x) /\ modattach[SuserOf(m)] = <<>>
    BY <1>3, <2>3 DEF ListInv, AttachInv
  <2>5. QED
    BY <2>4 DEF Contains
<1>10. AnswersOf(mods \ {m}, m) = {} /\ ShownOf(mods \ {m}, m) = {}
  BY <1>9 DEF AnswersOf, ShownOf
<1>11. /\ \A l \in Lists : Attended(handlers[l], mods, l)
       /\ \A s \in Services : Handled(msglist[s], mods, s)
       /\ \A s \in Services : Helped(cmds[s], mods, s)
       /\ Kicked(chan_msg_events, mods)
  BY DEF ListInv, ListsHold
<1>12. ASSUME NEW l \in Lists PROVE Attended(handlers'[l], mods \ {m}, l)
  <2>1. \/ handlers'[l] \in {Without(handlers[l], {m}), RemoveFirst(handlers[l], m)}
        \/ l \notin Adds(m) /\ handlers'[l] = handlers[l]
    BY <1>6, <1>7
  <2>2. Attended(handlers[l], mods, l)
    BY <1>11
  <2> DEFINE r == handlers'[l]
             list == handlers[l]
  <2> HIDE DEF r, list, mods
  <2>3. r \in {Without(list, {m}), RemoveFirst(list, m)} \/ (l \notin Adds(m) /\ r = list)
    BY <2>1 DEF r, list
  <2>4. Attended(list, mods, l)
    BY <2>2 DEF list
  <2>5. Attended(r, mods \ {m}, l)
    BY <1>1, <2>3, <2>4, AttendedLess
  <2>6. QED
    BY <2>5 DEF r
<1>13. ASSUME NEW s \in Services
       PROVE  Handled(msglist'[s], mods \ {m}, s) /\ Helped(cmds'[s], mods \ {m}, s)
  <2>1. CASE s = m
    <3>1. msglist'[s] = <<>> /\ cmds'[s] = <<>>
      BY <1>3, <2>1 DEF CommandsDeleted, NoMsgEvents
    <3>2. /\ <<>> \in Seq(MsgHandlers) /\ <<>> \in Seq(Entries)
          /\ Once(<<>>) /\ Sorted(<<>>) /\ ToSet(<<>>) = {}
      BY DEF Once, Sorted, ToSet
    <3>3. QED
      BY <1>10, <2>1, <3>1, <3>2 DEF Handled, Helped
  <2>2. CASE s # m
    <3>1. msglist'[s] = FoldLeft(LAMBDA z, c : DelUMsgEvent(z, HandlerOf(m, c)), msglist[s], CommandsTo(m, s))
      BY <1>3, <1>7, <2>2, Zenon DEF CommandsDeleted
    <3>2. cmds'[s] = Without(cmds[s], {e \in ToSet(cmds[s]) : e.owner = m})
      BY <1>3, <1>7, <2>2, Zenon DEF CommandsDeleted
    <3>3. Handled(msglist'[s], mods \ {m}, s)
      BY <1>1, <1>11, <2>2, <3>1, HandlersTaken
    <3>4. Helped(cmds'[s], mods \ {m}, s)
      BY <1>1, <1>11, <3>2, EntriesTaken
    <3>5. QED
      BY <3>3, <3>4
  <2>3. QED
    BY <2>1, <2>2
<1>14. Kicked(chan_msg_events', mods \ {m})
  <2>1. chan_msg_events' = IF Triggers(m) THEN DelChanGMsgEvent([msg |-> KickTrigger, owner |-> m])
                           ELSE chan_msg_events
    BY <1>3 DEF CommandsDeleted
  <2>2. QED
    BY <1>1, <1>11, <2>1, KickedLess
<1>15. /\ handlers' = [l \in Lists |-> handlers'[l]]
       /\ msglist' = [s \in Services |-> msglist'[s]] /\ cmds' = [s \in Services |-> cmds'[s]]
  <2>1. handlers' = [l \in Lists |-> handlers'[l]]
    BY <1>3 DEF HandlersWithout
  <2>2. (\E f : msglist' = [s \in Services |-> f[s]]) /\ \E f : cmds' = [s \in Services |-> f[s]]
    <3> DEFINE A == [s \in Services |->
                       IF s = m THEN NoMsgEvents
                       ELSE IF KeepsCommands(m) THEN msglist[s]
                       ELSE FoldLeft(LAMBDA list, c : DelUMsgEvent(list, HandlerOf(m, c)),
                                     msglist[s], CommandsTo(m, s))]
               B == [s \in Services |->
                       IF s = m THEN <<>>
                       ELSE IF KeepsCommands(m) THEN cmds[s]
                       ELSE Without(cmds[s], {e \in ToSet(cmds[s]) : e.owner = m})]
    <3>1. msglist' = A /\ cmds' = B
      BY <1>3, Zenon DEF CommandsDeleted
    <3>2. A = [s \in Services |-> A[s]] /\ B = [s \in Services |-> B[s]]
      BY Zenon
    <3> HIDE DEF A, B
    <3>3. QED
      BY <3>1, <3>2
  <2>3. QED
    BY <2>1, <2>2
<1>16. ListsHold'
  BY <1>3, <1>12, <1>13, <1>14, <1>15 DEF ListsHold
<1>17. QED
  BY <1>1, <1>2, <1>3, <1>4, <1>5, <1>8, <1>16 DEF ListInv

LEMMA ListStep == ListInv /\ [Next]_vars => ListInv'
<1> SUFFICES ASSUME ListInv, [Next]_vars PROVE ListInv'
  OBVIOUS
<1>1. AttachInv'
  BY AttachStep DEF ListInv
<1> DEFINE Same == UNCHANGED <<reloads, svs_modules, provides_list, handlers, cmds, msglist,
                               chan_msg_events>>
<1>2. ASSUME Same PROVE ListsHold' /\ (reloads' \intersect Kept = {})
                        /\ \A m \in Modules : Provides(m) \intersect provides_list' # {} => m \in svs_modules'
  BY <1>2 DEF ListInv, ListsHold
<1>3. CASE ModulesNext
  <2>1. CASE LoadNext
    BY <2>1, LoadListInv
  <2>2. CASE Started
    <3>1. Same /\ pending = <<>> /\ phase = "starting" /\ phase' = "running" /\ pending' = pending
      BY <2>2 DEF Started, cmdvars
    <3>2. "chanserv" \in svs_modules
      <4>1. \A a, b, c, d : <<a, b, c, d>> # <<>> /\ <<a, b, c>> # <<>>
        OBVIOUS
      <4>2. QED
        BY <3>1, <4>1, Zenon DEF ListInv, InOrder
    <3>3. InOrder' /\ PendingFresh'
      BY <3>1, <3>2 DEF ListInv, InOrder, PendingFresh
    <3>4. QED
      BY <1>1, <1>2, <3>1, <3>3 DEF ListInv
  <2>3. ASSUME NEW m \in Modules, ModuleLoad(m) PROVE ListInv'
    <3>1. Same /\ phase = "running" /\ phase' = phase /\ pending' = <<m>> /\ m \notin svs_modules
      BY <2>3 DEF ModuleLoad, MayCommand, cmdvars
    <3>2. InOrder'
      BY <3>1 DEF ListInv, InOrder
    <3>3. Once(<<m>>) /\ ToSet(<<m>>) = {m}
      BY DEF Once, ToSet
    <3>4. m \notin ToSet(ModulesFile(m))
      BY SuserRequired
    <3>5. PendingFresh'
      BY <3>1, <3>3, <3>4 DEF PendingFresh
    <3>6. QED
      BY <1>1, <1>2, <3>1, <3>2, <3>5 DEF ListInv
  <2>4. ASSUME NEW m \in reloads, ModuleUnload(m) PROVE ListInv'
    BY <2>4, UnloadListInv
  <2>5. QED
    BY <1>3, <2>1, <2>2, <2>3, <2>4 DEF ModulesNext
<1>4. CASE UNCHANGED modvars
  <2>1. Same /\ phase' = phase /\ pending' = pending
    BY <1>4 DEF modvars, cmdvars
  <2>2. InOrder' /\ PendingFresh'
    BY <2>1 DEF ListInv, InOrder, PendingFresh
  <2>3. QED
    BY <1>1, <1>2, <2>1, <2>2 DEF ListInv
<1>5. [Next]_vars => ModulesNext \/ UNCHANGED modvars
  BY DEF Next, vars, NewUser, Join, UserLeaves, ChanMessage, Message, Step
<1>6. QED
  BY <1>3, <1>4, <1>5

LEMMA AddsLists == \A m \in Modules : Adds(m) \subseteq Lists
BY ModulesNames DEF Adds, Lists, IrcLists, Events

-----------------------------------------------------------------------------
(* What is left to do                                                      *)

Deeds == {"user", "node", "umode", "abort", "mod_abort", "part", "free"}

Frames ==
  [do : Deeds \union {"raise", "call", "command"}, list : Lists \union {""}, rest : Seq(Modules)]

Frame(d, l, r) == [do |-> d, list |-> l, rest |-> r]

LEMMA FrameFields ==
  \A d, l, r : Frame(d, l, r).do = d /\ Frame(d, l, r).list = l /\ Frame(d, l, r).rest = r
BY DEF Frame

LEMMA FrameType ==
  \A d \in Deeds \union {"raise", "call", "command"}, l \in Lists \union {""} :
    \A r \in Seq(Modules) : Frame(d, l, r) \in Frames
BY DEF Frame, Frames

LEMMA DoFrame ==
  \A d \in Deeds : Do(d) = <<Frame(d, "", <<>>)>> /\ Frame(d, "", <<>>) \in Frames
<1>1. <<>> \in Seq(Modules)
  OBVIOUS
<1>2. \A d : Do(d) = <<Frame(d, "", <<>>)>>
  BY DEF Do, Frame
<1>3. QED
  BY <1>1, <1>2, FrameType

LEMMA RaiseFrame ==
  \A l \in Lists : Raise(l) = <<Frame("raise", l, <<>>)>> /\ Frame("raise", l, <<>>) \in Frames
<1>1. <<>> \in Seq(Modules)
  OBVIOUS
<1>2. \A l : Raise(l) = <<Frame("raise", l, <<>>)>>
  BY DEF Raise, Frame
<1>3. QED
  BY <1>1, <1>2, FrameType

LEMMA CallFrame ==
  \A l \in Lists : \A r \in Seq(Modules) :
    Call(l, r) = <<Frame("call", l, r)>> /\ Frame("call", l, r) \in Frames
<1>1. \A l, r : Call(l, r) = <<Frame("call", l, r)>>
  BY DEF Call, Frame
<1>2. QED
  BY <1>1, FrameType

LEMMA CommandFrame ==
  \A m \in Modules : Frame("command", "", <<m>>) \in Frames
<1>1. \A m \in Modules : <<m>> \in Seq(Modules)
  OBVIOUS
<1>2. QED
  BY <1>1, FrameType

LEMMA FrameSeqs ==
  /\ \A d \in Deeds : Do(d) \in Seq(Frames)
  /\ \A l \in Lists : Raise(l) \in Seq(Frames)
  /\ \A l \in Lists : \A r \in Seq(Modules) : Call(l, r) \in Seq(Frames)
<1>1. \A f \in Frames : <<f>> \in Seq(Frames)
  OBVIOUS
<1>2. QED
  BY <1>1, DoFrame, RaiseFrame, CallFrame

(* Two ways to join three sequences                                        *)
Rejoined(s, t, u) == (s \o t) \o u = s \o (t \o u)

LEMMA Assoc == \A s, t, u \in Seq(Frames) : Rejoined(s, t, u)
<1> SUFFICES ASSUME NEW s \in Seq(Frames), NEW t \in Seq(Frames), NEW u \in Seq(Frames)
             PROVE  Rejoined(s, t, u)
  OBVIOUS
<1>1. QED
  BY ConcatAssociative DEF Rejoined

LEMMA Pushed ==
  ASSUME NEW S, NEW f \in S, NEW s \in Seq(S)
  PROVE  /\ <<f>> \o s \in Seq(S) /\ <<f>> \o s # <<>>
         /\ Head(<<f>> \o s) = f /\ Tail(<<f>> \o s) = s
<1> DEFINE t == <<f>> \o s
<1>1. t \in Seq(S) /\ Len(t) = Len(s) + 1 /\ t[1] = f /\ Len(s) \in Nat
      /\ \A j \in 2..Len(s)+1 : t[j] = s[j - 1]
  OBVIOUS
<1> HIDE DEF t
<1>2. t # <<>> /\ Head(t) = f
  BY <1>1
<1>3. Tail(t) \in Seq(S) /\ Len(Tail(t)) = Len(s) /\ \A j \in 1..Len(s) : Tail(t)[j] = t[j + 1]
  BY <1>1, <1>2
<1>4. \A j \in 1..Len(s) : t[j + 1] = s[j]
  BY <1>1
<1>5. Tail(t) = s
  BY <1>3, <1>4, SeqEqual
<1>6. QED
  BY <1>1, <1>2, <1>5 DEF t

LEMMA Popped ==
  ASSUME NEW S, NEW s \in Seq(S), s # <<>>
  PROVE  s = <<Head(s)>> \o Tail(s) /\ Head(s) \in S /\ Tail(s) \in Seq(S)
<1> DEFINE f == Head(s)
           u == Tail(s)
           t == <<f>> \o u
<1>1. /\ f \in S /\ u \in Seq(S) /\ Len(u) = Len(s) - 1 /\ s[1] = f /\ Len(s) \in Nat
      /\ \A i \in 1..Len(u) : u[i] = s[i + 1]
  BY HeadTailProperties
<1> HIDE DEF f, u
<1>2. t \in Seq(S) /\ Len(t) = Len(s) /\ t[1] = s[1]
      /\ \A j \in 2..Len(s) : t[j] = u[j - 1]
  BY <1>1
<1> HIDE DEF t
<1>3. \A j \in 1..Len(s) : j = 1 \/ (j \in 2..Len(s) /\ j - 1 \in 1..Len(u) /\ (j - 1) + 1 = j)
  BY <1>1
<1>4. \A j \in 1..Len(s) : t[j] = s[j]
  BY <1>1, <1>2, <1>3
<1>5. t = s
  BY <1>2, <1>4, SeqEqual
<1>6. QED
  BY <1>1, <1>5 DEF f, u, t

-----------------------------------------------------------------------------
(* What is left to do at any time. w and e say that events of event.c and  *)
(* of modevents.c are aborted, a that the user exists, n that it is on the *)
(* channel, M which modules are loaded.                                    *)

NewCalls(M) == {Call("ET_NEW_USER", r) \o Do("umode") : r \in Seq(M)}

JoinRests == {<<>>, <<"chanserv">>, <<"os_uevent", "chanserv">>}

JoinCalls(M) == {Call("ET_CHAN_JOIN", r) : r \in JoinRests \intersect Seq(M)}

RegCalls(M) == {Call("e_regchan_join", r) \o Call("ET_CHAN_JOIN", <<>>) : r \in Seq(M)}

(* After a kill the event is aborted.                                      *)
Ends(M) == {<<>>} \union {Do("abort") \o s : s \in NewCalls(M) \union JoinCalls(M)}

Freed(M) == {Do("free") \o s : s \in Ends(M)}

Kicks(M) == {Do("mod_abort") \o s : s \in RegCalls(M)}

Parted(M) == {Do("part") \o s : s \in Freed(M) \union Kicks(M) \union {Do("user")}}

Commanded(M) == {<<Frame("command", "", <<m>>)>> : m \in M}

Core(s, w, e, a, n, M) ==
  \/ s \in Ends(M)
  \/ a /\ s = Raise("ET_NEW_USER") \o Do("umode")
  \/ (a \/ w) /\ (s = Do("umode") \/ s \in NewCalls(M))
  \/ a /\ s \in Freed(M) \union Kicks(M) \union Parted(M) \union Commanded(M)
  \/ a /\ n /\ (s = Raise("ET_CHAN_JOIN") \/ s = Raise("e_regchan_join") \o Call("ET_CHAN_JOIN", <<>>))
  \/ ((a /\ n) \/ w \/ s = Call("ET_CHAN_JOIN", <<>>)) /\ s \in JoinCalls(M)
  \/ a /\ (n \/ e \/ s = Call("e_regchan_join", <<>>) \o Call("ET_CHAN_JOIN", <<>>)) /\ s \in RegCalls(M)

(* The events whose handlers only use the user                             *)
Quiet == {"ET_KILL", "ET_CHAN_PART", "e_nick_identify"}

(* What is done before: it leaves the user and its node alone, but it may  *)
(* reset the flags.                                                        *)
Before(n, M) ==
  {f \in Frames :
     \/ f.do = "user"
     \/ f.do = "node" /\ n
     \/ f.do = "raise" /\ f.list \in Quiet
     \/ f.do = "call" /\ f.list \in Quiet /\ f.rest \in Seq(M)}

Good(s, w, e, a, n, M) ==
  \E p \in Seq(Before(n, M)), c \in Seq(Frames) :
    /\ s = p \o c
    /\ p # <<>> => a /\ Core(c, FALSE, FALSE, a, n, M)
    /\ p = <<>> => Core(c, w, e, a, n, M)

LEMMA CoreMore ==
  ASSUME NEW c, NEW w, NEW e, NEW a, NEW n, NEW M, Core(c, FALSE, FALSE, a, n, M)
  PROVE  Core(c, w, e, a, n, M)
BY Zenon DEF Core

LEMMA BeforeSeq ==
  ASSUME NEW n, NEW M, NEW p \in Seq(Before(n, M))
  PROVE  p \in Seq(Frames)
<1>1. Before(n, M) \subseteq Frames
  BY DEF Before
<1> DEFINE B == Before(n, M)
<1> HIDE DEF B
<1>2. p \in Seq(B) /\ B \subseteq Frames
  BY <1>1 DEF B
<1>3. QED
  BY <1>2

LEMMA GoodCore ==
  ASSUME NEW s \in Seq(Frames), NEW w, NEW e, NEW a, NEW n, NEW M, Core(s, w, e, a, n, M)
  PROVE  Good(s, w, e, a, n, M)
<1>1. <<>> \in Seq(Before(n, M)) /\ s = <<>> \o s
  BY ConcatEmptySeq
<1>2. QED
  BY <1>1, Zenon DEF Good

LEMMA GoodMore ==
  ASSUME NEW s, NEW w, NEW e, NEW a, NEW n, NEW M, Good(s, FALSE, FALSE, a, n, M)
  PROVE  Good(s, w, e, a, n, M)
<1>1. PICK p \in Seq(Before(n, M)), c \in Seq(Frames) :
        /\ s = p \o c
        /\ p # <<>> => a /\ Core(c, FALSE, FALSE, a, n, M)
        /\ p = <<>> => Core(c, FALSE, FALSE, a, n, M)
  BY Zenon DEF Good
<1>2. Core(c, w, e, a, n, M)
  BY <1>1, CoreMore, Zenon
<1>3. QED
  BY <1>1, <1>2, Zenon DEF Good

LEMMA GoodPush ==
  ASSUME NEW s, NEW w, NEW e, NEW a, NEW n, NEW M, Good(s, FALSE, FALSE, a, n, M), a,
         NEW f \in Before(n, M)
  PROVE  Good(<<f>> \o s, w, e, a, n, M)
<1>1. PICK p \in Seq(Before(n, M)), c \in Seq(Frames) :
        /\ s = p \o c
        /\ p # <<>> => a /\ Core(c, FALSE, FALSE, a, n, M)
        /\ p = <<>> => Core(c, FALSE, FALSE, a, n, M)
  BY Zenon DEF Good
<1> DEFINE q == <<f>> \o p
<1>2. q \in Seq(Before(n, M)) /\ q # <<>>
  BY Pushed, Zenon
<1>3. f \in Frames
  BY DEF Before
<1>4. <<f>> \in Seq(Frames) /\ p \in Seq(Frames)
  BY <1>3, BeforeSeq
<1>5. q \o c = <<f>> \o s
  <2>1. (<<f>> \o p) \o c = <<f>> \o (p \o c)
    <3>1. Rejoined(<<f>>, p, c)
      BY <1>4, Assoc
    <3>2. QED
      BY <3>1 DEF Rejoined
  <2>2. QED
    BY <1>1, <2>1
<1> HIDE DEF q
<1>6. QED
  BY <1>1, <1>2, <1>5, Zenon DEF Good

LEMMA GoodTop ==
  ASSUME NEW s, NEW w, NEW e, NEW a, NEW n, NEW M, Good(s, w, e, a, n, M)
  PROVE  \/ Core(s, w, e, a, n, M)
         \/ a /\ Head(s) \in Before(n, M) /\ Good(Tail(s), FALSE, FALSE, a, n, M)
<1>1. PICK p \in Seq(Before(n, M)), c \in Seq(Frames) :
        /\ s = p \o c
        /\ p # <<>> => a /\ Core(c, FALSE, FALSE, a, n, M)
        /\ p = <<>> => Core(c, w, e, a, n, M)
  BY Zenon DEF Good
<1>2. CASE p = <<>>
  <2>1. s = c
    BY <1>1, <1>2, ConcatEmptySeq, Zenon
  <2>2. QED
    BY <1>1, <1>2, <2>1, Zenon
<1>3. CASE p # <<>>
  <2> DEFINE f == Head(p)
             u == Tail(p)
  <2>1. p = <<f>> \o u /\ f \in Before(n, M) /\ u \in Seq(Before(n, M))
    BY <1>3, Popped, Zenon
  <2> HIDE DEF f, u
  <2>2. f \in Frames
    BY <2>1 DEF Before
  <2>3. <<f>> \in Seq(Frames) /\ u \in Seq(Frames)
    BY <2>1, <2>2, BeforeSeq
  <2>4. s = <<f>> \o (u \o c)
    <3>1. (<<f>> \o u) \o c = <<f>> \o (u \o c)
      <4>1. Rejoined(<<f>>, u, c)
        BY <2>3, Assoc
      <4>2. QED
        BY <4>1 DEF Rejoined
    <3>2. QED
      BY <1>1, <2>1, <3>1
  <2>5. u \o c \in Seq(Frames)
    BY <2>3, ConcatProperties, Zenon
  <2>6. Head(s) = f /\ Tail(s) = u \o c
    BY <2>2, <2>4, <2>5, Pushed, Zenon
  <2>7. Core(c, FALSE, FALSE, a, n, M) /\ a
    BY <1>1, <1>3, Zenon
  <2>8. Good(u \o c, FALSE, FALSE, a, n, M)
    BY <2>1, <2>7, Zenon DEF Good
  <2>9. QED
    BY <2>1, <2>6, <2>7, <2>8, Zenon
<1>4. QED
  BY <1>2, <1>3

LEMMA GoodTyped ==
  ASSUME NEW s, NEW w, NEW e, NEW a, NEW n, NEW M, Good(s, w, e, a, n, M)
  PROVE  s \in Seq(Frames)
<1>1. PICK p \in Seq(Before(n, M)), c \in Seq(Frames) : s = p \o c
  BY Zenon DEF Good
<1>2. p \in Seq(Frames)
  BY BeforeSeq
<1>3. QED
  BY <1>1, <1>2, ConcatProperties

LEMMA Joined ==
  ASSUME NEW s \in Seq(Frames), NEW t \in Seq(Frames)
  PROVE  s \o t \in Seq(Frames)
BY ConcatProperties

LEMMA Handed ==
  /\ \A d \in Deeds : d \in Deeds => Do(d) \in Seq(Frames)
  /\ {"ET_NEW_USER", "ET_CHAN_JOIN", "e_regchan_join"} \subseteq Lists /\ Quiet \subseteq Lists
  /\ <<>> \in Seq(Modules) /\ <<>> \in Seq(Frames)
<1>1. {"ET_NEW_USER", "ET_CHAN_JOIN", "e_regchan_join"} \subseteq Lists /\ Quiet \subseteq Lists
  BY DEF Lists, IrcLists, Events, Quiet
<1>2. <<>> \in Seq(Modules) /\ <<>> \in Seq(Frames)
  OBVIOUS
<1>3. QED
  BY <1>1, <1>2, FrameSeqs

LEMMA DoneSeqs ==
  /\ Do("user") \in Seq(Frames) /\ Do("node") \in Seq(Frames) /\ Do("umode") \in Seq(Frames)
  /\ Do("abort") \in Seq(Frames) /\ Do("mod_abort") \in Seq(Frames)
  /\ Do("part") \in Seq(Frames) /\ Do("free") \in Seq(Frames)
BY FrameSeqs DEF Deeds

LEMMA RestSeqs ==
  ASSUME NEW M \in SUBSET Modules, NEW r \in Seq(M)
  PROVE  r \in Seq(Modules)
OBVIOUS

LEMMA LoudTyped ==
  ASSUME NEW M \in SUBSET Modules
  PROVE  NewCalls(M) \subseteq Seq(Frames) /\ JoinCalls(M) \subseteq Seq(Frames)
         /\ RegCalls(M) \subseteq Seq(Frames)
<1>1. ASSUME NEW r \in Seq(M)
      PROVE  /\ Call("ET_NEW_USER", r) \in Seq(Frames) /\ Call("ET_CHAN_JOIN", r) \in Seq(Frames)
             /\ Call("e_regchan_join", r) \in Seq(Frames)
  <2>1. r \in Seq(Modules)
    BY RestSeqs
  <2>2. QED
    BY <2>1, FrameSeqs, Handed
<1>2. Call("ET_CHAN_JOIN", <<>>) \in Seq(Frames)
  BY FrameSeqs, Handed
<1>3. \A r \in Seq(M) : Call("ET_NEW_USER", r) \o Do("umode") \in Seq(Frames)
  BY <1>1, DoneSeqs, Joined
<1>4. \A r \in Seq(M) : Call("e_regchan_join", r) \o Call("ET_CHAN_JOIN", <<>>) \in Seq(Frames)
  BY <1>1, <1>2, Joined
<1>5. QED
  BY <1>1, <1>3, <1>4 DEF NewCalls, JoinCalls, RegCalls

LEMMA RestTyped ==
  ASSUME NEW M \in SUBSET Modules
  PROVE  /\ Ends(M) \subseteq Seq(Frames) /\ Freed(M) \subseteq Seq(Frames)
         /\ Kicks(M) \subseteq Seq(Frames) /\ Parted(M) \subseteq Seq(Frames)
<1>1. Ends(M) \subseteq Seq(Frames)
  BY LoudTyped, Handed, DoneSeqs, Joined DEF Ends
<1>2. Freed(M) \subseteq Seq(Frames)
  BY <1>1, DoneSeqs, Joined DEF Freed
<1>3. Kicks(M) \subseteq Seq(Frames)
  BY LoudTyped, DoneSeqs, Joined DEF Kicks
<1>4. Parted(M) \subseteq Seq(Frames)
  BY <1>2, <1>3, DoneSeqs, Joined DEF Parted
<1>5. QED
  BY <1>1, <1>2, <1>3, <1>4

LEMMA UserBefore ==
  ASSUME NEW s \in Seq(Frames), NEW w, NEW e, NEW a, NEW n, NEW M, a, Good(s, FALSE, FALSE, a, n, M)
  PROVE  /\ Good(Do("user") \o s, w, e, a, n, M)
         /\ n => Good(Do("node") \o s, w, e, a, n, M)
         /\ \A l \in Quiet : Good(Raise(l) \o s, w, e, a, n, M)
<1>1. Frame("user", "", <<>>) \in Before(n, M) /\ Do("user") = <<Frame("user", "", <<>>)>>
  BY DoFrame, FrameFields DEF Before, Deeds
<1>2. n => Frame("node", "", <<>>) \in Before(n, M) /\ Do("node") = <<Frame("node", "", <<>>)>>
  BY DoFrame, FrameFields DEF Before, Deeds
<1>3. ASSUME NEW l \in Quiet
      PROVE Frame("raise", l, <<>>) \in Before(n, M) /\ Raise(l) = <<Frame("raise", l, <<>>)>>
  BY RaiseFrame, FrameFields, Handed DEF Before
<1>4. \A f \in Before(n, M) : Good(<<f>> \o s, w, e, a, n, M)
  BY GoodPush
<1>5. QED
  BY <1>1, <1>2, <1>3, <1>4, Zenon

LEMMA PartsBefore ==
  ASSUME NEW M \in SUBSET Modules, NEW x \in Freed(M) \union Kicks(M) \union {Do("user")},
         NEW w, NEW e, NEW a, NEW n, a
  PROVE  Good(Parts \o x, w, e, a, n, M) /\ Parts \o x \in Seq(Frames)
<1>1. x \in Seq(Frames) /\ Do("part") \o x \in Parted(M)
  BY RestTyped, DoneSeqs DEF Parted
<1> DEFINE y == Do("part") \o x
<1>2. y \in Seq(Frames) /\ Core(y, FALSE, FALSE, a, n, M)
  BY <1>1, RestTyped, Zenon DEF Core
<1>3. Good(y, FALSE, FALSE, a, n, M)
  BY <1>2, GoodCore, Zenon
<1>4. "ET_CHAN_PART" \in Quiet
  BY DEF Quiet
<1>5. Raise("ET_CHAN_PART") \in Seq(Frames)
  BY <1>4, FrameSeqs, Handed
<1>6. Parts \o x = Raise("ET_CHAN_PART") \o y
  <2>1. Parts \o x = (Raise("ET_CHAN_PART") \o Do("part")) \o x
    BY DEF Parts
  <2>2. (Raise("ET_CHAN_PART") \o Do("part")) \o x = Raise("ET_CHAN_PART") \o (Do("part") \o x)
    <3>1. Do("part") \in Seq(Frames) /\ x \in Seq(Frames)
      BY <1>1, DoneSeqs
    <3> DEFINE p == Raise("ET_CHAN_PART")
               q == Do("part")
    <3>2. p \in Seq(Frames) /\ q \in Seq(Frames)
      BY <1>5, <3>1
    <3> HIDE DEF p, q
    <3>3. (p \o q) \o x = p \o (q \o x)
      <4>1. Rejoined(p, q, x)
        BY <3>1, <3>2, Assoc
      <4>2. QED
        BY <4>1 DEF Rejoined
    <3>4. QED
      BY <3>3 DEF p, q
  <2>3. QED
    BY <2>1, <2>2, Zenon
<1> HIDE DEF y
<1>7. Good(Raise("ET_CHAN_PART") \o y, w, e, a, n, M)
  BY <1>2, <1>3, <1>4, UserBefore, Zenon
<1>8. QED
  BY <1>2, <1>5, <1>6, <1>7, Joined, Zenon

LEMMA KilledBefore ==
  ASSUME NEW M \in SUBSET Modules, NEW x \in Ends(M), NEW w, NEW e, NEW a, NEW n, a
  PROVE  Good(Killed \o x, w, e, a, n, M) /\ Killed \o x \in Seq(Frames) /\ Killed \in Seq(Frames)
<1> DEFINE y == Do("free") \o x
           b == IF member THEN Parts ELSE <<>>
<1>1. x \in Seq(Frames) /\ y \in Seq(Frames) /\ y \in Freed(M)
  BY RestTyped DEF Freed
<1>2. Core(y, FALSE, FALSE, a, n, M)
  BY <1>1, Zenon DEF Core
<1>3. "ET_KILL" \in Quiet /\ "ET_CHAN_PART" \in Quiet
  BY DEF Quiet
<1>4. Raise("ET_KILL") \in Seq(Frames) /\ Raise("ET_CHAN_PART") \in Seq(Frames)
  BY <1>3, FrameSeqs, Handed
<1>5. Parts \in Seq(Frames)
  BY <1>4, DoneSeqs, Joined DEF Parts
<1>6. b \in Seq(Frames)
  BY <1>5, Handed
<1>7. Good(b \o y, FALSE, FALSE, a, n, M) /\ b \o y \in Seq(Frames)
  <2>1. CASE member
    <3>1. b = Parts
      BY <2>1
    <3> HIDE DEF b, y
    <3>2. QED
      BY <1>1, <3>1, PartsBefore
  <2>2. CASE ~member
    <3>1. b \o y = y
      BY <1>1, <2>2, ConcatEmptySeq
    <3> HIDE DEF b, y
    <3>2. QED
      BY <1>1, <1>2, <3>1, GoodCore, Zenon
  <2>3. QED
    BY <2>1, <2>2
<1>8. Killed = (Raise("ET_KILL") \o b) \o Do("free") /\ Killed \in Seq(Frames)
  <2>1. Killed = (Raise("ET_KILL") \o b) \o Do("free")
    BY DEF Killed
  <2> HIDE DEF b
  <2>2. QED
    BY <1>4, <1>6, <2>1, DoneSeqs, Joined
<1> HIDE DEF b
<1>9. Killed \o x = Raise("ET_KILL") \o (b \o y)
  <2>1. Killed \o x = (Raise("ET_KILL") \o b) \o y
    <3>1. Raise("ET_KILL") \o b \in Seq(Frames)
      BY <1>4, <1>6, Joined
    <3>2. QED
      <4> DEFINE p == Raise("ET_KILL") \o b
                 q == Do("free")
      <4>1. p \in Seq(Frames) /\ q \in Seq(Frames) /\ x \in Seq(Frames) /\ Killed = p \o q
        BY <1>1, <1>8, <3>1, DoneSeqs
      <4> HIDE DEF p, q
      <4>2. Rejoined(p, q, x)
        BY <4>1, Assoc
      <4>3. Killed \o x = p \o (q \o x)
        BY <4>1, <4>2 DEF Rejoined
      <4>4. QED
        BY <4>3 DEF p, q
  <2> HIDE DEF y
  <2>2. (Raise("ET_KILL") \o b) \o y = Raise("ET_KILL") \o (b \o y)
    <3>1. Rejoined(Raise("ET_KILL"), b, y)
      BY <1>1, <1>4, <1>6, Assoc
    <3>2. QED
      BY <3>1 DEF Rejoined
  <2>3. QED
    BY <2>1, <2>2, Zenon
<1> HIDE DEF y
<1>10. Good(Raise("ET_KILL") \o (b \o y), w, e, a, n, M)
  BY <1>3, <1>7, UserBefore, Zenon
<1>11. Killed \o x \in Seq(Frames)
  BY <1>1, <1>8, Joined
<1>12. QED
  BY <1>8, <1>9, <1>10, <1>11, Zenon

-----------------------------------------------------------------------------
(* The invariant of what is left to do, and what a step does to it          *)

GoodNext == Good(stack', was_aborted', event_was_aborted', alive', member', svs_modules)

(* Nothing is under way before the start; then it has one of those shapes. *)
StackInv ==
  /\ stack # <<>> => phase = "running"
  /\ Good(stack, was_aborted, event_was_aborted, alive, member, svs_modules)

LEMMA Stepped ==
  ASSUME Step, NEW f \in Frames, NEW u \in Seq(Frames), stack = <<f>> \o u
  PROVE  /\ Top = f /\ Below = u
         /\ f.do \in {"user", "node", "umode"} =>
              stack' = u /\ UNCHANGED <<was_aborted, event_was_aborted, alive, member>>
         /\ f.do = "raise" =>
              stack' = Call(f.list, handlers[f.list]) \o u /\ UNCHANGED <<alive, member>>
         /\ f.do = "call" =>
              /\ UNCHANGED <<was_aborted, event_was_aborted, alive, member>>
              /\ \/ (f.rest = <<>> \/ Aborted(f.list)) /\ stack' = u
                 \/ /\ f.rest # <<>> /\ ~Aborted(f.list)
                    /\ \E d \in Handler(Head(f.rest), f.list) :
                         stack' = d \o Call(f.list, Tail(f.rest)) \o u
         /\ f.do = "command" =>
              /\ UNCHANGED <<was_aborted, event_was_aborted, alive, member>>
              /\ stack' = Do("user") \o u \/ stack' = Parts \o Do("user") \o u
         /\ f.do = "abort" => stack' = u /\ was_aborted' /\ UNCHANGED <<alive, member>>
         /\ f.do = "mod_abort" => stack' = u /\ event_was_aborted' /\ UNCHANGED <<alive, member>>
         /\ f.do = "part" => stack' = u /\ UNCHANGED alive
         /\ f.do = "free" => stack' = u
<1>1. Top = f /\ Below = u
  BY Pushed DEF Top, Below
<1>2. \/ RaiseEvent \/ CallHandler \/ RunCommand \/ Abort \/ Touch \/ Part \/ Free
  BY DEF Step
<1>3. f.do \in {"user", "node", "umode"} =>
        stack' = u /\ UNCHANGED <<was_aborted, event_was_aborted, alive, member>>
  BY <1>1, <1>2 DEF RaiseEvent, CallHandler, RunCommand, Abort, Touch, Part, Free
<1>4. f.do = "raise" => stack' = Call(f.list, handlers[f.list]) \o u /\ UNCHANGED <<alive, member>>
  BY <1>1, <1>2 DEF RaiseEvent, CallHandler, RunCommand, Abort, Touch, Part, Free
<1>5. ASSUME f.do = "call"
      PROVE  /\ UNCHANGED <<was_aborted, event_was_aborted, alive, member>>
             /\ \/ (f.rest = <<>> \/ Aborted(f.list)) /\ stack' = u
                \/ /\ f.rest # <<>> /\ ~Aborted(f.list)
                   /\ \E d \in Handler(Head(f.rest), f.list) :
                        stack' = d \o Call(f.list, Tail(f.rest)) \o u
  <2>1. CallHandler
    BY <1>1, <1>2, <1>5 DEF RaiseEvent, RunCommand, Abort, Touch, Part, Free
  <2>2. QED
    BY <1>1, <2>1, Zenon DEF CallHandler
<1>6. f.do = "command" =>
        /\ UNCHANGED <<was_aborted, event_was_aborted, alive, member>>
        /\ stack' = Do("user") \o u \/ stack' = Parts \o Do("user") \o u
  BY <1>1, <1>2 DEF RaiseEvent, CallHandler, RunCommand, Abort, Touch, Part, Free
<1>7. ASSUME f.do \in {"abort", "mod_abort"}
      PROVE  /\ stack' = u /\ UNCHANGED <<alive, member>>
             /\ f.do = "abort" => was_aborted'
             /\ f.do = "mod_abort" => event_was_aborted'
  <2>1. Abort
    BY <1>1, <1>2, <1>7 DEF RaiseEvent, CallHandler, RunCommand, Touch, Part, Free
  <2>2. QED
    BY <1>1, <2>1, Zenon DEF Abort
<1>8. f.do = "part" => stack' = u /\ UNCHANGED alive
  BY <1>1, <1>2 DEF RaiseEvent, CallHandler, RunCommand, Abort, Touch, Part, Free
<1>9. f.do = "free" => stack' = u
  BY <1>1, <1>2 DEF RaiseEvent, CallHandler, RunCommand, Abort, Touch, Part, Free
<1>10. QED
  BY <1>1, <1>3, <1>4, <1>5, <1>6, <1>7, <1>8, <1>9

-----------------------------------------------------------------------------
(* What handlers do                                                        *)

LEMMA QuietHandler ==
  ASSUME NEW m, NEW l \in Quiet
  PROVE  Handler(m, l) = {Do("user")}
BY DEF Handler, Quiet

LEMMA NewHandler ==
  ASSUME NEW m
  PROVE  Handler(m, "ET_NEW_USER") \subseteq
           {Do("user"), Do("user") \o KillThenAbort,
            Do("user") \o Raise("e_nick_identify") \o Do("user")}
BY DEF Handler

LEMMA JoinHandler ==
  /\ Handler("os_uevent", "ET_CHAN_JOIN") = {Do("node"), Do("node") \o KillThenAbort}
  /\ Handler("chanserv", "ET_CHAN_JOIN") = {Do("node"), Do("node") \o Raise("e_regchan_join")}
BY DEF Handler

LEMMA RegHandler ==
  ASSUME NEW m
  PROVE  Handler(m, "e_regchan_join") \subseteq {Do("node"), Do("node") \o KickThenAbort, Do("user")}
BY DEF Handler

(* What is called *)
LEMMA Attending ==
  ASSUME ListInv, NEW l \in Lists
  PROVE  handlers[l] \in Seq(svs_modules)
<1>1. handlers[l] \in Seq(Modules) /\ ToSet(handlers[l]) \subseteq svs_modules
  BY DEF ListInv, ListsHold, Attended, AttendsOf
<1> DEFINE s == handlers[l]
           M == svs_modules
<1> HIDE DEF s, M
<1>2. s \in Seq(Modules) /\ ToSet(s) \subseteq M
  BY <1>1 DEF s, M
<1>3. \A i \in 1..Len(s) : s[i] \in M
  BY <1>2 DEF ToSet
<1>4. s \in Seq(M)
  BY <1>2, <1>3
<1>5. QED
  BY <1>4 DEF s, M

LEMMA OnlyOne ==
  ASSUME NEW S, NEW s \in Seq(S), NEW x, Once(s), ToSet(s) = {x}
  PROVE  s = <<x>>
<1>1. DOMAIN s = 1..Len(s) /\ Len(s) \in Nat
  BY LenProperties
<1>2. \A i \in 1..Len(s) : s[i] = x
  BY <1>1 DEF ToSet
<1>3. \E i \in 1..Len(s) : TRUE
  BY <1>1 DEF ToSet
<1>4. Len(s) = 1
  <2>1. ASSUME Len(s) >= 2 PROVE FALSE
    <3>1. 1 \in DOMAIN s /\ 2 \in DOMAIN s /\ s[1] = s[2]
      BY <1>1, <1>2, <2>1
    <3>2. QED
      BY <3>1 DEF Once
  <2>2. QED
    BY <1>1, <1>3, <2>1
<1>5. QED
  BY <1>2, <1>4

LEMMA JoinAttending ==
  ASSUME ListInv, phase = "running"
  PROVE  handlers["ET_CHAN_JOIN"] \in JoinRests \intersect Seq(svs_modules)
<1> DEFINE l == "ET_CHAN_JOIN"
           list == handlers[l]
<1>1. l \in Lists
  BY Handed
<1>2. list \in Seq(svs_modules)
  BY <1>1, Attending
<1>3. "chanserv" \in svs_modules /\ svs_modules \subseteq Modules
  BY DEF ListInv, InOrder, AttachInv
<1>4. CASE "os_uevent" \in svs_modules
  BY <1>2, <1>3, <1>4 DEF ListInv, InOrder, JoinRests
<1>5. CASE "os_uevent" \notin svs_modules
  <2>1. AttendsOf(svs_modules, l) = {"chanserv"}
    <3>1. \A x \in svs_modules : l \in Adds(x) <=> x = "chanserv"
      BY <1>3, <1>5, ModulesNames DEF Adds
    <3>2. QED
      BY <1>3, <3>1 DEF AttendsOf
  <2>2. Once(list) /\ ToSet(list) = {"chanserv"}
    BY <1>1, <2>1 DEF ListInv, ListsHold, Attended
  <2> HIDE DEF list
  <2>3. list = <<"chanserv">>
    BY <1>2, <2>2, OnlyOne
  <2>4. list \in JoinRests
    BY <2>3 DEF JoinRests
  <2>5. QED
    BY <1>2, <2>4 DEF list
<1>6. QED
  BY <1>4, <1>5

LEMMA BeforeStep ==
  ASSUME ListInv, Step, NEW f \in Before(member, svs_modules), NEW u \in Seq(Frames),
         stack = <<f>> \o u, alive, Good(u, FALSE, FALSE, alive, member, svs_modules)
  PROVE  GoodNext
<1> DEFINE M == svs_modules
           G(s) == Good(s, was_aborted', event_was_aborted', alive, member, M)
           Q(s) == Good(s, FALSE, FALSE, alive, member, M)
<1>1. svs_modules' = M /\ M \in SUBSET Modules
  BY DEF Step, modvars, ListInv, AttachInv
<1>2. f \in Frames
  BY DEF Before
<1>3. G(u)
  BY GoodMore, Zenon
<1>4. CASE f.do \in {"user", "node"}
  <2>1. stack' = u /\ alive' = alive /\ member' = member
    BY <1>2, <1>4, Stepped
  <2>2. QED
    BY <1>1, <1>3, <2>1 DEF GoodNext
<1>5. CASE f.do = "raise"
  <2> DEFINE l == f.list
             g == Frame("call", l, handlers[l])
  <2>1. l \in Quiet /\ l \in Lists
    BY <1>5, Handed DEF Before
  <2>2. handlers[l] \in Seq(M) /\ handlers[l] \in Seq(Modules)
    BY <1>1, <2>1, Attending, RestSeqs
  <2>3. stack' = Call(l, handlers[l]) \o u /\ alive' = alive /\ member' = member
    BY <1>2, <1>5, Stepped
  <2>4. Call(l, handlers[l]) = <<g>> /\ g \in Frames /\ g.do = "call" /\ g.list = l /\ g.rest = handlers[l]
    BY <2>1, <2>2, CallFrame, FrameFields
  <2> HIDE DEF g, l
  <2>5. g \in Before(member, M)
    BY <2>1, <2>2, <2>4 DEF Before
  <2>6. Good(<<g>> \o u, was_aborted', event_was_aborted', alive, member, M)
    BY <2>5, GoodPush
  <2>7. QED
    BY <1>1, <2>3, <2>4, <2>6 DEF GoodNext
<1>6. CASE f.do = "call"
  <2> DEFINE l == f.list
             r == f.rest
             g == Frame("call", l, Tail(r))
  <2>1. l \in Quiet /\ l \in Lists /\ r \in Seq(M)
    BY <1>6, Handed DEF Before
  <2>2. alive' = alive /\ member' = member
        /\ was_aborted' = was_aborted /\ event_was_aborted' = event_was_aborted
    BY <1>2, <1>6, Stepped
  <2>3. \/ stack' = u
        \/ r # <<>> /\ \E d \in Handler(Head(r), l) : stack' = d \o Call(l, Tail(r)) \o u
    BY <1>2, <1>6, Stepped
  <2>4. CASE stack' = u
    BY <1>1, <1>3, <2>2, <2>4 DEF GoodNext
  <2>5. CASE r # <<>> /\ stack' = Do("user") \o Call(l, Tail(r)) \o u
    <3>1. Tail(r) \in Seq(M) /\ Tail(r) \in Seq(Modules)
      BY <1>1, <2>1, <2>5, RestSeqs
    <3>2. Call(l, Tail(r)) = <<g>> /\ g \in Frames /\ g.do = "call" /\ g.list = l /\ g.rest = Tail(r)
      <4> DEFINE t == Tail(r)
      <4>1. t \in Seq(Modules)
        BY <3>1
      <4> HIDE DEF t, l, r
      <4>2. Call(l, t) = <<Frame("call", l, t)>> /\ Frame("call", l, t) \in Frames
        BY <2>1, <4>1, CallFrame
      <4>3. /\ Frame("call", l, t).do = "call" /\ Frame("call", l, t).list = l
            /\ Frame("call", l, t).rest = t
        BY FrameFields
      <4>4. QED
        BY <4>2, <4>3, Zenon DEF t
    <3> HIDE DEF g, l, r
    <3>3. g \in Before(member, M)
      BY <2>1, <3>1, <3>2 DEF Before
    <3> DEFINE s == <<g>> \o u
               d == Do("user")
               c == <<g>>
    <3>4. s \in Seq(Frames) /\ c \in Seq(Frames) /\ d \in Seq(Frames)
      BY <3>2, Pushed, DoneSeqs
    <3>5. Good(s, FALSE, FALSE, alive, member, M)
      BY <3>3, GoodPush
    <3>6. (d \o c) \o u = d \o (c \o u)
      <4> HIDE DEF d, c
      <4>1. Rejoined(d, c, u)
        BY <3>4, Assoc
      <4>2. QED
        BY <4>1 DEF Rejoined
    <3> HIDE DEF s
    <3>7. Good(Do("user") \o s, was_aborted', event_was_aborted', alive, member, M)
      BY <3>4, <3>5, UserBefore, Zenon
    <3>8. stack' = Do("user") \o s
      BY <2>5, <3>2, <3>6 DEF s
    <3>9. QED
      BY <1>1, <2>2, <3>7, <3>8 DEF GoodNext
  <2>6. QED
    BY <2>1, <2>3, <2>4, <2>5, QuietHandler
<1>7. QED
  BY <1>4, <1>5, <1>6 DEF Before

-----------------------------------------------------------------------------
(* From every shape of what is left to do, a step leads to another          *)

LEMMA DoneFrame ==
  ASSUME NEW d \in Deeds
  PROVE  /\ Do(d) = <<Frame(d, "", <<>>)>> /\ Frame(d, "", <<>>) \in Frames
         /\ Frame(d, "", <<>>).do = d
BY DoFrame, FrameFields

LEMMA CalledFrame ==
  ASSUME NEW l \in Lists, NEW r \in Seq(Modules)
  PROVE  /\ Call(l, r) = <<Frame("call", l, r)>> /\ Frame("call", l, r) \in Frames
         /\ Frame("call", l, r).do = "call" /\ Frame("call", l, r).list = l
         /\ Frame("call", l, r).rest = r
BY CallFrame, FrameFields

LEMMA RaisedFrame ==
  ASSUME NEW l \in Lists
  PROVE  /\ Raise(l) = <<Frame("raise", l, <<>>)>> /\ Frame("raise", l, <<>>) \in Frames
         /\ Frame("raise", l, <<>>).do = "raise" /\ Frame("raise", l, <<>>).list = l
BY RaiseFrame, FrameFields

(* ... with something behind it                                            *)
LEMMA DoStep ==
  ASSUME Step, NEW d \in Deeds, NEW u \in Seq(Frames), stack = Do(d) \o u
  PROVE  /\ d \in {"user", "node", "umode"} =>
              stack' = u /\ UNCHANGED <<was_aborted, event_was_aborted, alive, member>>
         /\ d = "abort" => stack' = u /\ was_aborted' /\ UNCHANGED <<alive, member>>
         /\ d = "mod_abort" => stack' = u /\ event_was_aborted' /\ UNCHANGED <<alive, member>>
         /\ d = "part" => stack' = u /\ UNCHANGED alive
         /\ d = "free" => stack' = u
<1> DEFINE f == Frame(d, "", <<>>)
<1>1. f \in Frames /\ f.do = d /\ stack = <<f>> \o u
  BY DoneFrame
<1> HIDE DEF f
<1>2. QED
  BY <1>1, Stepped

LEMMA RaiseStep ==
  ASSUME Step, NEW l \in Lists, NEW u \in Seq(Frames), stack = Raise(l) \o u
  PROVE  stack' = Call(l, handlers[l]) \o u /\ UNCHANGED <<alive, member>>
<1> DEFINE f == Frame("raise", l, <<>>)
<1>1. f \in Frames /\ f.do = "raise" /\ f.list = l /\ stack = <<f>> \o u
  BY RaisedFrame
<1> HIDE DEF f
<1>2. QED
  BY <1>1, Stepped

LEMMA CallStep ==
  ASSUME Step, NEW l \in Lists, NEW r \in Seq(Modules), NEW u \in Seq(Frames),
         stack = Call(l, r) \o u
  PROVE  /\ UNCHANGED <<was_aborted, event_was_aborted, alive, member>>
         /\ \/ stack' = u
            \/ /\ r # <<>> /\ ~Aborted(l) /\ Tail(r) \in Seq(Modules)
               /\ \E d \in Handler(Head(r), l) : stack' = d \o Call(l, Tail(r)) \o u
<1> DEFINE f == Frame("call", l, r)
<1>1. f \in Frames /\ f.do = "call" /\ f.list = l /\ f.rest = r /\ stack = <<f>> \o u
  BY CalledFrame
<1> HIDE DEF f
<1>2. r # <<>> => Tail(r) \in Seq(Modules)
  OBVIOUS
<1>3. QED
  BY <1>1, <1>2, Stepped

Loaded == svs_modules \in SUBSET Modules /\ svs_modules' = svs_modules

LEMMA FreedStep ==
  ASSUME Loaded, Step, stack \in Freed(svs_modules)
  PROVE  GoodNext
<1>1. PICK s \in Ends(svs_modules) : stack = Do("free") \o s
  BY DEF Freed
<1>2. s \in Seq(Frames)
  BY RestTyped DEF Loaded
<1>3. stack' = s
  BY <1>1, <1>2, DoStep DEF Deeds
<1>4. Core(s, was_aborted', event_was_aborted', alive', member', svs_modules)
  BY Zenon DEF Core
<1>5. Good(s, was_aborted', event_was_aborted', alive', member', svs_modules)
  BY <1>2, <1>4, GoodCore, Zenon
<1>6. QED
  BY <1>3, <1>5 DEF GoodNext, Loaded

LEMMA EndsStep ==
  ASSUME Loaded, Step, stack \in Ends(svs_modules)
  PROVE  GoodNext
<1>1. stack # <<>>
  BY DEF Step
<1>2. PICK s \in NewCalls(svs_modules) \union JoinCalls(svs_modules) : stack = Do("abort") \o s
  BY <1>1 DEF Ends
<1>3. s \in Seq(Frames)
  BY LoudTyped DEF Loaded
<1>4. stack' = s /\ was_aborted'
  BY <1>2, <1>3, DoStep DEF Deeds
<1>5. Core(s, was_aborted', event_was_aborted', alive', member', svs_modules)
  BY <1>4, Zenon DEF Core
<1>6. Good(s, was_aborted', event_was_aborted', alive', member', svs_modules)
  BY <1>3, <1>5, GoodCore, Zenon
<1>7. QED
  BY <1>4, <1>6 DEF GoodNext, Loaded

LEMMA KicksStep ==
  ASSUME Loaded, Step, alive, stack \in Kicks(svs_modules)
  PROVE  GoodNext
<1>1. PICK s \in RegCalls(svs_modules) : stack = Do("mod_abort") \o s
  BY DEF Kicks
<1>2. s \in Seq(Frames)
  BY LoudTyped DEF Loaded
<1>3. stack' = s /\ event_was_aborted' /\ alive' = alive
  BY <1>1, <1>2, DoStep DEF Deeds
<1>4. Core(s, was_aborted', event_was_aborted', alive, member', svs_modules)
  BY <1>3, Zenon DEF Core
<1>5. Good(s, was_aborted', event_was_aborted', alive, member', svs_modules)
  BY <1>2, <1>4, GoodCore, Zenon
<1>6. QED
  BY <1>3, <1>5 DEF GoodNext, Loaded

(* Only the use of the user is left.                                       *)
LEMMA UserLast ==
  ASSUME NEW w, NEW e, NEW a, NEW n, NEW M, a
  PROVE  Good(Do("user"), w, e, a, n, M) /\ Core(<<>>, w, e, a, n, M)
         /\ Good(<<>>, w, e, a, n, M)
<1>1. \A x, y : Core(<<>>, x, y, a, n, M)
  BY Zenon DEF Core, Ends
<1>2. <<>> \in Seq(Frames)
  OBVIOUS
<1>3. \A x, y : Good(<<>>, x, y, a, n, M)
  BY <1>1, <1>2, GoodCore, Zenon
<1>4. Good(Do("user") \o <<>>, w, e, a, n, M)
  BY <1>2, <1>3, UserBefore, Zenon
<1>5. Do("user") \o <<>> = Do("user")
  BY DoneSeqs, ConcatEmptySeq
<1>6. QED
  BY <1>1, <1>3, <1>4, <1>5, Zenon

LEMMA PartedStep ==
  ASSUME Loaded, Step, alive, stack \in Parted(svs_modules)
  PROVE  GoodNext
<1>1. PICK s \in Freed(svs_modules) \union Kicks(svs_modules) \union {Do("user")} :
        stack = Do("part") \o s
  BY DEF Parted
<1>2. s \in Seq(Frames)
  BY RestTyped, DoneSeqs DEF Loaded
<1>3. stack' = s /\ alive' = alive
  BY <1>1, <1>2, DoStep DEF Deeds
<1>4. Good(s, was_aborted', event_was_aborted', alive, member', svs_modules)
  <2>1. CASE s = Do("user")
    BY <2>1, UserLast, Zenon
  <2>2. CASE s \in Freed(svs_modules) \union Kicks(svs_modules)
    <3>1. Core(s, was_aborted', event_was_aborted', alive, member', svs_modules)
      BY <2>2, Zenon DEF Core
    <3>2. QED
      BY <1>2, <3>1, GoodCore, Zenon
  <2>3. QED
    BY <1>1, <2>1, <2>2
<1>5. QED
  BY <1>3, <1>4 DEF GoodNext, Loaded

LEMMA CommandStep ==
  ASSUME Loaded, Step, alive, stack \in Commanded(svs_modules)
  PROVE  GoodNext
<1> DEFINE M == svs_modules
<1>1. PICK m \in M : stack = <<Frame("command", "", <<m>>)>>
  BY DEF Commanded
<1> DEFINE f == Frame("command", "", <<m>>)
<1>2. f \in Frames /\ f.do = "command"
  BY CommandFrame, FrameFields DEF Loaded
<1> HIDE DEF f
<1>3. <<f>> \in Seq(Frames) /\ <<>> \in Seq(Frames)
  BY <1>2
<1>4. stack = <<f>> \o <<>>
  BY <1>1, <1>3, ConcatEmptySeq DEF f
<1>5. /\ UNCHANGED <<was_aborted, event_was_aborted, alive, member>>
      /\ stack' = Do("user") \o <<>> \/ stack' = Parts \o Do("user") \o <<>>
  BY <1>2, <1>3, <1>4, Stepped
<1>6. Do("user") \o <<>> = Do("user")
  BY DoneSeqs, ConcatEmptySeq
<1>7. /\ Good(Parts \o Do("user"), was_aborted, event_was_aborted, alive, member, M)
      /\ Parts \o Do("user") \in Seq(Frames)
  <2>1. M \in SUBSET Modules /\ Do("user") \in Freed(M) \union Kicks(M) \union {Do("user")}
    BY DEF Loaded
  <2> HIDE DEF M
  <2>2. QED
    BY <2>1, PartsBefore
<1>8. (Parts \o Do("user")) \o <<>> = Parts \o Do("user")
  BY <1>7, ConcatEmptySeq
<1>9. Good(Do("user"), was_aborted, event_was_aborted, alive, member, M)
  BY UserLast, Zenon
<1>10. QED
  BY <1>5, <1>6, <1>7, <1>8, <1>9 DEF GoodNext, Loaded

LEMMA DoneLast ==
  ASSUME Step, NEW d \in Deeds, stack = Do(d)
  PROVE  d \in {"user", "node", "umode"} =>
           stack' = <<>> /\ UNCHANGED <<was_aborted, event_was_aborted, alive, member>>
<1>1. Do(d) \in Seq(Frames) /\ <<>> \in Seq(Frames)
  BY FrameSeqs, Handed
<1>2. stack = Do(d) \o <<>>
  BY <1>1, ConcatEmptySeq
<1>3. QED
  BY <1>1, <1>2, DoStep

LEMMA NothingGood ==
  ASSUME NEW w, NEW e, NEW a, NEW n, NEW M
  PROVE  Good(<<>>, w, e, a, n, M)
<1>1. Core(<<>>, w, e, a, n, M)
  BY Zenon DEF Core, Ends
<1>2. QED
  BY <1>1, Handed, GoodCore, Zenon

LEMMA UModeStep ==
  ASSUME Loaded, Step, stack = Do("umode")
  PROVE  GoodNext
<1>1. stack' = <<>>
  BY DoneLast DEF Deeds
<1>2. QED
  BY <1>1, NothingGood, Zenon DEF GoodNext

LEMMA NewRaiseStep ==
  ASSUME ListInv, Loaded, Step, alive, stack = Raise("ET_NEW_USER") \o Do("umode")
  PROVE  GoodNext
<1> DEFINE l == "ET_NEW_USER"
           s == Call(l, handlers[l]) \o Do("umode")
<1>1. l \in Lists /\ Do("umode") \in Seq(Frames)
  BY Handed, DoneSeqs
<1>2. stack' = s /\ alive' = alive /\ member' = member
  BY <1>1, RaiseStep
<1>3. s \in NewCalls(svs_modules)
  BY <1>1, Attending DEF NewCalls
<1>4. s \in Seq(Frames)
  BY <1>3, LoudTyped DEF Loaded
<1> HIDE DEF s
<1>5. Core(s, was_aborted', event_was_aborted', alive, member, svs_modules)
  BY <1>3, Zenon DEF Core
<1>6. Good(s, was_aborted', event_was_aborted', alive, member, svs_modules)
  BY <1>4, <1>5, GoodCore, Zenon
<1>7. QED
  BY <1>2, <1>6 DEF GoodNext, Loaded

LEMMA JoinRaiseStep ==
  ASSUME ListInv, phase = "running", Loaded, Step, alive, member, stack = Raise("ET_CHAN_JOIN")
  PROVE  GoodNext
<1> DEFINE l == "ET_CHAN_JOIN"
           s == Call(l, handlers[l])
<1>1. l \in Lists /\ <<>> \in Seq(Frames)
  BY Handed
<1>2. Raise(l) \in Seq(Frames)
  BY <1>1, FrameSeqs
<1>3. stack = Raise(l) \o <<>>
  BY <1>2, ConcatEmptySeq
<1>4. s \in JoinCalls(svs_modules)
  BY JoinAttending DEF JoinCalls
<1>5. s \in Seq(Frames)
  BY <1>4, LoudTyped DEF Loaded
<1>6. stack' = s /\ alive' = alive /\ member' = member
  <2>1. stack' = s \o <<>> /\ alive' = alive /\ member' = member
    BY <1>1, <1>3, RaiseStep
  <2>2. s \o <<>> = s
    BY <1>5, ConcatEmptySeq
  <2>3. QED
    BY <2>1, <2>2
<1> HIDE DEF s
<1>7. Core(s, was_aborted', event_was_aborted', alive, member, svs_modules)
  BY <1>4, Zenon DEF Core
<1>8. Good(s, was_aborted', event_was_aborted', alive, member, svs_modules)
  BY <1>5, <1>7, GoodCore, Zenon
<1>9. QED
  BY <1>6, <1>8 DEF GoodNext, Loaded

LEMMA RegRaiseStep ==
  ASSUME ListInv, Loaded, Step, alive, member,
         stack = Raise("e_regchan_join") \o Call("ET_CHAN_JOIN", <<>>)
  PROVE  GoodNext
<1> DEFINE l == "e_regchan_join"
           u == Call("ET_CHAN_JOIN", <<>>)
           s == Call(l, handlers[l]) \o u
<1>1. l \in Lists /\ u \in Seq(Frames)
  BY Handed, FrameSeqs
<1>2. stack' = s /\ alive' = alive /\ member' = member
  BY <1>1, RaiseStep
<1>3. s \in RegCalls(svs_modules)
  BY <1>1, Attending DEF RegCalls
<1>4. s \in Seq(Frames)
  BY <1>3, LoudTyped DEF Loaded
<1> HIDE DEF s
<1>5. Core(s, was_aborted', event_was_aborted', alive, member, svs_modules)
  BY <1>3, Zenon DEF Core
<1>6. Good(s, was_aborted', event_was_aborted', alive, member, svs_modules)
  BY <1>4, <1>5, GoodCore, Zenon
<1>7. QED
  BY <1>2, <1>6 DEF GoodNext, Loaded

(* A kill, then the event is aborted.                                      *)
LEMMA KilledEnds ==
  ASSUME NEW M \in SUBSET Modules, NEW s \in NewCalls(M) \union JoinCalls(M),
         NEW d \in {"user", "node"}, alive, d = "node" => member
  PROVE  Good((Do(d) \o KillThenAbort) \o s, FALSE, FALSE, alive, member, M)
<1> DEFINE x == Do("abort") \o s
           k == Killed \o x
<1>1. x \in Ends(M) /\ s \in Seq(Frames) /\ x \in Seq(Frames)
  BY LoudTyped, RestTyped DEF Ends
<1>2. Good(k, FALSE, FALSE, alive, member, M) /\ k \in Seq(Frames) /\ Killed \in Seq(Frames)
  <2> HIDE DEF x
  <2>1. QED
    BY <1>1, KilledBefore
<1>3. Do(d) \in Seq(Frames) /\ Do("abort") \in Seq(Frames)
  BY DoneSeqs
<1>4. KillThenAbort = Killed \o Do("abort") /\ KillThenAbort \in Seq(Frames)
  <2>1. KillThenAbort = Killed \o Do("abort")
    BY DEF KillThenAbort
  <2>2. QED
    BY <1>2, <1>3, <2>1, Joined
<1>5. (Do(d) \o KillThenAbort) \o s = Do(d) \o k
  <2> DEFINE p == Do(d)
             q == Do("abort")
  <2>1. p \in Seq(Frames) /\ q \in Seq(Frames)
    BY <1>3
  <2> HIDE DEF p, q
  <2>2. (p \o KillThenAbort) \o s = p \o (KillThenAbort \o s)
    <3>1. Rejoined(p, KillThenAbort, s)
      BY <1>1, <1>4, <2>1, Assoc
    <3>2. QED
      BY <3>1 DEF Rejoined
  <2>3. (Killed \o q) \o s = Killed \o (q \o s)
    <3>1. Rejoined(Killed, q, s)
      BY <1>1, <1>2, <2>1, Assoc
    <3>2. QED
      BY <3>1 DEF Rejoined
  <2>4. QED
    BY <1>4, <2>2, <2>3 DEF p, q
<1> HIDE DEF k
<1>6. Good(Do(d) \o k, FALSE, FALSE, alive, member, M)
  BY <1>2, UserBefore, Zenon
<1>7. QED
  BY <1>5, <1>6

LEMMA Behind ==
  ASSUME NEW d \in Seq(Frames), NEW l \in Lists, NEW r \in Seq(Modules), NEW u \in Seq(Frames)
  PROVE  (d \o Call(l, r)) \o u = d \o (Call(l, r) \o u)
<1> DEFINE c == Call(l, r)
<1>1. c \in Seq(Frames)
  BY FrameSeqs
<1> HIDE DEF c
<1>2. (d \o c) \o u = d \o (c \o u)
  <2>1. Rejoined(d, c, u)
    BY <1>1, Assoc
  <2>2. QED
    BY <2>1 DEF Rejoined
<1>3. QED
  BY <1>2 DEF c

LEMMA Threefold ==
  ASSUME NEW a \in Seq(Frames), NEW b \in Seq(Frames), NEW c \in Seq(Frames), NEW d \in Seq(Frames)
  PROVE  ((a \o b) \o c) \o d = a \o (b \o (c \o d)) /\ (a \o b) \o c \in Seq(Frames)
<1> DEFINE S == Seq(Frames)
           f == a \o b
           g == c \o d
<1>1. \A x, y, z \in S : Rejoined(x, y, z)
  BY Assoc, Zenon
<1>2. \A x, y \in S : x \o y \in S
  BY Joined, Zenon
<1>3. a \in S /\ b \in S /\ c \in S /\ d \in S
  OBVIOUS
<1> HIDE DEF S
<1>4. f \in S /\ g \in S /\ f \o c \in S
  BY <1>2, <1>3, Zenon
<1> HIDE DEF f, g
<1>5. Rejoined(a, b, g) /\ Rejoined(f, c, d)
  BY <1>1, <1>3, <1>4, Zenon
<1>6. f \o g = a \o (b \o g) /\ (f \o c) \o d = f \o g
  BY <1>5, Zenon DEF Rejoined, f, g
<1>7. (f \o c) \o d = a \o (b \o (c \o d))
  BY <1>6 DEF g
<1>8. QED
  BY <1>4, <1>7 DEF f, S

LEMMA DeedSeqs ==
  /\ KillThenAbort \in Seq(Frames) /\ KickThenAbort \in Seq(Frames) /\ Parts \in Seq(Frames)
  /\ Raise("e_nick_identify") \in Seq(Frames) /\ Raise("e_regchan_join") \in Seq(Frames)
<1>1. {"e_nick_identify", "e_regchan_join", "ET_KILL", "ET_CHAN_PART"} \subseteq Lists
  BY Handed DEF Quiet
<1>2. /\ Raise("e_nick_identify") \in Seq(Frames) /\ Raise("e_regchan_join") \in Seq(Frames)
      /\ Raise("ET_KILL") \in Seq(Frames) /\ Raise("ET_CHAN_PART") \in Seq(Frames)
  BY <1>1, FrameSeqs
<1>3. Parts \in Seq(Frames)
  BY <1>2, DoneSeqs, Joined DEF Parts
<1>4. KickThenAbort \in Seq(Frames)
  BY <1>3, DoneSeqs, Joined DEF KickThenAbort
<1> DEFINE b == IF member THEN Parts ELSE <<>>
<1>5. b \in Seq(Frames) /\ Killed = (Raise("ET_KILL") \o b) \o Do("free")
  BY <1>3, Handed DEF Killed
<1> HIDE DEF b
<1>6. Killed \in Seq(Frames)
  BY <1>2, <1>5, DoneSeqs, Joined
<1>7. KillThenAbort \in Seq(Frames)
  BY <1>6, DoneSeqs, Joined DEF KillThenAbort
<1>8. QED
  BY <1>2, <1>3, <1>4, <1>7

LEMMA NewCallsStep ==
  ASSUME Loaded, Step, alive \/ was_aborted, stack \in NewCalls(svs_modules)
  PROVE  GoodNext
<1> DEFINE M == svs_modules
           l == "ET_NEW_USER"
           u == Do("umode")
<1>1. PICK r \in Seq(M) : stack = Call(l, r) \o u
  BY DEF NewCalls
<1>2. r \in Seq(Modules) /\ l \in Lists /\ u \in Seq(Frames) /\ M \in SUBSET Modules
  BY RestSeqs, Handed, DoneSeqs DEF Loaded
<1>3. UNCHANGED <<was_aborted, event_was_aborted, alive, member>>
  BY <1>1, <1>2, CallStep
<1>4. stack' = u \/ /\ r # <<>> /\ ~Aborted(l) /\ Tail(r) \in Seq(Modules)
                    /\ \E d \in Handler(Head(r), l) : stack' = d \o Call(l, Tail(r)) \o u
  BY <1>1, <1>2, CallStep
<1>5. CASE stack' = u
  <2>1. Core(u, was_aborted, event_was_aborted, alive, member, M)
    BY Zenon DEF Core
  <2>2. Good(u, was_aborted, event_was_aborted, alive, member, M)
    BY <1>2, <2>1, GoodCore, Zenon
  <2>3. QED
    BY <1>3, <1>5, <2>2 DEF GoodNext, Loaded
<1>6. ASSUME r # <<>>, ~Aborted(l), NEW d \in Handler(Head(r), l),
             stack' = d \o Call(l, Tail(r)) \o u
      PROVE  GoodNext
  <2> DEFINE t == Call(l, Tail(r)) \o u
             G(s) == Good(s, FALSE, FALSE, alive, member, M)
  <2>1. alive
    BY <1>6 DEF Aborted, Events
  <2>2. Tail(r) \in Seq(M) /\ Tail(r) \in Seq(Modules)
    BY <1>2, <1>6
  <2>3. t \in NewCalls(M) /\ t \in Seq(Frames)
    BY <1>2, <2>2, LoudTyped DEF NewCalls
  <2>4. d \in Seq(Frames)
        /\ d \in {Do("user"), Do("user") \o KillThenAbort,
                  Do("user") \o Raise("e_nick_identify") \o Do("user")}
    <3>1. d \in {Do("user"), Do("user") \o KillThenAbort,
                 Do("user") \o Raise("e_nick_identify") \o Do("user")}
      BY <1>6, NewHandler
    <3>2. Do("user") \o KillThenAbort \in Seq(Frames)
      BY DoneSeqs, DeedSeqs, Joined
    <3>3. Do("user") \o Raise("e_nick_identify") \o Do("user") \in Seq(Frames)
      BY DoneSeqs, DeedSeqs, Threefold
    <3>4. QED
      BY <3>1, <3>2, <3>3, DoneSeqs
  <2>5. stack' = d \o t
    <3>1. (d \o Call(l, Tail(r))) \o u = d \o t
      <4> HIDE DEF u, l
      <4>1. QED
        BY <1>2, <2>2, <2>4, Behind
    <3>2. QED
      BY <1>6, <3>1
  <2> HIDE DEF t
  <2>6. G(t)
    <3>1. Core(t, FALSE, FALSE, alive, member, M)
      BY <2>1, <2>3, Zenon DEF Core
    <3>2. QED
      BY <2>3, <3>1, GoodCore, Zenon
  <2>7. G(d \o t)
    <3>1. CASE d = Do("user")
      BY <2>1, <2>3, <2>6, <3>1, UserBefore, Zenon
    <3>2. CASE d = Do("user") \o KillThenAbort
      <4>1. Good((Do("user") \o KillThenAbort) \o t, FALSE, FALSE, alive, member, M)
        <5> HIDE DEF M
        <5>1. t \in NewCalls(M) \union JoinCalls(M) /\ "user" \in {"user", "node"} /\ "user" # "node"
          BY <2>3
        <5>2. QED
          BY <1>2, <2>1, <5>1, KilledEnds
      <4>2. QED
        BY <3>2, <4>1
    <3>3. CASE d = Do("user") \o Raise("e_nick_identify") \o Do("user")
      <4> DEFINE v == Do("user") \o t
                 x == Raise("e_nick_identify") \o v
      <4>1. "e_nick_identify" \in Quiet
        BY DEF Quiet
      <4>2. v \in Seq(Frames) /\ x \in Seq(Frames)
        BY <2>3, DoneSeqs, DeedSeqs, Joined
      <4>3. d \o t = Do("user") \o x
        <5> DEFINE p == Do("user")
                   q == Raise("e_nick_identify")
        <5>1. p \in Seq(Frames) /\ q \in Seq(Frames) /\ d = (p \o q) \o p
          BY <3>3, DoneSeqs, DeedSeqs
        <5>2. x = q \o (p \o t)
          OBVIOUS
        <5> HIDE DEF p, q, x
        <5>3. ((p \o q) \o p) \o t = p \o (q \o (p \o t))
          <6>1. p \in Seq(Frames) /\ q \in Seq(Frames) /\ t \in Seq(Frames)
            BY <2>3, <5>1
          <6>2. ((p \o q) \o p) \o t = p \o (q \o (p \o t)) /\ (p \o q) \o p \in Seq(Frames)
            BY <6>1, Threefold, Zenon
          <6>3. QED
            BY <6>2
        <5>4. QED
          BY <5>1, <5>2, <5>3 DEF p
      <4>4. G(v)
        BY <2>1, <2>3, <2>6, UserBefore, Zenon
      <4> HIDE DEF v
      <4>5. G(x)
        BY <2>1, <4>1, <4>2, <4>4, UserBefore, Zenon
      <4> HIDE DEF x
      <4>6. G(Do("user") \o x)
        BY <2>1, <4>2, <4>5, UserBefore, Zenon
      <4>7. QED
        BY <4>3, <4>6
    <3>4. QED
      BY <2>4, <3>1, <3>2, <3>3
  <2>8. Good(d \o t, was_aborted, event_was_aborted, alive, member, M)
    BY <2>7, GoodMore, Zenon
  <2>9. QED
    BY <1>3, <2>5, <2>8 DEF GoodNext, Loaded
<1>7. QED
  BY <1>4, <1>5, <1>6

LEMMA JoinCallsStep ==
  ASSUME Loaded, Step, stack \in JoinCalls(svs_modules),
         (alive /\ member) \/ was_aborted \/ stack = Call("ET_CHAN_JOIN", <<>>)
  PROVE  GoodNext
<1> DEFINE M == svs_modules
           l == "ET_CHAN_JOIN"
           G(s) == Good(s, FALSE, FALSE, alive, member, M)
<1>1. PICK r \in JoinRests \intersect Seq(M) : stack = Call(l, r)
  BY DEF JoinCalls
<1>2. r \in Seq(Modules) /\ l \in Lists /\ <<>> \in Seq(Frames) /\ M \in SUBSET Modules
  BY RestSeqs, Handed DEF Loaded
<1>3. Call(l, r) \in Seq(Frames)
  BY <1>2, FrameSeqs
<1>4. stack = Call(l, r) \o <<>>
  BY <1>1, <1>3, ConcatEmptySeq
<1>5. UNCHANGED <<was_aborted, event_was_aborted, alive, member>>
  BY <1>2, <1>4, CallStep
<1>6. stack' = <<>> \/ /\ r # <<>> /\ ~Aborted(l) /\ Tail(r) \in Seq(Modules)
                       /\ \E d \in Handler(Head(r), l) : stack' = d \o Call(l, Tail(r)) \o <<>>
  BY <1>2, <1>4, CallStep
<1>7. CASE stack' = <<>>
  BY <1>7, NothingGood, Zenon DEF GoodNext
<1>8. ASSUME r # <<>>, ~Aborted(l), NEW d \in Handler(Head(r), l),
             stack' = d \o Call(l, Tail(r)) \o <<>>
      PROVE  GoodNext
  <2> DEFINE t == Call(l, Tail(r))
  <2>1. alive /\ member
    <3>1. ~was_aborted
      BY <1>8 DEF Aborted, Events
    <3>2. Call(l, r) # Call(l, <<>>)
      BY <1>8 DEF Call
    <3>3. QED
      BY <1>1, <3>1, <3>2
  <2>2. \/ Head(r) = "os_uevent" /\ Tail(r) = <<"chanserv">>
        \/ Head(r) = "chanserv" /\ Tail(r) = <<>>
    <3>1. r \in {<<"chanserv">>, <<"os_uevent", "chanserv">>}
      BY <1>1, <1>8 DEF JoinRests
    <3>2. \A x, y : Head(<<x>>) = x /\ Tail(<<x>>) = <<>> /\ Head(<<x, y>>) = x /\ Tail(<<x, y>>) = <<y>>
      OBVIOUS
    <3>3. QED
      BY <3>1, <3>2, Zenon
  <2>3. Tail(r) \in JoinRests \intersect Seq(M) /\ Tail(r) \in Seq(Modules)
    <3>1. Tail(r) \in Seq(M)
      BY <1>1, <1>8
    <3>2. QED
      BY <1>2, <2>2, <3>1, RestSeqs DEF JoinRests
  <2>4. t \in JoinCalls(M) /\ t \in Seq(Frames)
    BY <1>2, <2>3, LoudTyped DEF JoinCalls
  <2>5. d \in {Do("node"), Do("node") \o KillThenAbort}
        \/ (d = Do("node") \o Raise("e_regchan_join") /\ Tail(r) = <<>>)
    BY <1>8, <2>2, JoinHandler
  <2>6. d \in Seq(Frames)
    <3>1. Do("node") \o KillThenAbort \in Seq(Frames) /\ Do("node") \o Raise("e_regchan_join") \in Seq(Frames)
      BY DoneSeqs, DeedSeqs, Joined
    <3>2. QED
      BY <2>5, <3>1, DoneSeqs
  <2>7. stack' = d \o t
    <3>1. d \o t \in Seq(Frames)
      BY <2>4, <2>6, Joined
    <3>2. (d \o t) \o <<>> = d \o t
      BY <3>1, ConcatEmptySeq
    <3>3. QED
      BY <1>8, <3>2
  <2>8. Core(t, FALSE, FALSE, alive, member, M)
    <3> HIDE DEF t
    <3>1. QED
      BY <2>1, <2>4, Zenon DEF Core
  <2>9. G(t)
    <3> HIDE DEF t
    <3>1. QED
      BY <2>4, <2>8, GoodCore, Zenon
  <2>10. G(d \o t)
    <3>1. CASE d = Do("node")
      <4> HIDE DEF t
      <4>1. QED
        BY <2>1, <2>4, <2>9, <3>1, UserBefore, Zenon
    <3>2. CASE d = Do("node") \o KillThenAbort
      <4>1. Good((Do("node") \o KillThenAbort) \o t, FALSE, FALSE, alive, member, M)
        <5> HIDE DEF M, t
        <5>1. t \in NewCalls(M) \union JoinCalls(M) /\ "node" \in {"user", "node"}
          BY <2>4
        <5>2. QED
          BY <1>2, <2>1, <5>1, KilledEnds
      <4>2. QED
        BY <3>2, <4>1
    <3>3. CASE d = Do("node") \o Raise("e_regchan_join") /\ Tail(r) = <<>>
      <4> DEFINE x == Raise("e_regchan_join") \o t
      <4>1. x = Raise("e_regchan_join") \o Call("ET_CHAN_JOIN", <<>>)
        BY <3>3
      <4>2. x \in Seq(Frames)
        BY <2>4, DeedSeqs, Joined
      <4>3. d \o t = Do("node") \o x
        <5> DEFINE p == Do("node")
                   q == Raise("e_regchan_join")
        <5>1. p \in Seq(Frames) /\ q \in Seq(Frames) /\ d = p \o q
          BY <3>3, DoneSeqs, DeedSeqs
        <5> HIDE DEF p, q, t
        <5>2. (p \o q) \o t = p \o (q \o t)
          <6>1. Rejoined(p, q, t)
            BY <2>4, <5>1, Assoc
          <6>2. QED
            BY <6>1 DEF Rejoined
        <5>3. QED
          BY <5>1, <5>2 DEF p, q
      <4> HIDE DEF x, t
      <4>4. Core(x, FALSE, FALSE, alive, member, M)
        BY <2>1, <4>1, Zenon DEF Core
      <4>5. G(x)
        BY <4>2, <4>4, GoodCore, Zenon
      <4>6. G(Do("node") \o x)
        BY <2>1, <4>2, <4>5, UserBefore, Zenon
      <4>7. QED
        BY <4>3, <4>6
    <3>4. QED
      BY <2>5, <3>1, <3>2, <3>3
  <2> HIDE DEF t
  <2>11. Good(d \o t, was_aborted, event_was_aborted, alive, member, M)
    BY <2>10, GoodMore, Zenon
  <2>12. QED
    BY <1>5, <2>7, <2>11 DEF GoodNext, Loaded
<1>9. QED
  BY <1>6, <1>7, <1>8

LEMMA RegCallsStep ==
  ASSUME Loaded, Step, alive, stack \in RegCalls(svs_modules),
         \/ member \/ event_was_aborted
         \/ stack = Call("e_regchan_join", <<>>) \o Call("ET_CHAN_JOIN", <<>>)
  PROVE  GoodNext
<1> DEFINE M == svs_modules
           l == "e_regchan_join"
           u == Call("ET_CHAN_JOIN", <<>>)
           G(s) == Good(s, FALSE, FALSE, alive, member, M)
<1>1. PICK r \in Seq(M) : stack = Call(l, r) \o u
  BY DEF RegCalls
<1>2. r \in Seq(Modules) /\ <<>> \in Seq(Modules) /\ l \in Lists /\ u \in Seq(Frames)
      /\ M \in SUBSET Modules
  BY RestSeqs, Handed, FrameSeqs DEF Loaded
<1>3. UNCHANGED <<was_aborted, event_was_aborted, alive, member>>
  BY <1>1, <1>2, CallStep
<1>4. stack' = u \/ /\ r # <<>> /\ ~Aborted(l) /\ Tail(r) \in Seq(Modules)
                    /\ \E d \in Handler(Head(r), l) : stack' = d \o Call(l, Tail(r)) \o u
  BY <1>1, <1>2, CallStep
<1>5. CASE stack' = u
  <2>1. u \in JoinCalls(M)
    <3>1. <<>> \in JoinRests \intersect Seq(M)
      BY DEF JoinRests
    <3>2. QED
      BY <3>1 DEF JoinCalls
  <2>2. Core(u, was_aborted, event_was_aborted, alive, member, M)
    BY <2>1, Zenon DEF Core
  <2>3. Good(u, was_aborted, event_was_aborted, alive, member, M)
    BY <1>2, <2>2, GoodCore, Zenon
  <2>4. QED
    BY <1>3, <1>5, <2>3 DEF GoodNext, Loaded
<1>6. ASSUME r # <<>>, ~Aborted(l), NEW d \in Handler(Head(r), l),
             stack' = d \o Call(l, Tail(r)) \o u
      PROVE  GoodNext
  <2> DEFINE t == Call(l, Tail(r)) \o u
  <2>1. member
    <3>1. ~event_was_aborted
      BY <1>6 DEF Aborted, Events
    <3>2. stack # Call(l, <<>>) \o u
      <4> DEFINE f == Frame("call", l, r)
                 g == Frame("call", l, <<>>)
      <4>1. Call(l, r) = <<f>> /\ f \in Frames /\ f.rest = r
        BY <1>2, CalledFrame
      <4>2. Call(l, <<>>) = <<g>> /\ g \in Frames /\ g.rest = <<>>
        BY <1>2, CalledFrame
      <4> HIDE DEF f, g, u
      <4>3. Head(<<f>> \o u) = f /\ Head(<<g>> \o u) = g
        BY <1>2, <4>1, <4>2, Pushed
      <4>4. QED
        BY <1>1, <1>6, <4>1, <4>2, <4>3
    <3>3. QED
      BY <3>1, <3>2
  <2>2. Tail(r) \in Seq(M) /\ Tail(r) \in Seq(Modules)
    BY <1>2, <1>6
  <2>3. t \in RegCalls(M) /\ t \in Seq(Frames)
    BY <1>2, <2>2, LoudTyped DEF RegCalls
  <2>4. d \in {Do("node"), Do("node") \o KickThenAbort, Do("user")} /\ d \in Seq(Frames)
    <3>1. d \in {Do("node"), Do("node") \o KickThenAbort, Do("user")}
      BY <1>6, RegHandler
    <3>2. Do("node") \o KickThenAbort \in Seq(Frames)
      BY DoneSeqs, DeedSeqs, Joined
    <3>3. QED
      BY <3>1, <3>2, DoneSeqs
  <2>5. stack' = d \o t
    <3>1. (d \o Call(l, Tail(r))) \o u = d \o t
      <4> HIDE DEF u, l
      <4>1. QED
        BY <1>2, <2>2, <2>4, Behind
    <3>2. QED
      BY <1>6, <3>1
  <2> HIDE DEF t
  <2>6. G(t)
    <3>1. Core(t, FALSE, FALSE, alive, member, M)
      BY <2>1, <2>3, Zenon DEF Core
    <3>2. QED
      BY <2>3, <3>1, GoodCore, Zenon
  <2>7. G(d \o t)
    <3>1. CASE d \in {Do("node"), Do("user")}
      <4>1. G(Do("node") \o t) /\ G(Do("user") \o t)
        BY <2>1, <2>3, <2>6, UserBefore, Zenon
      <4>2. QED
        BY <3>1, <4>1
    <3>2. CASE d = Do("node") \o KickThenAbort
      <4> DEFINE x == Do("mod_abort") \o t
                 y == Parts \o x
      <4>1. x \in Kicks(M)
        BY <2>3 DEF Kicks
      <4>2. x \in Freed(M) \union Kicks(M) \union {Do("user")}
        BY <4>1
      <4>3. x \in Seq(Frames)
        BY <1>2, <4>1, RestTyped
      <4>4. G(y) /\ y \in Seq(Frames)
        <5> HIDE DEF x, M
        <5>1. QED
          BY <1>2, <4>2, PartsBefore
      <4>5. d \o t = Do("node") \o y
        <5> DEFINE p == Do("node")
                   q == Do("mod_abort")
        <5>1. p \in Seq(Frames) /\ q \in Seq(Frames) /\ d = p \o KickThenAbort
              /\ KickThenAbort = Parts \o q /\ x = q \o t
          BY <3>2, DoneSeqs DEF KickThenAbort
        <5> HIDE DEF p, q, x
        <5> DEFINE k == KickThenAbort
                   z == Parts
        <5>2. k \in Seq(Frames) /\ z \in Seq(Frames) /\ t \in Seq(Frames)
          BY <2>3, DeedSeqs
        <5> HIDE DEF k, z
        <5>3. (p \o k) \o t = p \o (k \o t)
          <6>1. Rejoined(p, k, t)
            BY <5>1, <5>2, Assoc
          <6>2. QED
            BY <6>1 DEF Rejoined
        <5>4. (z \o q) \o t = z \o (q \o t)
          <6>1. Rejoined(z, q, t)
            BY <5>1, <5>2, Assoc
          <6>2. QED
            BY <6>1 DEF Rejoined
        <5>5. QED
          BY <5>1, <5>3, <5>4 DEF p, k, z
      <4> HIDE DEF y
      <4>6. G(Do("node") \o y)
        BY <2>1, <4>4, UserBefore, Zenon
      <4>7. QED
        BY <4>5, <4>6
    <3>3. QED
      BY <2>4, <3>1, <3>2
  <2>8. Good(d \o t, was_aborted, event_was_aborted, alive, member, M)
    BY <2>7, GoodMore, Zenon
  <2>9. QED
    BY <1>3, <2>5, <2>8 DEF GoodNext, Loaded
<1>7. QED
  BY <1>4, <1>5, <1>6

LEMMA StepGood ==
  ASSUME ListInv, StackInv, Step
  PROVE  GoodNext
<1> DEFINE M == svs_modules
           w == was_aborted
           e == event_was_aborted
<1>1. Loaded
  BY DEF Loaded, Step, modvars, ListInv, AttachInv
<1>2. phase = "running" /\ stack # <<>> /\ Good(stack, w, e, alive, member, M)
  BY DEF StackInv, Step
<1>3. stack \in Seq(Frames)
  BY <1>2, GoodTyped
<1>4. CASE alive /\ Head(stack) \in Before(member, M) /\ Good(Tail(stack), FALSE, FALSE, alive, member, M)
  <2> DEFINE f == Head(stack)
             u == Tail(stack)
  <2>1. stack = <<f>> \o u /\ u \in Seq(Frames) /\ f \in Before(member, M)
        /\ Good(u, FALSE, FALSE, alive, member, M)
    BY <1>2, <1>3, <1>4, Popped
  <2> HIDE DEF f, u
  <2>2. QED
    BY <1>4, <2>1, BeforeStep
<1>5. CASE Core(stack, w, e, alive, member, M)
  <2>1. \/ stack \in Ends(M)
        \/ alive /\ stack = Raise("ET_NEW_USER") \o Do("umode")
        \/ (alive \/ w) /\ (stack = Do("umode") \/ stack \in NewCalls(M))
        \/ alive /\ stack \in Freed(M) \union Kicks(M) \union Parted(M) \union Commanded(M)
        \/ alive /\ member /\ (stack = Raise("ET_CHAN_JOIN")
                               \/ stack = Raise("e_regchan_join") \o Call("ET_CHAN_JOIN", <<>>))
        \/ ((alive /\ member) \/ w \/ stack = Call("ET_CHAN_JOIN", <<>>)) /\ stack \in JoinCalls(M)
        \/ /\ alive /\ stack \in RegCalls(M)
           /\ member \/ e \/ stack = Call("e_regchan_join", <<>>) \o Call("ET_CHAN_JOIN", <<>>)
    BY <1>5, Zenon DEF Core
  <2>2. CASE stack \in Ends(M)
    BY <1>1, <2>2, EndsStep
  <2>3. CASE alive /\ stack = Raise("ET_NEW_USER") \o Do("umode")
    BY <1>1, <2>3, NewRaiseStep
  <2>4. CASE (alive \/ w) /\ (stack = Do("umode") \/ stack \in NewCalls(M))
    BY <1>1, <2>4, UModeStep, NewCallsStep
  <2>5. CASE alive /\ stack \in Freed(M) \union Kicks(M) \union Parted(M) \union Commanded(M)
    BY <1>1, <2>5, FreedStep, KicksStep, PartedStep, CommandStep
  <2>6. CASE alive /\ member /\ (stack = Raise("ET_CHAN_JOIN")
                               \/ stack = Raise("e_regchan_join") \o Call("ET_CHAN_JOIN", <<>>))
    BY <1>1, <1>2, <2>6, JoinRaiseStep, RegRaiseStep
  <2>7. CASE ((alive /\ member) \/ w \/ stack = Call("ET_CHAN_JOIN", <<>>)) /\ stack \in JoinCalls(M)
    BY <1>1, <2>7, JoinCallsStep
  <2>8. CASE /\ alive /\ stack \in RegCalls(M)
             /\ member \/ e \/ stack = Call("e_regchan_join", <<>>) \o Call("ET_CHAN_JOIN", <<>>)
    BY <1>1, <2>8, RegCallsStep
  <2>9. QED
    BY <2>1, <2>2, <2>3, <2>4, <2>5, <2>6, <2>7, <2>8, Zenon
<1>6. \/ Core(stack, w, e, alive, member, M)
      \/ alive /\ Head(stack) \in Before(member, M) /\ Good(Tail(stack), FALSE, FALSE, alive, member, M)
  <2> HIDE DEF M, w, e
  <2>1. QED
    BY <1>2, GoodTop, Zenon
<1> HIDE DEF M, w, e
<1>7. QED
  BY <1>4, <1>5, <1>6, Zenon

-----------------------------------------------------------------------------
(* Every step of the program keeps that                                     *)

LEMMA StackInit == Init => StackInv
<1> SUFFICES ASSUME Init PROVE StackInv
  OBVIOUS
<1>1. stack = <<>>
  BY DEF Init
<1>2. QED
  BY <1>1, NothingGood, Zenon DEF StackInv

LEMMA OneCommand ==
  \A h : Command(<<h>>) = <<Frame("command", "", <<h.owner>>)>>
<1> SUFFICES ASSUME NEW h PROVE Command(<<h>>) = <<Frame("command", "", <<h.owner>>)>>
  OBVIOUS
<1> DEFINE f == Frame("command", "", <<h.owner>>)
           l == <<h>>
<1>1. l \in Seq({h}) /\ Len(l) = 1 /\ l[1] = h /\ DOMAIN l = 1..1
  OBVIOUS
<1> HIDE DEF l
<1>2. Command(l) = [i \in 1..1 |-> Frame("command", "", <<l[i].owner>>)]
  BY <1>1 DEF Command, Frame
<1>3. \A i \in 1..1 : Frame("command", "", <<l[i].owner>>) = f
  <2>1. \A i \in 1..1 : l[i] = h
    BY <1>1
  <2>2. QED
    BY <2>1, Zenon
<1> HIDE DEF f
<1>4. Command(l) = [i \in 1..1 |-> f]
  BY <1>2, <1>3
<1>5. [i \in 1..1 |-> f] = <<f>>
  OBVIOUS
<1>6. QED
  BY <1>4, <1>5 DEF l, f

(* The handlers of a message: at most one, of a loaded module              *)
LEMMA CommandGood ==
  ASSUME ListInv, NEW list \in Seq(MsgHandlers), \A h \in ToSet(list) : h.owner \in svs_modules,
         NEW msg, NEW w, NEW e, NEW n, alive
  PROVE  Good(Command(HandlersFor(list, msg)), w, e, alive, n, svs_modules)
<1> DEFINE M == svs_modules
           s == Command(HandlersFor(list, msg))
<1>1. CASE HandlersFor(list, msg) = <<>>
  <2>1. s = <<>>
    BY <1>1 DEF Command
  <2> HIDE DEF s
  <2>2. Good(s, w, e, alive, n, M)
    BY <2>1, NothingGood, Zenon
  <2>3. QED
    BY <2>2 DEF s
<1>2. CASE \E h \in ToSet(list) : HandlersFor(list, msg) = <<h>>
  <2>1. PICK h \in ToSet(list) : HandlersFor(list, msg) = <<h>>
    BY <1>2
  <2>2. h.owner \in M /\ M \in SUBSET Modules
    BY DEF ListInv, AttachInv
  <2> DEFINE f == Frame("command", "", <<h.owner>>)
  <2>3. f \in Frames
    BY <2>2, CommandFrame
  <2>4. s = <<f>>
    BY <2>1, OneCommand
  <2>5. s \in Commanded(M)
    BY <2>2, <2>4 DEF Commanded
  <2>6. s \in Seq(Frames)
    <3> HIDE DEF f, s
    <3>1. QED
      BY <2>3, <2>4
  <2> HIDE DEF s
  <2>7. Core(s, w, e, alive, n, M)
    BY <2>5, Zenon DEF Core
  <2>8. Good(s, w, e, alive, n, M)
    BY <2>6, <2>7, GoodCore, Zenon
  <2>9. QED
    BY <2>8 DEF s
<1>3. QED
  BY <1>1, <1>2, HandlersForFacts

LEMMA StackStep == ListInv /\ StackInv /\ [Next]_vars => StackInv'
<1> SUFFICES ASSUME ListInv, StackInv, [Next]_vars PROVE StackInv'
  OBVIOUS
<1> DEFINE G(s) == Good(s, was_aborted', event_was_aborted', alive', member', svs_modules')
<1>1. CASE stack' = <<>>
  BY <1>1, NothingGood, Zenon DEF StackInv
<1>2. ASSUME UNCHANGED modvars, phase = "running", G(stack') PROVE StackInv'
  BY <1>2 DEF StackInv, modvars
<1>3. CASE NewUser
  <2> DEFINE s == Raise("ET_NEW_USER") \o Do("umode")
  <2>1. s \in Seq(Frames)
    BY Handed, FrameSeqs, DoneSeqs, Joined
  <2>2. stack' = s /\ alive' /\ phase = "running" /\ UNCHANGED modvars
    BY <1>3 DEF NewUser, Idle
  <2>3. Core(s, was_aborted', event_was_aborted', alive', member', svs_modules')
    BY <2>2, Zenon DEF Core
  <2> HIDE DEF s
  <2>4. G(s)
    BY <2>1, <2>3, GoodCore, Zenon
  <2>5. QED
    BY <1>2, <2>2, <2>4
<1>4. CASE Join
  <2> DEFINE s == Raise("ET_CHAN_JOIN")
  <2>1. s \in Seq(Frames)
    BY Handed, FrameSeqs
  <2>2. stack' = s /\ alive' = alive /\ alive /\ member' /\ phase = "running" /\ UNCHANGED modvars
    BY <1>4 DEF Join, Idle
  <2>3. Core(s, was_aborted', event_was_aborted', alive', member', svs_modules')
    BY <2>2, Zenon DEF Core
  <2> HIDE DEF s
  <2>4. G(s)
    BY <2>1, <2>3, GoodCore, Zenon
  <2>5. QED
    BY <1>2, <2>2, <2>4
<1>5. CASE UserLeaves
  <2>1. /\ stack' = Killed /\ alive /\ phase = "running" /\ UNCHANGED modvars
        /\ UNCHANGED <<was_aborted, event_was_aborted, alive, member>>
    BY <1>5 DEF UserLeaves, Idle
  <2> DEFINE M == svs_modules
  <2>2. M \in SUBSET Modules /\ <<>> \in Ends(M) /\ svs_modules' = M
    BY <2>1 DEF ListInv, AttachInv, Ends, modvars
  <2> HIDE DEF M
  <2>3. Good(Killed \o <<>>, was_aborted, event_was_aborted, alive, member, M) /\ Killed \in Seq(Frames)
    BY <2>1, <2>2, KilledBefore
  <2>4. Killed \o <<>> = Killed
    BY <2>3, ConcatEmptySeq
  <2>5. QED
    BY <1>2, <2>1, <2>2, <2>3, <2>4
<1>6. CASE ChanMessage
  <2>1. /\ stack' = Command(HandlersFor(chan_msg_events, KickTrigger))
        /\ alive /\ phase = "running" /\ UNCHANGED modvars
        /\ UNCHANGED <<was_aborted, event_was_aborted, alive, member>>
    BY <1>6 DEF ChanMessage, Idle, ChanHandlersFor
  <2>2. chan_msg_events \in Seq(MsgHandlers) /\ \A h \in ToSet(chan_msg_events) : h.owner \in svs_modules
    BY DEF ListInv, ListsHold, Kicked, KicksOf
  <2>3. Good(Command(HandlersFor(chan_msg_events, KickTrigger)), was_aborted, event_was_aborted,
             alive, member, svs_modules)
    BY <2>1, <2>2, CommandGood
  <2>4. svs_modules' = svs_modules
    BY <2>1 DEF modvars
  <2>5. QED
    BY <1>2, <2>1, <2>3, <2>4
<1>7. ASSUME NEW s \in Services, NEW msg \in 0..4, Message(s, msg) PROVE StackInv'
  <2>1. /\ stack' = Command(HandlersFor(msglist[s], msg))
        /\ alive /\ phase = "running" /\ UNCHANGED modvars
        /\ UNCHANGED <<was_aborted, event_was_aborted, alive, member>>
    BY <1>7 DEF Message, Idle
  <2>2. msglist[s] \in Seq(MsgHandlers) /\ \A h \in ToSet(msglist[s]) : h.owner \in svs_modules
    BY DEF ListInv, ListsHold, Handled, AnswersOf
  <2>3. Good(Command(HandlersFor(msglist[s], msg)), was_aborted, event_was_aborted,
             alive, member, svs_modules)
    BY <2>1, <2>2, CommandGood
  <2>4. svs_modules' = svs_modules
    BY <2>1 DEF modvars
  <2>5. QED
    BY <1>2, <2>1, <2>3, <2>4
<1>8. CASE Step
  <2>1. GoodNext
    BY <1>8, StepGood
  <2>2. phase = "running" /\ UNCHANGED modvars
    BY <1>8 DEF Step, StackInv
  <2>3. svs_modules' = svs_modules
    BY <2>2 DEF modvars
  <2>4. G(stack')
    BY <2>1, <2>3 DEF GoodNext
  <2>5. QED
    BY <1>2, <2>2, <2>4
<1>9. CASE stack = <<>> /\ ModulesNext /\ UNCHANGED <<stack, was_aborted, event_was_aborted, alive, member>>
  BY <1>1, <1>9
<1>10. CASE UNCHANGED vars
  BY <1>10 DEF StackInv, vars, modvars
<1>11. QED
  BY <1>3, <1>4, <1>5, <1>6, <1>7, <1>8, <1>9, <1>10 DEF Next

-----------------------------------------------------------------------------
(* The innermost thing to do finds what it needs.                          *)

Fit(f) ==
  /\ f.do = "user" => alive
  /\ f.do = "node" => member
  /\ f.do = "umode" => alive \/ was_aborted
  /\ f.do \in {"command", "call"} /\ f.rest # <<>> => Mapped(Head(f.rest))

LEMMA FitTop ==
  ASSUME NEW f \in Frames, NEW u \in Seq(Frames), stack = <<f>> \o u, Fit(f),
         f.do = "command" => f.rest # <<>>
  PROVE  CalledWithLiveData
<1>1. Top = f
  BY Pushed DEF Top
<1>2. QED
  BY <1>1, Zenon DEF Fit, CalledWithLiveData

LEMMA DoFit ==
  ASSUME NEW d \in {"umode", "abort", "mod_abort", "part", "free"}, NEW u \in Seq(Frames),
         stack = Do(d) \o u, d = "umode" => alive \/ was_aborted
  PROVE  CalledWithLiveData
<1> DEFINE f == Frame(d, "", <<>>)
<1>1. d \in Deeds
  BY DEF Deeds
<1>2. f \in Frames /\ f.do = d /\ stack = <<f>> \o u
  BY <1>1, DoneFrame
<1> HIDE DEF f
<1>3. Fit(f) /\ f.do # "command"
  BY <1>2 DEF Fit
<1>4. QED
  BY <1>2, <1>3, FitTop

LEMMA RaiseFit ==
  ASSUME NEW l \in Lists, NEW u \in Seq(Frames), stack = Raise(l) \o u
  PROVE  CalledWithLiveData
<1> DEFINE f == Frame("raise", l, <<>>)
<1>1. f \in Frames /\ f.do = "raise" /\ stack = <<f>> \o u
  BY RaisedFrame
<1> HIDE DEF f
<1>2. Fit(f) /\ f.do # "command"
  BY <1>1 DEF Fit
<1>3. QED
  BY <1>1, <1>2, FitTop

LEMMA LoadedMapped ==
  ASSUME ListInv, NEW r \in Seq(svs_modules), r # <<>>
  PROVE  Mapped(Head(r))
<1>1. Head(r) \in svs_modules
  OBVIOUS
<1>2. handles[Head(r)] \in Nat /\ handles[Head(r)] # 0
  BY <1>1 DEF ListInv, AttachInv
<1>3. QED
  BY <1>2 DEF Mapped

LEMMA CallFit ==
  ASSUME ListInv, NEW l \in Lists, NEW r \in Seq(svs_modules), NEW u \in Seq(Frames),
         stack = Call(l, r) \o u
  PROVE  CalledWithLiveData
<1> DEFINE f == Frame("call", l, r)
<1>1. svs_modules \in SUBSET Modules
  BY DEF ListInv, AttachInv
<1>2. r \in Seq(Modules)
  BY <1>1, RestSeqs
<1>3. f \in Frames /\ f.do = "call" /\ f.rest = r /\ stack = <<f>> \o u
  BY <1>2, CalledFrame
<1> HIDE DEF f
<1>4. Fit(f) /\ f.do # "command"
  BY <1>3, LoadedMapped DEF Fit
<1>5. QED
  BY <1>3, <1>4, FitTop

LEMMA BeforeFit ==
  ASSUME ListInv, NEW f \in Before(member, svs_modules), NEW u \in Seq(Frames),
         stack = <<f>> \o u, alive
  PROVE  CalledWithLiveData
<1>1. f \in Frames
  BY DEF Before
<1>2. Fit(f) /\ f.do # "command"
  BY LoadedMapped DEF Before, Fit
<1>3. QED
  BY <1>1, <1>2, FitTop

LEMMA CommandFit ==
  ASSUME ListInv, stack \in Commanded(svs_modules)
  PROVE  CalledWithLiveData
<1>1. PICK m \in svs_modules : stack = <<Frame("command", "", <<m>>)>>
  BY DEF Commanded
<1> DEFINE r == <<m>>
           f == Frame("command", "", r)
<1>2. r \in Seq(svs_modules) /\ r # <<>>
  OBVIOUS
<1>3. f \in Frames /\ f.do = "command" /\ f.rest = r
  <2>1. m \in Modules
    BY DEF ListInv, AttachInv
  <2>2. f \in Frames
    BY <2>1, CommandFrame
  <2>3. f.do = "command" /\ f.rest = <<m>>
    BY DEF Frame
  <2>4. QED
    BY <2>2, <2>3
<1>4. Mapped(Head(r))
  BY <1>2, LoadedMapped
<1>5. stack = <<f>>
  BY <1>1
<1> HIDE DEF f, r
<1>6. <<f>> \in Seq(Frames) /\ <<>> \in Seq(Frames) /\ <<f>> \o <<>> = <<f>>
  BY <1>3, ConcatEmptySeq
<1>7. Fit(f)
  BY <1>3, <1>4 DEF Fit
<1>8. QED
  BY <1>2, <1>3, <1>5, <1>6, <1>7, FitTop

LEMMA CoreFit ==
  ASSUME ListInv, Core(stack, was_aborted, event_was_aborted, alive, member, svs_modules)
  PROVE  CalledWithLiveData
<1> DEFINE M == svs_modules
           a == alive
           n == member
           w == was_aborted
           e == event_was_aborted
<1>1. M \in SUBSET Modules
  BY DEF ListInv, AttachInv
<1>2. \/ stack \in Ends(M)
      \/ stack = Raise("ET_NEW_USER") \o Do("umode")
      \/ (a \/ w) /\ stack = Do("umode")
      \/ stack \in NewCalls(M)
      \/ stack \in Freed(M) \union Kicks(M) \union Parted(M)
      \/ stack \in Commanded(M)
      \/ stack = Raise("ET_CHAN_JOIN")
      \/ stack = Raise("e_regchan_join") \o Call("ET_CHAN_JOIN", <<>>)
      \/ stack \in JoinCalls(M)
      \/ stack \in RegCalls(M)
  BY DEF Core
<1>3. <<>> \in Seq(Frames) /\ <<>> \in Seq(M)
  OBVIOUS
<1>4. /\ Ends(M) \subseteq Seq(Frames) /\ Freed(M) \subseteq Seq(Frames)
      /\ Kicks(M) \subseteq Seq(Frames) /\ Parted(M) \subseteq Seq(Frames)
      /\ NewCalls(M) \subseteq Seq(Frames) /\ JoinCalls(M) \subseteq Seq(Frames)
      /\ RegCalls(M) \subseteq Seq(Frames)
  BY <1>1, RestTyped, LoudTyped
<1>5. /\ Do("umode") = Do("umode") \o <<>>
      /\ Raise("ET_CHAN_JOIN") = Raise("ET_CHAN_JOIN") \o <<>>
      /\ \A r \in Seq(M) : Call("ET_CHAN_JOIN", r) = Call("ET_CHAN_JOIN", r) \o <<>>
  <2>1. \A r \in Seq(M) : r \in Seq(Modules)
    BY <1>1, RestSeqs
  <2>2. Do("umode") \in Seq(Frames) /\ Raise("ET_CHAN_JOIN") \in Seq(Frames)
        /\ \A r \in Seq(M) : Call("ET_CHAN_JOIN", r) \in Seq(Frames)
    BY <2>1, DoneSeqs, FrameSeqs, Handed
  <2>3. QED
    BY <2>2, ConcatEmptySeq
<1> HIDE DEF M, a, n, w, e
<1>6. CASE stack \in Ends(M)
  <2>1. CASE stack = <<>>
    BY <2>1, Zenon DEF CalledWithLiveData
  <2>2. CASE \E u \in NewCalls(M) \union JoinCalls(M) : stack = Do("abort") \o u
    BY <1>4, <2>2, DoFit
  <2>3. QED
    BY <1>6, <2>1, <2>2, Zenon DEF Ends
<1>7. CASE stack = Raise("ET_NEW_USER") \o Do("umode")
  BY <1>7, RaiseFit, Handed, DoneSeqs
<1>8. CASE (a \/ w) /\ stack = Do("umode")
  <2>1. alive \/ was_aborted
    BY <1>8 DEF a, w
  <2>2. stack = Do("umode") \o <<>>
    BY <1>5, <1>8
  <2>3. QED
    BY <1>3, <2>1, <2>2, DoFit
<1>9. CASE stack \in NewCalls(M)
  <2>1. PICK r \in Seq(M) : stack = Call("ET_NEW_USER", r) \o Do("umode")
    BY <1>9 DEF NewCalls
  <2>2. QED
    BY <2>1, CallFit, Handed, DoneSeqs DEF M
<1>10. CASE stack \in Freed(M) \union Kicks(M) \union Parted(M)
  <2>1. CASE \E u \in Ends(M) : stack = Do("free") \o u
    BY <1>4, <2>1, DoFit
  <2>2. CASE \E u \in RegCalls(M) : stack = Do("mod_abort") \o u
    BY <1>4, <2>2, DoFit
  <2>3. CASE \E u \in Freed(M) \union Kicks(M) \union {Do("user")} : stack = Do("part") \o u
    BY <1>4, <2>3, DoFit, DoneSeqs
  <2>4. QED
    BY <1>10, <2>1, <2>2, <2>3, Zenon DEF Freed, Kicks, Parted
<1>11. CASE stack \in Commanded(M)
  BY <1>11, CommandFit DEF M
<1>12. CASE stack = Raise("ET_CHAN_JOIN")
  BY <1>3, <1>5, <1>12, RaiseFit, Handed
<1>13. CASE stack = Raise("e_regchan_join") \o Call("ET_CHAN_JOIN", <<>>)
  BY <1>13, RaiseFit, Handed, FrameSeqs
<1>14. CASE stack \in JoinCalls(M)
  <2>1. PICK r \in Seq(M) : stack = Call("ET_CHAN_JOIN", r)
    BY <1>14 DEF JoinCalls
  <2>2. stack = Call("ET_CHAN_JOIN", r) \o <<>>
    BY <1>5, <2>1
  <2>3. QED
    BY <1>3, <2>2, CallFit, Handed DEF M
<1>15. CASE stack \in RegCalls(M)
  <2>1. PICK r \in Seq(M) : stack = Call("e_regchan_join", r) \o Call("ET_CHAN_JOIN", <<>>)
    BY <1>15 DEF RegCalls
  <2>2. QED
    BY <2>1, CallFit, Handed, FrameSeqs DEF M
<1>16. QED
  BY <1>2, <1>6, <1>7, <1>8, <1>9, <1>10, <1>11, <1>12, <1>13, <1>14, <1>15, Zenon

LEMMA StackFit == ListInv /\ StackInv => CalledWithLiveData
<1> SUFFICES ASSUME ListInv, StackInv PROVE CalledWithLiveData
  OBVIOUS
<1> DEFINE M == svs_modules
           w == was_aborted
           e == event_was_aborted
<1>1. Good(stack, w, e, alive, member, M)
  BY DEF StackInv
<1>2. stack \in Seq(Frames)
  BY <1>1, GoodTyped
<1>3. \/ Core(stack, w, e, alive, member, M)
      \/ alive /\ Head(stack) \in Before(member, M) /\ Good(Tail(stack), FALSE, FALSE, alive, member, M)
  <2> HIDE DEF M, w, e
  <2>1. QED
    BY <1>1, GoodTop, Zenon
<1>4. CASE stack = <<>>
  BY <1>4, Zenon DEF CalledWithLiveData
<1>5. CASE stack # <<>> /\ alive /\ Head(stack) \in Before(member, M)
  <2> DEFINE f == Head(stack)
             u == Tail(stack)
  <2>1. stack = <<f>> \o u /\ u \in Seq(Frames) /\ f \in Before(member, M)
    BY <1>2, <1>5, Popped
  <2> HIDE DEF f, u
  <2>2. QED
    BY <1>5, <2>1, BeforeFit
<1>6. CASE Core(stack, w, e, alive, member, M)
  BY <1>6, CoreFit
<1> HIDE DEF M, w, e
<1>7. QED
  BY <1>3, <1>4, <1>5, <1>6, Zenon

-----------------------------------------------------------------------------
(* The theorems                                                            *)

(* The invariant above: no more entries than openings, and what a loaded   *)
(* module has taken is there.                                              *)
THEOREM AttachInvariant == Spec => []AttachInv
<1>1. QED
  BY AttachInit, AttachStep, PTL DEF Spec

(* Whatever is loaded, unloaded and fails to load, in any order and however*)
(* calls nest: a loaded module has its functions from loaded modules, which*)
(* know that it is attached, and every entry of modattach is of a module   *)
(* that is mapped.                                                         *)
THEOREM AttachmentsAlwaysSound == Spec => []AttachmentsSound
<1>1. AttachInv => AttachmentsSound
  <2> SUFFICES ASSUME AttachInv PROVE AttachmentsSound
    OBVIOUS
  <2>1. \A m \in svs_modules : \A f \in ToSet(Requires[m]) \ Events :
          f \in provides_list /\ Contains(modattach[f], m)
    BY DEF AttachInv
  <2>2. ASSUME NEW f \in Functions, NEW m \in ToSet(modattach[f]) PROVE Mapped(m)
    <3>1. modattach[f] \in Seq(Modules)
      BY DEF AttachInv
    <3>2. m \in Modules /\ Contains(modattach[f], m)
      BY <3>1 DEF ToSet, Contains
    <3>3. Times(modattach[f], m) \in Nat \ {0}
      BY <3>1, <3>2, TimesFacts
    <3>4. Times(modattach[f], m) <= handles[m] /\ handles[m] \in Nat
      BY <3>2 DEF AttachInv
    <3>5. QED
      BY <3>3, <3>4 DEF Mapped
  <2>3. QED
    BY <2>1, <2>2 DEF AttachmentsSound
<1>2. QED
  BY <1>1, AttachInvariant, PTL

(* The lists hold what the loaded modules hung on them: every module once  *)
(* on its lists of events, its commands with their owners, sorted, and its *)
(* trigger; os_uevent comes before chanserv. It holds if no module of Kept *)
(* is unloaded: botserv and sessionlimit leave entries behind, and chanserv*)
(* comes back in front of os_uevent.                                       *)
THEOREM ListInvariant == KeptLoaded => (Spec => []ListInv)
<1>1. KeptLoaded /\ Init => ListInv
  BY ListInit
<1>2. QED
  BY <1>1, ListStep, PTL DEF Spec

(* In whatever order the other modules were unloaded and loaded again, a   *)
(* loaded module is called once for each of its events and answers to its  *)
(* commands and triggers; HELP shows these sorted, and none of modules that*)
(* are gone.                                                               *)
THEOREM LoadedAlwaysAnswer == KeptLoaded => (Spec => []LoadedAnswer)
<1>1. ListInv => LoadedAnswer
  <2> SUFFICES ASSUME ListInv PROVE LoadedAnswer
    OBVIOUS
  <2> DEFINE mods == svs_modules
  <2>1. mods \in SUBSET Modules
    BY DEF ListInv, AttachInv
  <2>2. /\ \A l \in Lists : Attended(handlers[l], mods, l)
        /\ \A s \in Services : Handled(msglist[s], mods, s)
        /\ \A s \in Services : Helped(cmds[s], mods, s)
        /\ Kicked(chan_msg_events, mods)
    BY DEF ListInv, ListsHold
  <2>3. ASSUME NEW m \in mods, NEW l \in Adds(m)
        PROVE  Cardinality({i \in DOMAIN handlers[l] : handlers[l][i] = m}) = 1
    <3> DEFINE I == {i \in DOMAIN handlers[l] : handlers[l][i] = m}
    <3>1. l \in Lists
      BY <2>1, AddsLists
    <3>2. Once(handlers[l]) /\ m \in ToSet(handlers[l])
      BY <2>2, <3>1 DEF Attended, AttendsOf
    <3>3. PICK i \in DOMAIN handlers[l] : handlers[l][i] = m
      BY <3>2 DEF ToSet
    <3>4. I = {i}
      BY <3>2, <3>3 DEF Once
    <3>5. QED
      BY <3>4, FS_Singleton
  <2>4. ASSUME NEW m \in mods, NEW c \in Commands(m)
        PROVE  /\ Contains(cmds[c.to], Entry(m, c))
               /\ c.answers => HandlersFor(msglist[c.to], c.cmd) = <<HandlerOf(m, c)>>
    <3>1. m \in Modules /\ c.to \in Services /\ c.cmd # AnyMsg
      BY <2>1, CommandNumbers
    <3>2. /\ Entry(m, c) \in Entries /\ Entry(m, c).cmd = c.cmd /\ Entry(m, c).owner = m
          /\ HandlerOf(m, c) \in MsgHandlers
          /\ HandlerOf(m, c).msg = c.cmd /\ HandlerOf(m, c).owner = m
      BY <3>1, EntryFacts
    <3>3. Entry(m, c) \in ToSet(cmds[c.to])
      BY <2>2, <3>1, <3>2 DEF Helped, ShownOf
    <3>4. ASSUME c.answers PROVE HandlersFor(msglist[c.to], c.cmd) = <<HandlerOf(m, c)>>
      <4> DEFINE list == msglist[c.to]
                 h == HandlerOf(m, c)
      <4>1. list \in Seq(MsgHandlers) /\ ToSet(list) = AnswersOf(mods, c.to)
        BY <2>2, <3>1 DEF Handled
      <4>2. h \in ToSet(list)
        BY <3>2, <3>4, <4>1 DEF AnswersOf
      <4>3. PICK g \in ToSet(list) : g.msg = c.cmd /\ HandlersFor(list, c.cmd) = <<g>>
        BY <3>2, <4>1, <4>2, HandlersForFacts
      <4>4. g \in MsgHandlers /\ g.owner \in mods
            /\ \E d \in Commands(g.owner) : d.to = c.to /\ g.msg = d.cmd
        BY <3>1, <4>1, <4>3 DEF AnswersOf
      <4>5. g.owner = m
        BY <2>1, <3>1, <4>3, <4>4, CommandOwner
      <4>6. g = h
        BY <3>2, <4>3, <4>4, <4>5, Fields
      <4>7. QED
        BY <4>3, <4>6
    <3>5. QED
      BY <3>3, <3>4 DEF Contains, ToSet
  <2>5. ASSUME NEW m \in mods, Triggers(m) PROVE ChanHandlersFor(KickTrigger) # <<>>
    <3> DEFINE h == [msg |-> KickTrigger, owner |-> m]
    <3>1. h \in MsgHandlers /\ h.msg = KickTrigger /\ h.owner = m
      BY <2>1 DEF MsgHandlers, KickTrigger
    <3>2. h \in KicksOf(mods)
      BY <2>5, <3>1 DEF KicksOf
    <3> HIDE DEF h
    <3>3. chan_msg_events \in Seq(MsgHandlers) /\ h \in ToSet(chan_msg_events)
      BY <2>2, <3>2 DEF Kicked
    <3>4. PICK g : HandlersFor(chan_msg_events, KickTrigger) = <<g>>
      BY <3>1, <3>3, HandlersForFacts
    <3>5. QED
      BY <3>4 DEF ChanHandlersFor
  <2>6. ASSUME NEW s \in Services, NEW i \in DOMAIN cmds[s], NEW j \in DOMAIN cmds[s]
        PROVE  /\ cmds[s][i].owner \in mods
               /\ i < j => cmds[s][i].cmd < cmds[s][j].cmd
    <3>1. Sorted(cmds[s]) /\ ToSet(cmds[s]) = ShownOf(mods, s)
      BY <2>2 DEF Helped
    <3>2. cmds[s][i] \in ToSet(cmds[s])
      BY DEF ToSet
    <3>3. QED
      BY <3>1, <3>2 DEF Sorted, ShownOf
  <2>7. QED
    BY <2>3, <2>4, <2>5, <2>6 DEF LoadedAnswer
<1>2. QED
  BY <1>1, ListInvariant, PTL

(* However calls nest: a handler that irc_CallEvent, mod_do_event or       *)
(* m_privmsg calls is mapped, and the user and the IRC_ChanNode exist when *)
(* a handler or the caller behind it uses them, or the event was aborted.  *)
THEOREM CalledAlwaysWithLiveData == KeptLoaded => (Spec => []CalledWithLiveData)
<1>1. StackInv /\ ListInv => CalledWithLiveData
  BY StackFit
<1>2. QED
  BY <1>1, ListInvariant, StackInit, StackStep, PTL DEF Spec

=============================================================================
