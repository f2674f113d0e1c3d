---------------------------- MODULE DBMem_proofs ----------------------------
(***************************************************************************)
(* Proofs about DBMem: what holds of the two copies for any table and any  *)
(* size of the first allocation, and that they agree when the table fits;  *)
(* then about Sessions and UEvents, whose rows are kept in a DBMem.        *)
(***************************************************************************)
EXTENDS Sessions, UEvents, FiniteSetTheorems, TLAPS

(* A row of memory and a row of the table with its key are the same row.   *)
Agree ==
  \A i \in 1..Len(data) : \A q \in table : q.key = data[i].key => q = data[i]

(* The rows still to fetch are rows of the table, not yet in memory.       *)
LoadingFresh ==
  /\ loading \subseteq table
  /\ \A i \in 1..Len(data) : \A r \in loading : r.key # data[i].key
  /\ loading # {} => scan = 0

MemInv == TypeOK /\ row_max >= alloc_units /\ KeysUnique /\ Agree /\ LoadingFresh

-----------------------------------------------------------------------------
(* The operations on the sequence                                          *)

LEMMA WithoutRowFacts ==
  ASSUME NEW s \in Seq(Row), NEW i \in 1..Len(s)
  PROVE  /\ WithoutRow(s, i) \in Seq(Row)
         /\ Len(WithoutRow(s, i)) = Len(s) - 1
         /\ \A j \in 1..Len(s)-1 :
              WithoutRow(s, i)[j] = IF j = i THEN s[Len(s)] ELSE s[j]
<1>1. Len(s) - 1 \in Nat
  OBVIOUS
<1>2. \A j \in 1..Len(s)-1 : (IF j = i THEN s[Len(s)] ELSE s[j]) \in Row
  OBVIOUS
<1>3. QED
  BY <1>1, <1>2 DEF WithoutRow

LEMMA FoundFacts ==
  ASSUME data \in Seq(Row), KeysUnique, NEW k, Found(k) # 0
  PROVE  Found(k) \in 1..Len(data) /\ data[Found(k)].key = k
<1>1. k \in KeysOf(Rows(data))
  BY DEF Found
<1>2. PICK i \in 1..Len(data) : data[i].key = k
  BY <1>1 DEF KeysOf, Rows
<1>3. \A j \in 1..i-1 : data[j].key # k
  BY <1>2 DEF KeysUnique
<1>4. QED
  BY <1>1, <1>2, <1>3 DEF Found

LEMMA FoundZero ==
  ASSUME data \in Seq(Row), KeysUnique, NEW k, Found(k) = 0
  PROVE  k \notin KeysOf(Rows(data))
<1>1. SUFFICES ASSUME k \in KeysOf(Rows(data)) PROVE FALSE
  OBVIOUS
<1>2. PICK i \in 1..Len(data) : data[i].key = k
  BY <1>1 DEF KeysOf, Rows
<1>3. \A j \in 1..i-1 : data[j].key # k
  BY <1>2 DEF KeysUnique
<1>4. Found(k) \in 1..Len(data)
  BY <1>1, <1>2, <1>3 DEF Found
<1>5. QED
  BY <1>4

(* No row is removed but the one at i, and no row is kept twice.           *)
LEMMA WithoutRowKeeps ==
  ASSUME data \in Seq(Row), KeysUnique, NEW i \in 1..Len(data),
         data' = WithoutRow(data, i)
  PROVE  /\ KeysUnique'
         /\ \A j \in 1..Len(data') : \E m \in 1..Len(data) :
              m # i /\ data'[j] = data[m]
         /\ Rows(data') = Rows(data) \ {data[i]}
<1>1. /\ data' \in Seq(Row) /\ Len(data') = Len(data) - 1
      /\ \A j \in 1..Len(data)-1 :
           data'[j] = IF j = i THEN data[Len(data)] ELSE data[j]
  BY WithoutRowFacts
<1> DEFINE from(j) == IF j = i THEN Len(data) ELSE j
<1>2. \A j \in 1..Len(data') :
        from(j) \in 1..Len(data) /\ from(j) # i /\ data'[j] = data[from(j)]
  BY <1>1
<1>3. \A j, m \in 1..Len(data') : from(j) = from(m) => j = m
  BY <1>1
<1>4. KeysUnique'
  BY <1>2, <1>3 DEF KeysUnique
<1>5. \A m \in 1..Len(data) : m # i => \E j \in 1..Len(data') : data'[j] = data[m]
  <2>1. SUFFICES ASSUME NEW m \in 1..Len(data), m # i
                 PROVE  \E j \in 1..Len(data') : data'[j] = data[m]
    OBVIOUS
  <2>2. CASE m = Len(data)
    <3>1. i \in 1..Len(data') /\ data'[i] = data[m]
      BY <1>1, <2>1, <2>2
    <3>2. QED
      BY <3>1
  <2>3. CASE m # Len(data)
    <3>1. m \in 1..Len(data') /\ data'[m] = data[m]
      BY <1>1, <2>1, <2>3
    <3>2. QED
      BY <3>1
  <2>4. QED
    BY <2>2, <2>3
<1>6. \A m \in 1..Len(data) : m # i => data[m] # data[i]
  BY DEF KeysUnique
<1>7. Rows(data') = Rows(data) \ {data[i]}
  <2>1. \A j \in 1..Len(data') : data'[j] \in Rows(data) \ {data[i]}
    <3>1. SUFFICES ASSUME NEW j \in 1..Len(data')
                   PROVE  data'[j] \in Rows(data) \ {data[i]}
      OBVIOUS
    <3>2. from(j) \in 1..Len(data) /\ from(j) # i /\ data'[j] = data[from(j)]
      BY <1>2
    <3> HIDE DEF from
    <3>3. QED
      BY <1>6, <3>2 DEF Rows
  <2> HIDE DEF from
  <2>2. Rows(data') \subseteq Rows(data) \ {data[i]}
    BY <2>1 DEF Rows
  <2>3. Rows(data) \ {data[i]} \subseteq Rows(data')
    BY <1>5 DEF Rows
  <2>4. QED
    BY <2>2, <2>3
<1>8. \A j \in 1..Len(data') : \E m \in 1..Len(data) : m # i /\ data'[j] = data[m]
  <2> HIDE DEF from
  <2>1. QED
    BY <1>2
<1>9. QED
  BY <1>4, <1>7, <1>8

LEMMA AppendKeeps ==
  ASSUME data \in Seq(Row), KeysUnique, NEW r \in Row,
         \A i \in 1..Len(data) : data[i].key # r.key,
         data' = Append(data, r)
  PROVE  /\ data' \in Seq(Row) /\ KeysUnique'
         /\ \A j \in 1..Len(data') : data'[j] = r \/ \E m \in 1..Len(data) : data'[j] = data[m]
         /\ Rows(data') = Rows(data) \union {r}
<1>1. /\ data' \in Seq(Row) /\ Len(data') = Len(data) + 1
      /\ data'[Len(data)+1] = r
      /\ \A j \in 1..Len(data) : data'[j] = data[j]
  OBVIOUS
<1>2. \A j \in 1..Len(data') : j = Len(data) + 1 \/ j \in 1..Len(data)
  BY <1>1
<1>3. KeysUnique'
  BY <1>1, <1>2 DEF KeysUnique
<1>4. Len(data) + 1 \in 1..Len(data') /\ \A j \in 1..Len(data) : j \in 1..Len(data')
  BY <1>1
<1>5. Rows(data') = Rows(data) \union {r}
  BY <1>1, <1>2, <1>4 DEF Rows
<1>6. QED
  BY <1>1, <1>2, <1>3, <1>5

LEMMA NotFound ==
  ASSUME NEW k, k \notin KeysOf(Rows(data))
  PROVE  \A i \in 1..Len(data) : data[i].key # k
BY DEF KeysOf, Rows

LEMMA RekeyedRow ==
  ASSUME NEW r \in Row, NEW new \in Keys
  PROVE  [r EXCEPT !.key = new] \in Row /\ [r EXCEPT !.key = new].key = new
BY DEF Row

LEMMA GrownType ==
  ASSUME row_max \in Nat, row_max >= alloc_units
  PROVE  Grown(data) \in Nat /\ Grown(data) >= alloc_units
BY DBMemAssumption DEF Grown

-----------------------------------------------------------------------------
(* The invariant of memory and table, whoever is dropped                   *)

LEMMA InitMem == Init => MemInv
<1>1. SUFFICES ASSUME Init PROVE MemInv
  OBVIOUS
<1>2. table \subseteq Row /\ UniqueKeys(table)
  BY <1>1 DEF Init, InitialRows, Row
<1>3. data = <<>> /\ Len(data) = 0
  BY <1>1 DEF Init
<1>4. QED
  BY <1>1, <1>2, <1>3, DBMemAssumption
  DEF Init, MemInv, TypeOK, KeysUnique, Agree, LoadingFresh

LEMMA LoadMem == ASSUME MemInv, Load PROVE MemInv'
<1>1. PICK r \in loading : /\ data' = StoreRow(data, r)
                           /\ row_max' = Grown(data)
                           /\ loading' = loading \ {r}
                           /\ UNCHANGED <<table, scan, irc_CurrentTime>>
  BY DEF Load
<1>2. /\ r \in table /\ r \in Row /\ data \in Seq(Row) /\ UniqueKeys(table)
      /\ \A i \in 1..Len(data) : data[i].key # r.key
      /\ \A q \in table : q.key = r.key => q = r
  BY <1>1 DEF MemInv, TypeOK, LoadingFresh, UniqueKeys
<1>3. row_max' \in Nat /\ row_max' >= alloc_units
  BY <1>1, GrownType DEF MemInv, TypeOK
<1>4. /\ data' \in Seq(Row) /\ KeysUnique'
      /\ \A j \in 1..Len(data') : data'[j] = r \/ \E m \in 1..Len(data) : data'[j] = data[m]
  <2>1. CASE Len(data) >= row_max
    <3>1. data' = <<r>>
      BY <1>1, <2>1 DEF StoreRow
    <3>2. QED
      BY <1>2, <3>1 DEF KeysUnique
  <2>2. CASE ~(Len(data) >= row_max)
    <3>1. data' = Append(data, r)
      BY <1>1, <2>2 DEF StoreRow
    <3>2. QED
      BY <1>2, <3>1, AppendKeeps DEF MemInv
  <2>3. QED
    BY <2>1, <2>2
<1>5. Agree'
  BY <1>1, <1>2, <1>4 DEF MemInv, Agree
<1>6. LoadingFresh'
  BY <1>1, <1>2, <1>4 DEF MemInv, LoadingFresh
<1>7. TypeOK'
  BY <1>1, <1>3, <1>4 DEF MemInv, TypeOK
<1>8. QED
  BY <1>3, <1>4, <1>5, <1>6, <1>7 DEF MemInv

LEMMA InsertMem ==
  ASSUME MemInv, NEW r \in NewRows, Insert(r) PROVE MemInv'
<1>1. /\ loading = {} /\ scan = 0 /\ ~KeyTaken(r.key, Rows(data))
      /\ row_max' = Grown(data) /\ UNCHANGED <<loading, scan, irc_CurrentTime>>
  BY DEF Insert, Ready
<1>2. r \in Row /\ data \in Seq(Row) /\ row_max' \in Nat /\ row_max' >= alloc_units
  BY <1>1, GrownType, DBMemAssumption DEF MemInv, TypeOK, NewRows, Row
<1>3. CASE KeyTaken(r.key, table)
  BY <1>1, <1>2, <1>3
  DEF Insert, MemInv, TypeOK, KeysUnique, Agree, LoadingFresh
<1>4. CASE ~KeyTaken(r.key, table)
  <2>1. /\ data' = Append(data, r) /\ table' = table \union {r}
        /\ \A i \in 1..Len(data) : data[i].key # r.key
        /\ \A q \in table : q.key # r.key
    BY <1>1, <1>4, NotFound DEF Insert, KeyTaken, KeysOf
  <2>2. /\ data' \in Seq(Row) /\ KeysUnique'
        /\ \A j \in 1..Len(data') : data'[j] = r \/ \E m \in 1..Len(data) : data'[j] = data[m]
    BY <1>2, <2>1, AppendKeeps DEF MemInv
  <2>3. Agree'
    BY <1>2, <2>1, <2>2 DEF MemInv, Agree
  <2>4. TypeOK'
    BY <1>1, <1>2, <2>1, <2>2 DEF MemInv, TypeOK, UniqueKeys
  <2>5. LoadingFresh'
    BY <1>1 DEF LoadingFresh
  <2>6. QED
    BY <1>2, <2>2, <2>3, <2>4, <2>5 DEF MemInv
<1>5. QED
  BY <1>3, <1>4

(* Both callers of a removal: the row at i goes from both copies.          *)
LEMMA RemovalMem ==
  ASSUME MemInv, loading = {}, NEW i \in 1..Len(data),
         table' = table \ RowsInTable(data[i].key),
         data' = WithoutRow(data, i), scan' \in Nat,
         UNCHANGED <<row_max, loading, irc_CurrentTime>>
  PROVE  MemInv'
<1>1. /\ data \in Seq(Row) /\ KeysUnique /\ data' \in Seq(Row)
  BY WithoutRowFacts DEF MemInv, TypeOK
<1>2. /\ KeysUnique'
      /\ \A j \in 1..Len(data') : \E m \in 1..Len(data) : data'[j] = data[m]
  BY <1>1, WithoutRowKeeps
<1>3. Agree'
  BY <1>2 DEF MemInv, Agree
<1>4. TypeOK'
  BY <1>1 DEF MemInv, TypeOK, UniqueKeys
<1>5. QED
  BY <1>2, <1>3, <1>4 DEF MemInv, LoadingFresh

LEMMA DeleteMem == ASSUME MemInv, NEW k \in Keys, Delete(k) PROVE MemInv'
<1>1. Found(k) \in 1..Len(data) /\ data[Found(k)].key = k
  BY FoundFacts DEF Delete, MemInv, TypeOK
<1>2. QED
  BY <1>1, RemovalMem DEF Delete, Ready, MemInv, TypeOK

LEMMA ReplaceKeyMem ==
  ASSUME MemInv, NEW k \in Keys, NEW new \in Keys, ReplaceKey(k, new)
  PROVE  MemInv'
<1> DEFINE i == Found(k)
<1>1. i \in 1..Len(data) /\ data[i].key = k /\ data \in Seq(Row)
  BY FoundFacts DEF ReplaceKey, MemInv, TypeOK
<1>2. /\ data' = [data EXCEPT ![i].key = new]
      /\ loading = {} /\ scan = 0 /\ UNCHANGED <<row_max, loading, scan, irc_CurrentTime>>
      /\ table' = (table \ RowsInTable(k)) \union Rekeyed(k, new)
      /\ \A q \in table : q.key # new
  BY DEF ReplaceKey, Ready, RowsInTable
<1>3. \A j \in 1..Len(data) : data[j].key # new
  <2>1. new \notin KeysOf(Rows(data))
    BY <1>1, FoundZero DEF ReplaceKey, MemInv
  <2>2. QED
    BY <2>1, NotFound
<1>4. /\ data' \in Seq(Row) /\ Len(data') = Len(data)
      /\ \A j \in 1..Len(data) :
           data'[j] = IF j = i THEN [data[i] EXCEPT !.key = new] ELSE data[j]
  <2>1. [data[i] EXCEPT !.key = new] \in Row
    <3>1. data[i] \in Row
      BY <1>1
    <3> HIDE DEF i
    <3>2. QED
      BY <3>1, RekeyedRow
  <2> HIDE DEF i
  <2>2. QED
    BY <1>1, <1>2, <2>1
<1>5. data'[i].key = new
  <2>1. data[i] \in Row /\ data'[i] = [data[i] EXCEPT !.key = new]
    BY <1>1, <1>4
  <2> HIDE DEF i
  <2>2. QED
    BY <2>1, RekeyedRow
<1>6. KeysUnique'
  <2> HIDE DEF i
  <2>1. QED
    BY <1>1, <1>3, <1>4, <1>5 DEF MemInv, KeysUnique
<1>7. \A q \in RowsInTable(k) : q = data[i]
  BY <1>1 DEF RowsInTable, MemInv, Agree
<1>8. \A q \in Rekeyed(k, new) : q = data'[i] /\ q \in Row /\ q.key = new
  <2>1. SUFFICES ASSUME NEW q \in RowsInTable(k)
                 PROVE  /\ [q EXCEPT !.key = new] = data'[i]
                        /\ [q EXCEPT !.key = new] \in Row
                        /\ [q EXCEPT !.key = new].key = new
    BY DEF Rekeyed
  <2>2. q = data[i] /\ data[i] \in Row /\ data'[i] = [data[i] EXCEPT !.key = new]
    BY <1>1, <1>4, <1>7, <2>1
  <2> HIDE DEF i
  <2>3. QED
    BY <2>2, RekeyedRow
<1>9. Agree'
  <2>1. SUFFICES ASSUME NEW j \in 1..Len(data), NEW q \in table', q.key = data'[j].key
                 PROVE  q = data'[j]
    BY <1>4 DEF Agree
  <2>2. CASE q \in Rekeyed(k, new)
    BY <1>1, <1>3, <1>4, <1>8, <2>1, <2>2
  <2>3. CASE q \in table \ RowsInTable(k)
    <3>1. j # i
      BY <1>2, <1>5, <2>1, <2>3
    <3>2. QED
      BY <1>4, <2>1, <2>3, <3>1 DEF MemInv, Agree
  <2>4. QED
    BY <1>2, <2>1, <2>2, <2>3
<1>10. TypeOK'
  <2>1. UniqueKeys(table')
    BY <1>2, <1>8 DEF MemInv, TypeOK, UniqueKeys
  <2>2. table' \subseteq Row
    BY <1>2, <1>8 DEF MemInv, TypeOK
  <2>3. QED
    BY <1>2, <1>4, <2>1, <2>2 DEF MemInv, TypeOK
<1>11. QED
  BY <1>2, <1>6, <1>9, <1>10 DEF MemInv, LoadingFresh

LEMMA ExpireStepMem == ASSUME MemInv, ExpireStep PROVE MemInv'
<1>1. /\ scan # 0 /\ scan \in Nat /\ loading = {}
      /\ UNCHANGED <<row_max, loading, irc_CurrentTime>>
  BY DEF ExpireStep, MemInv, TypeOK, LoadingFresh
<1>2. CASE UNCHANGED <<table, data>> /\ scan' \in Nat
  BY <1>1, <1>2 DEF MemInv, TypeOK, KeysUnique, Agree, LoadingFresh
<1>3. CASE /\ scan <= Len(data)
           /\ table' = table \ RowsInTable(data[scan].key)
           /\ data' = WithoutRow(data, scan)
           /\ scan' = scan + 1
  <2>1. scan \in 1..Len(data) /\ scan' \in Nat
    BY <1>1, <1>3 DEF MemInv, TypeOK
  <2>2. QED
    BY <1>1, <1>3, <2>1, RemovalMem
<1>4. QED
  BY <1>1, <1>2, <1>3 DEF ExpireStep

LEMMA OtherMem ==
  ASSUME MemInv,
         \/ ExpireStart \/ Reload \/ Tick \/ UNCHANGED dbvars
         \/ \E o \in Owners : OwnerDropped(o)
  PROVE  MemInv'
<1>1. CASE ExpireStart
  BY <1>1 DEF ExpireStart, Ready, MemInv, TypeOK, KeysUnique, Agree, LoadingFresh
<1>2. CASE Reload
  <2>1. data' = <<>> /\ Len(data') = 0 /\ data' \in Seq(Row)
    BY <1>2 DEF Reload
  <2>2. QED
    BY <1>2, <2>1, DBMemAssumption
    DEF Reload, Ready, MemInv, TypeOK, KeysUnique, Agree, LoadingFresh
<1>3. CASE Tick
  BY <1>3 DEF Tick, dbmem, MemInv, TypeOK, KeysUnique, Agree, LoadingFresh
<1>4. CASE UNCHANGED dbvars
  BY <1>4 DEF dbvars, MemInv, TypeOK, KeysUnique, Agree, LoadingFresh
<1>5. CASE \E o \in Owners : OwnerDropped(o)
  <2>1. /\ table' \subseteq table /\ loading = {}
        /\ UNCHANGED <<data, row_max, loading, scan, irc_CurrentTime>>
    BY <1>5 DEF OwnerDropped, Ready
  <2>2. QED
    BY <2>1 DEF MemInv, TypeOK, UniqueKeys, KeysUnique, Agree, LoadingFresh
<1>6. QED
  BY <1>1, <1>2, <1>3, <1>4, <1>5

LEMMA StepMem == ASSUME MemInv, [Next]_dbvars PROVE MemInv'
<1>1. CASE Load
  BY <1>1, LoadMem
<1>2. CASE \E r \in NewRows : Insert(r)
  BY <1>2, InsertMem
<1>3. CASE \E k \in Keys : Delete(k)
  BY <1>3, DeleteMem
<1>4. CASE \E k, new \in Keys : ReplaceKey(k, new)
  BY <1>4, ReplaceKeyMem
<1>5. CASE ExpireStep
  BY <1>5, ExpireStepMem
<1>6. QED
  BY <1>1, <1>2, <1>3, <1>4, <1>5, OtherMem DEF Next

(* Whatever becomes of the owners and however large the table is, memory   *)
(* and table never disagree about a row that both of them hold.            *)
THEOREM MemoryInvariant == Spec => []MemInv
<1>1. MemInv /\ [Next]_dbvars => MemInv'
  BY StepMem
<1>2. QED
  BY <1>1, InitMem, PTL DEF Spec

(* Memory never holds two rows with one key.                               *)
THEOREM KeysAlwaysUnique == Spec => []KeysUnique
<1>1. MemInv => KeysUnique
  BY DEF MemInv
<1>2. QED
  BY <1>1, MemoryInvariant, PTL

(* dbmem_expire never deletes a row of the table that has not expired.     *)
THEOREM ExpireIsSafe == Spec => OnlyExpiredRowsExpire
<1>1. MemInv /\ [Next]_dbvars =>
        [scan # 0 => \A r \in table \ table' : Expired(r)]_dbvars
  <2>1. SUFFICES ASSUME MemInv, Next, scan # 0, NEW r \in table \ table'
                 PROVE  Expired(r)
    BY DEF dbvars
  <2>2. Load => FALSE
    BY <2>1 DEF Load, MemInv, LoadingFresh
  <2>3. ExpireStep
    BY <2>1, <2>2
    DEF Next, Insert, Delete, ReplaceKey, ExpireStart, Reload, Tick,
        OwnerDropped, Ready
  <2>4. /\ scan <= Len(data) /\ Expired(data[scan])
        /\ table' = table \ RowsInTable(data[scan].key)
    BY <2>1, <2>3 DEF ExpireStep, ExpiresNow
  <2>5. scan \in 1..Len(data) /\ r.key = data[scan].key
    BY <2>1, <2>4 DEF RowsInTable, MemInv, TypeOK
  <2>6. r = data[scan]
    BY <2>1, <2>5 DEF MemInv, Agree
  <2>7. QED
    BY <2>4, <2>6
<1>2. QED
  BY <1>1, MemoryInvariant, PTL DEF Spec, OnlyExpiredRowsExpire

-----------------------------------------------------------------------------
(* Memory shows only rows of the table, but for rows that lost their owner.*)

StoreInv == MemInv /\ MemoryInTable

(* The row of the table with the key of a row in memory is that row.       *)
LEMMA SameRow ==
  ASSUME MemInv, NEW i \in 1..Len(data), RowsInTable(data[i].key) # {}
  PROVE  RowsInTable(data[i].key) = {data[i]} /\ data[i] \in table
BY DEF RowsInTable, MemInv, Agree

(* A removal takes the same row out of both copies.                        *)
LEMMA RemovalStore ==
  ASSUME StoreInv, NEW i \in 1..Len(data),
         RowsInTable(data[i].key) # {},
         table' = table \ RowsInTable(data[i].key),
         data' = WithoutRow(data, i)
  PROVE  /\ Rows(data') = Rows(data) \ {data[i]}
         /\ table' = table \ {data[i]}
<1>1. Rows(data') = Rows(data) \ {data[i]}
  BY WithoutRowKeeps DEF StoreInv, MemInv, TypeOK
<1>2. QED
  BY <1>1, SameRow DEF StoreInv

LEMMA ReplaceKeyStore ==
  ASSUME StoreInv, NEW k \in Keys, NEW new \in Keys, ReplaceKey(k, new)
  PROVE  \E old \in Rows(data) : \E row :
           /\ row = [old EXCEPT !.key = new]
           /\ Rows(data') = (Rows(data) \ {old}) \union {row}
           /\ table' = (table \ {old}) \union {row}
<1> DEFINE i == Found(k)
           row == [data[i] EXCEPT !.key = new]
<1>1. i \in 1..Len(data) /\ data[i].key = k /\ data \in Seq(Row) /\ KeysUnique
  BY FoundFacts DEF ReplaceKey, StoreInv, MemInv, TypeOK
<1>2. /\ data' = [data EXCEPT ![i].key = new]
      /\ table' = (table \ RowsInTable(k)) \union Rekeyed(k, new)
  BY DEF ReplaceKey
<1>3. data[i] \in Rows(data)
  BY <1>1 DEF Rows
<1>4. RowsInTable(k) = {data[i]}
  <2> HIDE DEF i
  <2>1. QED
    BY <1>1, SameRow DEF ReplaceKey, StoreInv
<1>5. table' = (table \ {data[i]}) \union {row}
  BY <1>2, <1>4 DEF Rekeyed
<1>6. /\ Len(data') = Len(data)
      /\ \A j \in 1..Len(data) : data'[j] = IF j = i THEN row ELSE data[j]
  <2> HIDE DEF i
  <2>1. QED
    BY <1>1, <1>2
<1>7. \A j \in 1..Len(data) : j # i => data[j] # data[i]
  <2> HIDE DEF i
  <2>1. QED
    BY <1>1 DEF KeysUnique
<1>8. Rows(data') = (Rows(data) \ {data[i]}) \union {row}
  <2> HIDE DEF i, row
  <2>1. \A j \in 1..Len(data') : data'[j] \in (Rows(data) \ {data[i]}) \union {row}
    BY <1>6, <1>7 DEF Rows
  <2>2. Rows(data') \subseteq (Rows(data) \ {data[i]}) \union {row}
    BY <2>1 DEF Rows
  <2>3. row \in Rows(data')
    BY <1>1, <1>6 DEF Rows
  <2>4. \A j \in 1..Len(data) : j # i => data[j] \in Rows(data')
    BY <1>6 DEF Rows
  <2>5. Rows(data) \ {data[i]} \subseteq Rows(data')
    BY <2>4 DEF Rows
  <2>6. QED
    BY <2>2, <2>3, <2>5
<1>9. row = [data[i] EXCEPT !.key = new]
  OBVIOUS
<1> HIDE DEF i, row
<1>10. QED
  BY <1>3, <1>5, <1>8, <1>9

(* How a step of the store changes the two copies                          *)
StoreChange ==
  \/ \E r \in loading : /\ Load /\ r \in table /\ table' = table
                        /\ loading' = loading \ {r}
                        /\ Rows(data') \subseteq Rows(data) \union {r}
                        /\ Len(data) < row_max =>
                             Rows(data') = Rows(data) \union {r}
  \/ /\ loading' = loading
     /\ \/ \E r : /\ Rows(data') = Rows(data) \union {r}
                  /\ table' = table \union {r}
        \/ \E old \in Rows(data) : /\ Rows(data') = Rows(data) \ {old}
                                   /\ table' = table \ {old}
        \/ \E old \in Rows(data) : \E row :
             /\ Rows(data') = (Rows(data) \ {old}) \union {row}
             /\ table' = (table \ {old}) \union {row}
        \/ Rows(data') = Rows(data) /\ table' = table
        \/ /\ data' = data /\ table' \subseteq table
           /\ \A r \in table \ table' : r.owner # NONE
  \/ loading' = table /\ table' = table /\ Rows(data') = {}

LEMMA StoreSteps ==
  ASSUME StoreInv, [Next]_dbvars PROVE StoreChange
<1>1. data \in Seq(Row) /\ KeysUnique /\ row_max \in Nat
  BY DEF StoreInv, MemInv, TypeOK
<1>2. CASE Load
  <2>1. PICK r \in loading : /\ data' = StoreRow(data, r)
                             /\ loading' = loading \ {r} /\ table' = table
    BY <1>2 DEF Load
  <2>2. /\ r \in table /\ r \in Row
        /\ \A i \in 1..Len(data) : data[i].key # r.key
    BY <2>1 DEF StoreInv, MemInv, LoadingFresh, TypeOK
  <2>3. CASE Len(data) >= row_max
    <3>1. data' = <<r>>
      BY <2>1, <2>3 DEF StoreRow
    <3>2. Rows(data') = {r}
      BY <3>1 DEF Rows
    <3>3. QED
      BY <1>1, <1>2, <2>1, <2>2, <2>3, <3>2 DEF StoreChange
  <2>4. CASE Len(data) < row_max
    <3>1. data' = Append(data, r)
      BY <1>1, <2>1, <2>4 DEF StoreRow
    <3>2. Rows(data') = Rows(data) \union {r}
      BY <1>1, <2>2, <3>1, AppendKeeps
    <3>3. QED
      BY <1>2, <2>1, <2>2, <2>4, <3>2 DEF StoreChange
  <2>5. QED
    BY <1>1, <2>3, <2>4
<1>3. ASSUME NEW r \in NewRows, Insert(r) PROVE StoreChange
  <2>1. loading' = loading
    BY <1>3 DEF Insert
  <2>2. r \in Row /\ \A i \in 1..Len(data) : data[i].key # r.key
    BY <1>3, NotFound, DBMemAssumption
    DEF Insert, KeyTaken, NewRows, Row, StoreInv, MemInv, TypeOK
  <2>3. CASE KeyTaken(r.key, table)
    BY <1>3, <2>1, <2>3 DEF Insert, StoreChange
  <2>4. CASE ~KeyTaken(r.key, table)
    <3>1. data' = Append(data, r) /\ table' = table \union {r}
      BY <1>3, <2>4 DEF Insert
    <3>2. Rows(data') = Rows(data) \union {r}
      BY <1>1, <2>2, <3>1, AppendKeeps
    <3>3. QED
      BY <2>1, <3>1, <3>2 DEF StoreChange
  <2>5. QED
    BY <2>3, <2>4
<1>4. ASSUME NEW k \in Keys, Delete(k) PROVE StoreChange
  <2>1. Found(k) \in 1..Len(data) /\ data[Found(k)].key = k
    BY <1>1, <1>4, FoundFacts DEF Delete
  <2>2. /\ Rows(data') = Rows(data) \ {data[Found(k)]}
        /\ table' = table \ {data[Found(k)]} /\ loading' = loading
    BY <1>4, <2>1, RemovalStore DEF Delete
  <2>3. data[Found(k)] \in Rows(data)
    BY <2>1 DEF Rows
  <2>4. QED
    BY <2>2, <2>3 DEF StoreChange
<1>5. ASSUME NEW k \in Keys, NEW new \in Keys, ReplaceKey(k, new) PROVE StoreChange
  <2>1. loading' = loading
    BY <1>5 DEF ReplaceKey
  <2>2. QED
    BY <1>5, <2>1, ReplaceKeyStore DEF StoreChange
<1>6. CASE ExpireStep
  <2>1. loading' = loading
    BY <1>6 DEF ExpireStep
  <2>2. CASE UNCHANGED <<table, data>>
    BY <2>1, <2>2 DEF StoreChange
  <2>3. CASE /\ scan <= Len(data) /\ scan # 0
             /\ table' = table \ RowsInTable(data[scan].key)
             /\ data' = WithoutRow(data, scan)
             /\ RowsInTable(data[scan].key) # {}
    <3>1. scan \in 1..Len(data)
      BY <1>1, <2>3 DEF StoreInv, MemInv, TypeOK
    <3>2. /\ Rows(data') = Rows(data) \ {data[scan]}
          /\ table' = table \ {data[scan]} /\ data[scan] \in Rows(data)
      BY <2>3, <3>1, RemovalStore DEF Rows
    <3>3. QED
      BY <2>1, <3>2 DEF StoreChange
  <2>4. QED
    BY <1>6, <2>2, <2>3 DEF ExpireStep
<1>7. CASE Reload
  <2>1. data' = <<>> /\ Rows(data') = {} /\ loading' = table /\ table' = table
    BY <1>7 DEF Reload, Rows
  <2>2. QED
    BY <2>1 DEF StoreChange
<1>8. CASE ExpireStart \/ Tick \/ UNCHANGED dbvars
  BY <1>8 DEF ExpireStart, Tick, dbmem, dbvars, StoreChange
<1>9. CASE \E o \in Owners : OwnerDropped(o)
  BY <1>9, DBMemAssumption DEF OwnerDropped, StoreChange
<1>10. QED
  BY <1>2, <1>3, <1>4, <1>5, <1>6, <1>7, <1>8, <1>9 DEF Next

LEMMA StoreStep == ASSUME StoreInv, [Next]_dbvars PROVE StoreInv'
<1>1. MemInv'
  BY StepMem DEF StoreInv, Next
<1>2. MemoryInTable'
  BY StoreSteps DEF StoreInv, MemoryInTable, StoreChange
<1>3. QED
  BY <1>1, <1>2 DEF StoreInv

LEMMA InitStore == Init => StoreInv
<1>1. Init => Rows(data) = {}
  BY DEF Init, Rows
<1>2. QED
  BY <1>1, InitMem DEF StoreInv, MemoryInTable

(* For a table of any size and any commands, a row that memory shows and   *)
(* the table does not have is one whose owner was dropped.                 *)
THEOREM MemoryAlwaysInTable == Spec => []MemoryInTable
<1>1. StoreInv => MemoryInTable
  BY DEF StoreInv
<1>2. StoreInv /\ [Next]_dbvars => StoreInv'
  BY StoreStep
<1>3. QED
  BY <1>1, <1>2, InitStore, PTL DEF Spec

-----------------------------------------------------------------------------
(* When every table fits in the first allocation, nothing is lost on load. *)

Fits == IsFiniteSet(Keys) /\ Cardinality(Keys) <= alloc_units

FullInv == StoreInv /\ table \subseteq Rows(data) \union loading

(* A row still to load means that memory has room: its key is missing.     *)
LEMMA RoomLeft ==
  ASSUME Fits, MemInv, NEW r \in loading PROVE Len(data) < row_max
<1>1. /\ r.key \in Keys /\ data \in Seq(Row)
      /\ \A i \in 1..Len(data) : data[i].key \in Keys \ {r.key}
  <2>1. r \in Row /\ data \in Seq(Row)
    BY DEF MemInv, TypeOK
  <2>2. \A i \in 1..Len(data) : data[i] \in Row /\ data[i].key # r.key
    BY <2>1 DEF MemInv, LoadingFresh
  <2>3. \A q \in Row : q.key \in Keys
    BY DEF Row
  <2>4. QED
    BY <2>1, <2>2, <2>3
<1> DEFINE key == [i \in 1..Len(data) |-> data[i].key]
<1>2. key \in Injection(1..Len(data), Keys \ {r.key})
  BY <1>1 DEF Injection, IsInjective, MemInv, KeysUnique
<1>3. /\ IsFiniteSet(Keys \ {r.key})
      /\ Cardinality(Keys \ {r.key}) = Cardinality(Keys) - 1
      /\ Cardinality(Keys) \in Nat
  BY <1>1, FS_RemoveElement, FS_CardinalityType DEF Fits
<1>4. Cardinality(1..Len(data)) = Len(data)
  <2>1. Len(data) \in Nat
    BY <1>1
  <2>2. Cardinality(1..Len(data)) = IF 1 > Len(data) THEN 0 ELSE Len(data) - 1 + 1
    BY <2>1, FS_Interval
  <2>3. QED
    BY <2>1, <2>2
<1>5. Cardinality(1..Len(data)) <= Cardinality(Keys \ {r.key})
  BY <1>2, <1>3, FS_Injection
<1>6. Len(data) \in Nat /\ row_max \in Nat /\ row_max >= alloc_units
  BY <1>1 DEF MemInv, TypeOK
<1>7. QED
  BY <1>3, <1>4, <1>5, <1>6, DBMemAssumption DEF Fits

LEMMA FullStep == ASSUME Fits, FullInv, [Next]_dbvars PROVE FullInv'
<1>1. StoreInv'
  BY StoreStep DEF FullInv
<1>2. \A r \in loading : Len(data) < row_max
  BY RoomLeft DEF FullInv, StoreInv
<1>3. table' \subseteq Rows(data') \union loading'
  BY <1>2, StoreSteps DEF FullInv, StoreChange
<1>4. QED
  BY <1>1, <1>3 DEF FullInv

(* The promise of mysql.c:746, for tables that fit the first allocation:   *)
(* whenever no loop is running, memory holds the rows of the table, and    *)
(* besides them only rows that lost their owner.                           *)
THEOREM AlwaysSynchronized == Fits /\ Spec => []Synchronized
<1>1. FullInv => Synchronized
  BY DEF FullInv, StoreInv, MemoryInTable, Synchronized, Ready
<1>2. Init => FullInv
  BY InitStore DEF FullInv, Init
<1>3. ASSUME Fits PROVE Spec => []FullInv
  <2>1. FullInv /\ [Next]_dbvars => FullInv'
    BY <1>3, FullStep
  <2>2. QED
    BY <1>2, <2>1, PTL DEF Spec
<1>4. ASSUME Fits PROVE Spec => []Synchronized
  BY <1>1, <1>3, <1>4, PTL
<1>5. QED
  BY <1>4

-----------------------------------------------------------------------------
(* DBMem implements CachedTable: rows still to load count as there, and    *)
(* every step adds, removes or renames one row, ends a pass, or changes    *)
(* nothing that its owner sees.                                            *)

LEMMA CachedInit == Init => Cached!Init
<1>1. SUFFICES ASSUME Init PROVE Cached!Init
  OBVIOUS
<1>2. /\ table \subseteq Row /\ UniqueKeys(table) /\ Rows(data) = {}
      /\ loading = table /\ irc_CurrentTime = 1 /\ scan = 0
  <2>1. table \subseteq Row /\ UniqueKeys(table)
    BY <1>1, InitMem DEF MemInv, TypeOK
  <2>2. Rows(<<>>) = {}
    BY DEF Rows
  <2>3. QED
    BY <1>1, <2>1, <2>2 DEF Init
<1>3. Rows(data) \union loading = table
  BY <1>2
<1>4. QED
  BY <1>2, <1>3 DEF Cached!Init, Cached!UniqueKeys, UniqueKeys

LEMMA CachedInsert ==
  ASSUME FullInv, NEW r \in NewRows, Insert(r)
  PROVE  Cached!Add \/ UNCHANGED Cached!vars
<1>1. /\ loading = {} /\ loading' = {} /\ scan = 0 /\ scan' = 0
      /\ irc_CurrentTime' = irc_CurrentTime /\ ~KeyTaken(r.key, Rows(data))
  BY DEF Insert, Ready
<1>2. /\ r \in Row /\ data \in Seq(Row) /\ KeysUnique
      /\ \A i \in 1..Len(data) : data[i].key # r.key
  BY <1>1, NotFound, DBMemAssumption
  DEF KeyTaken, NewRows, Row, FullInv, StoreInv, MemInv, TypeOK
<1>3. CASE KeyTaken(r.key, table)
  <2>1. data' = data
    BY <1>3 DEF Insert
  <2>2. QED
    BY <1>1, <2>1 DEF Cached!vars
<1>4. CASE ~KeyTaken(r.key, table)
  <2>1. data' = Append(data, r)
    BY <1>4 DEF Insert
  <2>2. Rows(data') = Rows(data) \union {r}
    BY <1>2, <2>1, AppendKeeps
  <2>3. r.expires = 0 \/ r.expires = irc_CurrentTime + Duration
    BY DEF NewRows
  <2>4. ~Cached!Over(r)
    BY <2>3, DBMemAssumption DEF Cached!Over, FullInv, StoreInv, MemInv, TypeOK
  <2>5. \A q \in Rows(data) : q.key # r.key
    BY <1>2 DEF Rows
  <2>6. QED
    BY <1>1, <1>2, <2>2, <2>4, <2>5 DEF Cached!Add
<1>5. QED
  BY <1>3, <1>4

LEMMA CachedReplaceKey ==
  ASSUME FullInv, NEW k \in Keys, NEW new \in Keys, ReplaceKey(k, new)
  PROVE  Cached!Rename
<1>1. PICK old \in Rows(data) : \E row :
        /\ row = [old EXCEPT !.key = new]
        /\ Rows(data') = (Rows(data) \ {old}) \union {row}
  BY ReplaceKeyStore DEF FullInv
<1>2. PICK row : /\ row = [old EXCEPT !.key = new]
                 /\ Rows(data') = (Rows(data) \ {old}) \union {row}
  BY <1>1
<1>3. /\ loading = {} /\ loading' = {} /\ scan = 0 /\ scan' = 0
      /\ irc_CurrentTime' = irc_CurrentTime /\ Found(new) = 0
  BY DEF ReplaceKey, Ready
<1>4. data \in Seq(Row) /\ KeysUnique
  BY DEF FullInv, StoreInv, MemInv, TypeOK
<1>5. old \in Row
  BY <1>4 DEF Rows
<1>6. row.key = new
  BY <1>2, <1>5, RekeyedRow
<1>7. \A q \in Rows(data) : q.key # new
  BY <1>3, <1>4, FoundZero DEF KeysOf
<1>8. /\ Rows(data) \union loading = Rows(data)
      /\ Rows(data') \union loading' = (Rows(data) \ {old}) \union {row}
      /\ old \in Rows(data) /\ row = [old EXCEPT !.key = row.key]
  BY <1>2, <1>3, <1>6
<1>9. \E r \in Rows(data) \union loading : \E n \in Rows(data') \union loading' :
        /\ n = [r EXCEPT !.key = n.key]
        /\ \A q \in Rows(data) \union loading : q.key # n.key
        /\ Rows(data') \union loading' = ((Rows(data) \union loading) \ {r}) \union {n}
  <2>1. old \in Rows(data) \union loading /\ row \in Rows(data') \union loading'
    BY <1>8
  <2>2. \A q \in Rows(data) \union loading : q.key # row.key
    BY <1>6, <1>7, <1>8
  <2>3. QED
    BY <1>8, <2>1, <2>2, Zenon
<1>10. QED
  BY <1>3, <1>9 DEF Cached!Rename

LEMMA CachedExpire ==
  ASSUME FullInv, ExpireStep
  PROVE  Cached!Expire \/ Cached!EndPass \/ UNCHANGED Cached!vars
<1>1. /\ scan # 0 /\ scan \in Nat /\ loading = {} /\ loading' = {}
      /\ irc_CurrentTime' = irc_CurrentTime
  BY DEF ExpireStep, FullInv, StoreInv, MemInv, TypeOK, LoadingFresh
<1>2. CASE data' = data /\ scan' = 0
  BY <1>1, <1>2 DEF Cached!EndPass
<1>3. CASE data' = data /\ scan' = scan + 1
  BY <1>1, <1>3 DEF Cached!vars
<1>4. CASE /\ scan <= Len(data) /\ Expired(data[scan])
           /\ data' = WithoutRow(data, scan) /\ scan' = scan + 1
  <2>1. data \in Seq(Row) /\ KeysUnique /\ scan \in 1..Len(data)
    BY <1>1, <1>4 DEF FullInv, StoreInv, MemInv, TypeOK
  <2>2. Rows(data') = Rows(data) \ {data[scan]}
    BY <1>4, <2>1, WithoutRowKeeps
  <2>3. data[scan] \in Rows(data)
    BY <2>1 DEF Rows
  <2>4. Cached!Over(data[scan])
    BY <1>4 DEF Expired, Cached!Over
  <2>5. QED
    BY <1>1, <1>4, <2>2, <2>3, <2>4 DEF Cached!Expire
<1>5. QED
  BY <1>2, <1>3, <1>4 DEF ExpireStep, ExpiresNow

LEMMA CachedStep ==
  ASSUME Fits, FullInv, [Next]_dbvars
  PROVE  [Cached!Next]_(Cached!vars)
<1>1. data \in Seq(Row) /\ KeysUnique /\ irc_CurrentTime \in Nat
  BY DEF FullInv, StoreInv, MemInv, TypeOK
<1>2. CASE Load
  <2>1. PICK r \in loading : /\ data' = StoreRow(data, r)
                             /\ loading' = loading \ {r}
    BY <1>2 DEF Load
  <2>2. /\ Len(data) < row_max /\ r \in Row /\ row_max \in Nat
        /\ \A i \in 1..Len(data) : data[i].key # r.key
    BY <2>1, RoomLeft DEF FullInv, StoreInv, MemInv, LoadingFresh, TypeOK
  <2>3. Rows(data') = Rows(data) \union {r}
    <3>1. data' = Append(data, r)
      BY <1>1, <2>1, <2>2 DEF StoreRow
    <3>2. QED
      BY <1>1, <2>2, <3>1, AppendKeeps
  <2>4. Rows(data') \union loading' = Rows(data) \union loading
    BY <2>1, <2>3
  <2>5. scan' = scan /\ irc_CurrentTime' = irc_CurrentTime
    BY <1>2 DEF Load
  <2>6. QED
    BY <2>4, <2>5 DEF Cached!vars
<1>3. CASE \E r \in NewRows : Insert(r)
  BY <1>3, CachedInsert DEF Cached!Next
<1>4. ASSUME NEW k \in Keys, Delete(k) PROVE Cached!Remove
  <2>1. Found(k) \in 1..Len(data)
    BY <1>1, <1>4, FoundFacts DEF Delete
  <2>2. /\ Rows(data') = Rows(data) \ {data[Found(k)]}
        /\ data[Found(k)] \in Rows(data)
    BY <1>1, <1>4, <2>1, WithoutRowKeeps DEF Delete, Rows
  <2>3. QED
    BY <1>4, <2>2 DEF Delete, Ready, Cached!Remove
<1>5. CASE \E k, new \in Keys : ReplaceKey(k, new)
  BY <1>5, CachedReplaceKey DEF Cached!Next
<1>6. CASE ExpireStart
  BY <1>6 DEF ExpireStart, Ready, Cached!BeginPass, Cached!Next
<1>7. CASE ExpireStep
  BY <1>7, CachedExpire DEF Cached!Next
<1>8. CASE Reload
  <2>1. /\ Rows(data) \union loading = Rows(data)
        /\ Rows(data') \union loading' = table
        /\ scan = 0 /\ scan' = 0 /\ irc_CurrentTime' = irc_CurrentTime
    BY <1>8 DEF Reload, Ready, Rows
  <2>2. /\ table \subseteq Rows(data)
        /\ \A r \in Rows(data) \ table : r.owner # NONE
    BY <1>8 DEF Reload, Ready, FullInv, StoreInv, MemoryInTable
  <2>3. Cached!Restart
    BY <2>1, <2>2 DEF Cached!Restart
  <2>4. QED
    BY <2>3 DEF Cached!Next
<1>9. CASE Tick
  BY <1>1, <1>9 DEF Tick, Ready, dbmem, Cached!Pass, Cached!Next
<1>10. CASE (\E o \in Owners : OwnerDropped(o)) \/ UNCHANGED dbvars
  BY <1>10 DEF OwnerDropped, dbvars, Cached!vars
<1>11. QED
  BY <1>2, <1>3, <1>4, <1>5, <1>6, <1>7, <1>8, <1>9, <1>10
  DEF Next, Cached!Next

(* A table and its copy in memory are one set of rows to its owner, for    *)
(* any commands, expiry and restarts, as long as the table fits the first  *)
(* allocation.                                                             *)
THEOREM ImplementsTable == Fits /\ Spec => ImplementsCachedTable
<1>1. Init => FullInv
  BY InitStore DEF FullInv, Init
<1>2. ASSUME Fits PROVE Spec => ImplementsCachedTable
  <2>1. FullInv /\ [Next]_dbvars => FullInv'
    BY <1>2, FullStep
  <2>2. FullInv /\ [Next]_dbvars => [Cached!Next]_(Cached!vars)
    BY <1>2, CachedStep
  <2>3. QED
    BY <1>1, <2>1, <2>2, CachedInit, PTL
    DEF Spec, ImplementsCachedTable, Cached!Spec
<1>3. QED
  BY <1>2

-----------------------------------------------------------------------------
(* Sessions: a step of it is a step of the DBMem or leaves it alone.       *)

SessionType == [count : Nat, limit : Nat, limit_hits : Nat]

SessionsTyped ==
  /\ host_of \in [Users -> Hosts \union {NONE}]
  /\ session \in [Hosts -> SessionType]
  /\ features \in Scenarios

(* Without durations the pass of the expire module deletes nothing.        *)
NoneExpires ==
  "expire" \notin features =>
    \A r \in Rows(data) \union loading \union table : r.expires = 0

(* The module counts no one while its table is loaded.                     *)
FreshWhileLoading == loading # {} => \A h \in Hosts : session[h].count = 0

LimitHeld ==
  "expire" \notin features /\ loading = {} =>
    \A h \in Hosts : session[h].count # 0 => session[h].limit = LimitFor(h)

(* A split leaves the counts behind: they are never too low.               *)
CountCovers ==
  "reload" \notin features =>
    \A h \in Hosts : session[h].count >= Cardinality(Online(h))

SessionsInv ==
  /\ MemInv /\ SessionsTyped /\ NoneExpires /\ FreshWhileLoading
  /\ LimitHeld /\ CountCovers /\ CountIsConnections

LEMMA SessionsStepOfDBMem ==
  ASSUME [SessionsNext]_vars PROVE [Next]_dbvars
<1>1. CASE \E u \in Users : (\E h \in Hosts : NewUser(u, h)) \/ UserLeaves(u)
  BY <1>1 DEF NewUser, UserLeaves
<1>2. CASE \E lost \in SUBSET Users : ServerLeaves(lost)
  BY <1>2 DEF ServerLeaves
<1>3. CASE \E r \in NewRows : ExceptionAdd(r)
  BY <1>3 DEF ExceptionAdd, Next
<1>4. CASE \E h \in Hosts : ExceptionDel(h)
  BY <1>4 DEF ExceptionDel, Next, Hosts
<1>5. CASE \E old_host, new_host \in Hosts : ExceptionChange(old_host, new_host)
  BY <1>5 DEF ExceptionChange, Next, Hosts
<1>6. CASE ExceptionsExpire \/ ModuleReload \/ Load \/ Tick
  BY <1>6 DEF ExceptionsExpire, ModuleReload, Next
<1>7. CASE \E o \in Owners : OwnerDropped(o)
  BY <1>7 DEF Next
<1>8. CASE UNCHANGED vars
  BY <1>8 DEF vars
<1>9. QED
  BY <1>1, <1>2, <1>3, <1>4, <1>5, <1>6, <1>7, <1>8 DEF SessionsNext

LEMMA OnlineFinite ==
  ASSUME NEW h PROVE IsFiniteSet(Online(h)) /\ Cardinality(Online(h)) \in Nat
BY FS_Subset, FS_CardinalityType, SessionsAssumption DEF Online

(* A user that comes is counted on its host only.                          *)
LEMMA OnlineJoined ==
  ASSUME SessionsTyped, NEW u \in Users, NEW h \in Hosts, host_of[u] = NONE,
         host_of' = [host_of EXCEPT ![u] = h]
  PROVE  \A k \in Hosts :
           /\ k # h => Online(k)' = Online(k)
           /\ k = h => Cardinality(Online(k)') = Cardinality(Online(k)) + 1
<1>1. h # NONE /\ \A k \in Hosts : k # NONE
  BY SessionsAssumption DEF Hosts
<1>2. \A x \in Users : host_of'[x] = IF x = u THEN h ELSE host_of[x]
  BY DEF SessionsTyped
<1>3. \A k \in Hosts : k # h => Online(k)' = Online(k)
  BY <1>1, <1>2 DEF Online
<1>4. Online(h)' = Online(h) \union {u} /\ u \notin Online(h)
  BY <1>1, <1>2 DEF Online
<1>5. Cardinality(Online(h) \union {u}) = Cardinality(Online(h)) + 1
  BY <1>4, OnlineFinite, FS_AddElement
<1>6. QED
  BY <1>3, <1>4, <1>5

LEMMA OnlineLeft ==
  ASSUME SessionsTyped, NEW u \in Users, NEW h \in Hosts, host_of[u] = h,
         host_of' = [host_of EXCEPT ![u] = NONE]
  PROVE  \A k \in Hosts :
           /\ k # h => Online(k)' = Online(k)
           /\ k = h => /\ Cardinality(Online(k)') = Cardinality(Online(k)) - 1
                       /\ Cardinality(Online(k)) >= 1
<1>1. h # NONE /\ \A k \in Hosts : k # NONE
  BY SessionsAssumption DEF Hosts
<1>2. \A x \in Users : host_of'[x] = IF x = u THEN NONE ELSE host_of[x]
  BY DEF SessionsTyped
<1>3. \A k \in Hosts : k # h => Online(k)' = Online(k)
  BY <1>1, <1>2 DEF Online
<1>4. u \in Online(h) /\ Online(h)' = Online(h) \ {u}
  BY <1>1, <1>2 DEF Online
<1>5. Cardinality(Online(h) \ {u}) = Cardinality(Online(h)) - 1
  BY <1>4, OnlineFinite, FS_RemoveElement
<1>6. Cardinality(Online(h) \ {u}) \in Nat /\ Cardinality(Online(h)) \in Nat
  BY OnlineFinite, FS_RemoveElement, FS_CardinalityType
<1>7. Cardinality(Online(h)) >= 1
  BY <1>5, <1>6
<1>8. QED
  BY <1>3, <1>4, <1>5, <1>7

(* The limit of a host is the value of its exception in memory, if any.    *)
LimitsOf(h) ==
  data \in Seq(Row) /\ KeysUnique =>
    /\ \A i \in 1..Len(data) : data[i].key = h => LimitFor(h) = data[i].value
    /\ (\A i \in 1..Len(data) : data[i].key # h) => LimitFor(h) = DefaultMaxUsers

LEMMA LimitsHold == ASSUME NEW CONSTANT h PROVE LimitsOf(h)
<1>1. SUFFICES ASSUME data \in Seq(Row), KeysUnique
               PROVE  /\ \A i \in 1..Len(data) : data[i].key = h => LimitFor(h) = data[i].value
                      /\ (\A i \in 1..Len(data) : data[i].key # h) => LimitFor(h) = DefaultMaxUsers
  BY DEF LimitsOf
<1>2. CASE Found(h) = 0
  <2>1. \A i \in 1..Len(data) : data[i].key # h
    BY <1>1, <1>2, FoundZero, NotFound
  <2>2. QED
    BY <1>2, <2>1 DEF LimitFor
<1>3. CASE Found(h) # 0
  <2>1. Found(h) \in 1..Len(data) /\ data[Found(h)].key = h
    BY <1>1, <1>3, FoundFacts
  <2>2. LimitFor(h) = data[Found(h)].value
    BY <1>3 DEF LimitFor
  <2>3. \A i \in 1..Len(data) : data[i].key = h => i = Found(h)
    BY <1>1, <2>1 DEF KeysUnique
  <2>4. QED
    BY <2>1, <2>2, <2>3
<1>4. QED
  BY <1>2, <1>3

LEMMA LimitsHoldNext == ASSUME NEW CONSTANT h PROVE LimitsOf(h)'
<1>1. LimitsOf(h)
  BY LimitsHold
<1>2. QED
  BY <1>1, PTL

LEMMA SameLimits ==
  ASSUME data' = data, NEW h PROVE LimitFor(h)' = LimitFor(h)
BY DEF LimitFor, Found, KeysOf, Rows

LEMMA LimitType ==
  ASSUME MemInv, NEW h \in Hosts PROVE LimitFor(h) \in Nat
<1>1. LimitsOf(h) /\ data \in Seq(Row) /\ KeysUnique
  BY LimitsHold DEF MemInv, TypeOK
<1>2. \A i \in 1..Len(data) : data[i].value \in Nat
  <2>1. \A i \in 1..Len(data) : data[i] \in Row
    BY <1>1
  <2>2. \A x \in Row : x.value \in Nat
    BY SessionsAssumption DEF Row
  <2>3. QED
    BY <2>1, <2>2
<1>3. QED
  BY <1>1, <1>2, SessionsAssumption DEF LimitsOf

(* The three ways in which a record changes.                               *)
LEMMA RecordFacts ==
  ASSUME NEW r \in SessionType
  PROVE  /\ HitAfter(r) \in SessionType
         /\ HitAfter(r).count = r.count /\ HitAfter(r).limit = r.limit
         /\ DelFromSession(r) \in SessionType
         /\ r.count >= 1 => DelFromSession(r).count = r.count - 1
         /\ DelFromSession(r).count # 0 => DelFromSession(r).limit = r.limit
         /\ DelFromSession(r).count # 0 => r.count # 0
<1>1. [r EXCEPT !.limit_hits = @ + 1] \in SessionType
  BY DEF SessionType
<1>2. r.count > 1 => [r EXCEPT !.count = @ - 1] \in SessionType
  BY DEF SessionType
<1>3. NoRecord \in SessionType
  BY DEF NoRecord, SessionType
<1>4. r.count \in Nat
  BY DEF SessionType
<1>5. QED
  BY <1>1, <1>2, <1>3, <1>4 DEF HitAfter, DelFromSession, SessionType, NoRecord

LEMMA AddedRecord ==
  ASSUME SessionsInv, loading = {}, NEW h \in Hosts
  PROVE  /\ AddToSession(h) \in SessionType
         /\ AddToSession(h).count = session[h].count + 1
         /\ "expire" \notin features => AddToSession(h).limit = LimitFor(h)
<1>1. session[h] \in SessionType /\ LimitFor(h) \in Nat
  BY LimitType DEF SessionsInv, SessionsTyped
<1>2. "expire" \notin features /\ session[h].count # 0 => session[h].limit = LimitFor(h)
  BY DEF SessionsInv, LimitHeld
<1>3. CASE session[h].count = 0
  BY <1>1, <1>3 DEF AddToSession, SessionType
<1>4. CASE session[h].count # 0
  BY <1>1, <1>2, <1>4 DEF AddToSession, SessionType
<1>5. QED
  BY <1>3, <1>4

LEMMA SetLimitFacts ==
  ASSUME NEW t \in [Hosts -> SessionType], NEW h \in Hosts, NEW l \in Nat
  PROVE  /\ SetLimit(t, h, l) \in [Hosts -> SessionType]
         /\ \A k \in Hosts : SetLimit(t, h, l)[k].count = t[k].count
         /\ \A k \in Hosts \ {h} : SetLimit(t, h, l)[k] = t[k]
         /\ t[h].count # 0 => SetLimit(t, h, l)[h].limit = l
BY DEF SetLimit, SessionType

(* A step about one record: the count follows the users.                   *)
LEMMA OneRecord ==
  ASSUME SessionsInv, [SessionsNext]_vars, loading = {}, UNCHANGED <<dbvars, features>>,
         NEW h \in Hosts, NEW r \in SessionType,
         session' = [session EXCEPT ![h] = r],
         host_of' \in [Users -> Hosts \union {NONE}],
         "expire" \notin features /\ r.count # 0 => r.limit = LimitFor(h),
         \A k \in Hosts \ {h} : Online(k)' = Online(k),
         "reload" \notin features =>
           r.count + Cardinality(Online(h)) = session[h].count + Cardinality(Online(h)')
  PROVE  SessionsInv'
<1>1. MemInv'
  BY SessionsStepOfDBMem, StepMem DEF SessionsInv
<1>2. UNCHANGED <<table, data, loading, features>>
  BY DEF dbvars
<1>3. /\ session \in [Hosts -> SessionType] /\ session' \in [Hosts -> SessionType]
      /\ session'[h] = r /\ \A k \in Hosts \ {h} : session'[k] = session[k]
  BY DEF SessionsInv, SessionsTyped
<1>4. SessionsTyped' /\ NoneExpires' /\ FreshWhileLoading'
  BY <1>2, <1>3 DEF SessionsInv, SessionsTyped, NoneExpires, FreshWhileLoading
<1>5. LimitHeld'
  <2>1. \A k \in Hosts : LimitFor(k)' = LimitFor(k)
    BY <1>2, SameLimits
  <2>2. QED
    BY <1>2, <1>3, <2>1 DEF SessionsInv, LimitHeld
<1>6. Cardinality(Online(h)) \in Nat /\ Cardinality(Online(h)') \in Nat
  <2>1. Online(h)' \subseteq Users
    BY DEF Online
  <2>2. QED
    BY <2>1, OnlineFinite, FS_Subset, FS_CardinalityType, SessionsAssumption
<1>7. r.count \in Nat /\ session[h].count \in Nat
  BY <1>3 DEF SessionType
<1>8. CountCovers'
  BY <1>2, <1>3, <1>6, <1>7 DEF SessionsInv, CountCovers
<1>9. CountIsConnections'
  BY <1>2, <1>3, <1>6, <1>7 DEF SessionsInv, CountIsConnections
<1>10. QED
  BY <1>1, <1>4, <1>5, <1>8, <1>9 DEF SessionsInv

LEMMA NewUserSessions ==
  ASSUME SessionsInv, [SessionsNext]_vars, NEW u \in Users, NEW h \in Hosts, NewUser(u, h)
  PROVE  SessionsInv'
<1> DEFINE r == AddToSession(h)
<1>1. loading = {} /\ host_of[u] = NONE /\ UNCHANGED <<dbvars, features>>
  BY DEF NewUser, Ready
<1>2. /\ r \in SessionType /\ r.count = session[h].count + 1
      /\ "expire" \notin features => r.limit = LimitFor(h)
  BY <1>1, AddedRecord
<1>3. session[h].count \in Nat /\ host_of \in [Users -> Hosts \union {NONE}]
  BY DEF SessionsInv, SessionsTyped, SessionType
<1>4. Cardinality(Online(h)) \in Nat
  BY OnlineFinite
<1>5. \/ /\ \/ session' = [session EXCEPT ![h] = r]
            \/ session' = [session EXCEPT ![h] = HitAfter(r)]
         /\ host_of' = [host_of EXCEPT ![u] = h]
      \/ /\ session' = [session EXCEPT ![h] = DelFromSession(HitAfter(r))]
         /\ host_of' = host_of
  BY DEF NewUser, KilledSession
<1> HIDE DEF r
<1>6. ASSUME NEW q \in {r, HitAfter(r)}, session' = [session EXCEPT ![h] = q],
             host_of' = [host_of EXCEPT ![u] = h]
      PROVE  SessionsInv'
  <2>1. q \in SessionType /\ q.count = r.count /\ q.limit = r.limit
    BY <1>2, <1>6, RecordFacts
  <2>2. /\ \A k \in Hosts \ {h} : Online(k)' = Online(k)
        /\ Cardinality(Online(h)') = Cardinality(Online(h)) + 1
    BY <1>1, <1>6, OnlineJoined DEF SessionsInv
  <2>3. host_of' \in [Users -> Hosts \union {NONE}]
    BY <1>3, <1>6
  <2>4. q.count + Cardinality(Online(h)) = session[h].count + Cardinality(Online(h)')
    BY <1>2, <1>3, <1>4, <2>1, <2>2
  <2>5. "expire" \notin features /\ q.count # 0 => q.limit = LimitFor(h)
    BY <1>2, <2>1
  <2>6. QED
    BY <1>1, <1>6, <2>1, <2>2, <2>3, <2>4, <2>5, OneRecord
<1>7. ASSUME session' = [session EXCEPT ![h] = DelFromSession(HitAfter(r))],
             host_of' = host_of
      PROVE  SessionsInv'
  <2> DEFINE q == DelFromSession(HitAfter(r))
  <2>1. /\ HitAfter(r) \in SessionType /\ HitAfter(r).count = r.count
        /\ HitAfter(r).limit = r.limit
    BY <1>2, RecordFacts
  <2>2. /\ q \in SessionType /\ q.count = session[h].count
        /\ q.count # 0 => q.limit = r.limit
    <3> DEFINE t == HitAfter(r)
    <3>1. t \in SessionType /\ t.count = session[h].count + 1 /\ t.limit = r.limit
      BY <1>2, <2>1
    <3> HIDE DEF t
    <3>2. /\ DelFromSession(t) \in SessionType
          /\ t.count >= 1 => DelFromSession(t).count = t.count - 1
          /\ DelFromSession(t).count # 0 => DelFromSession(t).limit = t.limit
      BY <3>1, RecordFacts
    <3>3. QED
      BY <1>3, <3>1, <3>2 DEF t
  <2> HIDE DEF q
  <2>3. \A k \in Hosts : Online(k)' = Online(k)
    BY <1>7 DEF Online
  <2>4. q.count + Cardinality(Online(h)) = session[h].count + Cardinality(Online(h)')
    BY <2>2, <2>3
  <2>5. session' = [session EXCEPT ![h] = q] /\ host_of' \in [Users -> Hosts \union {NONE}]
    BY <1>3, <1>7 DEF q
  <2>6. "expire" \notin features /\ q.count # 0 => q.limit = LimitFor(h)
    BY <1>2, <2>2
  <2>7. QED
    BY <1>1, <2>2, <2>3, <2>4, <2>5, <2>6, OneRecord
<1>8. QED
  BY <1>5, <1>6, <1>7

LEMMA UserLeavesSessions ==
  ASSUME SessionsInv, [SessionsNext]_vars, NEW u \in Users, UserLeaves(u)
  PROVE  SessionsInv'
<1>1. /\ loading = {} /\ host_of[u] # NONE /\ UNCHANGED <<dbvars, features>>
      /\ host_of \in [Users -> Hosts \union {NONE}]
      /\ host_of' = [host_of EXCEPT ![u] = NONE]
  BY DEF UserLeaves, Ready, SessionsInv, SessionsTyped
<1>2. PICK h \in Hosts : host_of[u] = h
  BY <1>1
<1> DEFINE q == DelFromSession(session[h])
<1>3. session' = [session EXCEPT ![h] = q]
  BY <1>2 DEF UserLeaves
<1>4. /\ session[h] \in SessionType /\ session[h].count \in Nat
      /\ "expire" \notin features /\ session[h].count # 0 => session[h].limit = LimitFor(h)
  BY <1>1 DEF SessionsInv, SessionsTyped, SessionType, LimitHeld
<1>5. /\ q \in SessionType
      /\ session[h].count >= 1 => q.count = session[h].count - 1
      /\ "expire" \notin features /\ q.count # 0 => q.limit = LimitFor(h)
  BY <1>4, RecordFacts
<1> HIDE DEF q
<1>6. /\ \A k \in Hosts \ {h} : Online(k)' = Online(k)
      /\ Cardinality(Online(h)') = Cardinality(Online(h)) - 1
      /\ Cardinality(Online(h)) >= 1 /\ Cardinality(Online(h)) \in Nat
  BY <1>1, <1>2, OnlineLeft, OnlineFinite DEF SessionsInv
<1>7. "reload" \notin features => session[h].count >= 1
  BY <1>4, <1>6 DEF SessionsInv, CountCovers
<1>8. "reload" \notin features =>
        q.count + Cardinality(Online(h)) = session[h].count + Cardinality(Online(h)')
  BY <1>4, <1>5, <1>6, <1>7
<1>9. host_of' \in [Users -> Hosts \union {NONE}]
  BY <1>1
<1>10. QED
  BY <1>1, <1>3, <1>5, <1>6, <1>8, <1>9, OneRecord

LEMMA ServerLeavesSessions ==
  ASSUME SessionsInv, [SessionsNext]_vars, NEW lost \in SUBSET Users, ServerLeaves(lost)
  PROVE  SessionsInv'
<1>1. /\ "squit" \in features /\ loading = {}
      /\ host_of' = [u \in Users |-> IF u \in lost THEN NONE ELSE host_of[u]]
      /\ UNCHANGED <<table, data, loading, session, features>>
  BY DEF ServerLeaves, Ready, dbvars
<1>2. MemInv'
  BY SessionsStepOfDBMem, StepMem DEF SessionsInv
<1>3. SessionsTyped' /\ NoneExpires' /\ FreshWhileLoading' /\ CountIsConnections'
  BY <1>1
  DEF SessionsInv, SessionsTyped, NoneExpires, FreshWhileLoading, CountIsConnections
<1>4. LimitHeld'
  BY <1>1, SameLimits DEF SessionsInv, LimitHeld
<1>5. CountCovers'
  <2>1. \A h \in Hosts : Online(h)' \subseteq Online(h)
    BY <1>1, SessionsAssumption DEF Online, Hosts
  <2>2. \A h \in Hosts : /\ Cardinality(Online(h)') <= Cardinality(Online(h))
                         /\ Cardinality(Online(h)') \in Nat
                         /\ Cardinality(Online(h)) \in Nat
    BY <2>1, OnlineFinite, FS_Subset, FS_CardinalityType
  <2>3. \A h \in Hosts : session[h].count \in Nat
    BY DEF SessionsInv, SessionsTyped, SessionType
  <2>4. QED
    BY <1>1, <2>2, <2>3 DEF SessionsInv, CountCovers
<1>6. QED
  BY <1>2, <1>3, <1>4, <1>5 DEF SessionsInv

(* A step about the exceptions changes limits and no counts.               *)
LEMMA OnlyLimits ==
  ASSUME SessionsInv, MemInv', UNCHANGED <<host_of, features>>,
         loading = {}, loading' = {},
         "expire" \notin features => \A r \in Rows(data)' \union table' : r.expires = 0,
         session' \in [Hosts -> SessionType],
         \A h \in Hosts : session'[h].count = session[h].count,
         "expire" \notin features =>
           \A h \in Hosts : session[h].count # 0 => session'[h].limit = LimitFor(h)'
  PROVE  SessionsInv'
<1>1. SessionsTyped' /\ NoneExpires' /\ FreshWhileLoading'
  BY DEF SessionsInv, SessionsTyped, NoneExpires, FreshWhileLoading
<1>2. LimitHeld'
  BY DEF LimitHeld
<1>3. \A h \in Hosts : Online(h)' = Online(h)
  BY DEF Online
<1>4. CountCovers' /\ CountIsConnections'
  BY <1>3 DEF SessionsInv, CountCovers, CountIsConnections
<1>5. QED
  BY <1>1, <1>2, <1>4 DEF SessionsInv

(* What a change of the rows in memory means for the limits                *)
LEMMA LimitsAfter ==
  ASSUME MemInv', NEW h
  PROVE  /\ \A q \in Rows(data)' : q.key = h => LimitFor(h)' = q.value
         /\ (\A q \in Rows(data)' : q.key # h) => LimitFor(h)' = DefaultMaxUsers
<1>1. /\ \A j \in 1..Len(data') : data'[j].key = h => LimitFor(h)' = data'[j].value
      /\ (\A j \in 1..Len(data') : data'[j].key # h) => LimitFor(h)' = DefaultMaxUsers
  BY LimitsHoldNext DEF LimitsOf, MemInv, TypeOK
<1>2. QED
  BY <1>1 DEF Rows

LEMMA LimitKept ==
  ASSUME MemInv, MemInv', NEW h,
         \A q : q.key = h => (q \in Rows(data) <=> q \in Rows(data)')
  PROVE  LimitFor(h)' = LimitFor(h)
<1>1. /\ \A j \in 1..Len(data) : data[j].key = h => LimitFor(h) = data[j].value
      /\ (\A j \in 1..Len(data) : data[j].key # h) => LimitFor(h) = DefaultMaxUsers
  BY LimitsHold DEF LimitsOf, MemInv, TypeOK
<1>2. /\ \A q \in Rows(data) : q.key = h => LimitFor(h) = q.value
      /\ (\A q \in Rows(data) : q.key # h) => LimitFor(h) = DefaultMaxUsers
  BY <1>1 DEF Rows
<1>3. CASE \E q \in Rows(data) : q.key = h
  BY <1>2, <1>3, LimitsAfter
<1>4. CASE \A q \in Rows(data) : q.key # h
  BY <1>2, <1>4, LimitsAfter
<1>5. QED
  BY <1>3, <1>4

LEMMA ExceptionAddSessions ==
  ASSUME SessionsInv, NEW r \in NewRows, "expire" \notin features => r.expires = 0,
         ExceptionAdd(r)
  PROVE  SessionsInv'
<1>1. /\ Insert(r) /\ MemInv /\ MemInv' /\ loading = {} /\ loading' = {}
      /\ UNCHANGED <<host_of, features>>
  BY InsertMem DEF ExceptionAdd, SessionsInv, Insert, Ready
<1>2. r \in Row /\ r.key \in Hosts /\ r.value \in Nat
  <2>1. irc_CurrentTime + Duration \in Nat
    BY DBMemAssumption DEF SessionsInv, MemInv, TypeOK
  <2>2. r \in Row
    BY <2>1 DEF NewRows, Row
  <2>3. r.key \in Keys /\ r.value \in Values
    BY <2>2 DEF Row
  <2>4. QED
    BY <2>2, <2>3, SessionsAssumption DEF Hosts
<1>3. session \in [Hosts -> SessionType] /\ data \in Seq(Row)
  BY DEF SessionsInv, SessionsTyped, MemInv, TypeOK
<1>4. CASE KeyTaken(r.key, table)
  <2>1. UNCHANGED <<table, data, session>>
    BY <1>1, <1>4 DEF Insert, ExceptionAdd
  <2>2. \A h \in Hosts : LimitFor(h)' = LimitFor(h)
    BY <2>1, SameLimits
  <2>3. /\ "expire" \notin features => \A q \in Rows(data)' \union table' : q.expires = 0
        /\ "expire" \notin features =>
             \A h \in Hosts : session[h].count # 0 => session'[h].limit = LimitFor(h)'
    BY <1>1, <2>1, <2>2 DEF SessionsInv, NoneExpires, LimitHeld, Rows
  <2>4. QED
    BY <1>1, <1>3, <2>1, <2>3, OnlyLimits
<1>5. CASE ~KeyTaken(r.key, table)
  <2>1. /\ table' = table \union {r} /\ data' = Append(data, r)
        /\ session' = SetLimit(session, r.key, r.value)
        /\ r.key \notin KeysOf(Rows(data))
    BY <1>1, <1>5 DEF Insert, ExceptionAdd, KeyTaken
  <2>2. \A i \in 1..Len(data) : data[i].key # r.key
    BY <2>1, NotFound
  <2>3. Rows(data)' = Rows(data) \union {r}
    BY <1>1, <1>2, <1>3, <2>1, <2>2, AppendKeeps DEF MemInv
  <2>4. LimitFor(r.key)' = r.value
    BY <1>1, <2>3, LimitsAfter
  <2>5. \A h \in Hosts \ {r.key} : LimitFor(h)' = LimitFor(h)
    BY <1>1, <2>3, LimitKept
  <2>6. "expire" \notin features => \A q \in Rows(data)' \union table' : q.expires = 0
    BY <2>1, <2>3 DEF SessionsInv, NoneExpires
  <2>7. /\ session' \in [Hosts -> SessionType]
        /\ \A h \in Hosts : session'[h].count = session[h].count
        /\ \A h \in Hosts \ {r.key} : session'[h] = session[h]
        /\ session[r.key].count # 0 => session'[r.key].limit = r.value
    BY <1>2, <1>3, <2>1, SetLimitFacts
  <2>8. "expire" \notin features =>
          \A h \in Hosts : session[h].count # 0 => session'[h].limit = LimitFor(h)'
    BY <1>1, <2>4, <2>5, <2>7 DEF SessionsInv, LimitHeld
  <2>9. QED
    BY <1>1, <2>6, <2>7, <2>8, OnlyLimits
<1>6. QED
  BY <1>4, <1>5

LEMMA ExceptionDelSessions ==
  ASSUME SessionsInv, NEW h \in Hosts, ExceptionDel(h)
  PROVE  SessionsInv'
<1>1. /\ Delete(h) /\ MemInv /\ MemInv' /\ loading = {} /\ loading' = {}
      /\ UNCHANGED <<host_of, features>>
      /\ session' = SetLimit(session, h, DefaultMaxUsers)
  BY DeleteMem DEF ExceptionDel, SessionsInv, Delete, Ready, Hosts
<1>2. session \in [Hosts -> SessionType] /\ data \in Seq(Row) /\ KeysUnique
  BY DEF SessionsInv, SessionsTyped, MemInv, TypeOK
<1>3. Found(h) \in 1..Len(data) /\ data[Found(h)].key = h
  BY <1>1, <1>2, FoundFacts DEF Delete
<1>4. /\ table' \subseteq table
      /\ Rows(data)' = Rows(data) \ {data[Found(h)]}
  BY <1>1, <1>2, <1>3, WithoutRowKeeps DEF Delete
<1>5. \A q \in Rows(data)' : q.key # h
  BY <1>2, <1>3, <1>4 DEF Rows, KeysUnique
<1>6. LimitFor(h)' = DefaultMaxUsers
  BY <1>1, <1>5, LimitsAfter
<1>7. \A k \in Hosts \ {h} : LimitFor(k)' = LimitFor(k)
  BY <1>1, <1>3, <1>4, LimitKept
<1>8. "expire" \notin features => \A q \in Rows(data)' \union table' : q.expires = 0
  BY <1>4 DEF SessionsInv, NoneExpires
<1>9. /\ session' \in [Hosts -> SessionType]
      /\ \A k \in Hosts : session'[k].count = session[k].count
      /\ \A k \in Hosts \ {h} : session'[k] = session[k]
      /\ session[h].count # 0 => session'[h].limit = DefaultMaxUsers
  BY <1>1, <1>2, SetLimitFacts, SessionsAssumption
<1>10. "expire" \notin features =>
         \A k \in Hosts : session[k].count # 0 => session'[k].limit = LimitFor(k)'
  BY <1>1, <1>6, <1>7, <1>9 DEF SessionsInv, LimitHeld
<1>11. QED
  BY <1>1, <1>8, <1>9, <1>10, OnlyLimits

(* The row that gets a new key: the old key and the new one change limit.  *)
LEMMA RekeyedRows ==
  ASSUME MemInv, NEW k \in Keys, NEW new \in Keys, ReplaceKey(k, new)
  PROVE  LET old == data[Found(k)] IN
         /\ old \in Rows(data) /\ old \in Row /\ old.key = k /\ k # new
         /\ \A q \in Rows(data) : q.key # new /\ (q.key = k => q = old)
         /\ Rows(data)' = (Rows(data) \ {old}) \union {[old EXCEPT !.key = new]}
         /\ \A q \in table' : q \in table \/ q = [old EXCEPT !.key = new]
<1> DEFINE i == Found(k)
           old == data[i]
           row == [old EXCEPT !.key = new]
<1>1. /\ i \in 1..Len(data) /\ old.key = k /\ old \in Row /\ data \in Seq(Row) /\ KeysUnique
      /\ data' = [data EXCEPT ![i].key = new]
      /\ table' = (table \ RowsInTable(k)) \union Rekeyed(k, new)
  <2>1. data \in Seq(Row) /\ KeysUnique
    BY DEF MemInv, TypeOK
  <2>2. i \in 1..Len(data) /\ old.key = k
    BY <2>1, FoundFacts DEF ReplaceKey
  <2>3. QED
    BY <2>1, <2>2 DEF ReplaceKey
<1>2. \A j \in 1..Len(data) : data[j].key # new
  <2>1. new \notin KeysOf(Rows(data))
    BY <1>1, FoundZero DEF ReplaceKey
  <2>2. QED
    BY <2>1, NotFound
<1>3. \A j \in 1..Len(data) : data[j].key = k => j = i
  BY <1>1 DEF KeysUnique
<1> HIDE DEF i
<1>4. Len(data') = Len(data) /\ \A j \in 1..Len(data) : data'[j] = IF j = i THEN row ELSE data[j]
  BY <1>1
<1>5. \A q \in Rekeyed(k, new) : q = row
  BY <1>1 DEF Rekeyed, RowsInTable, MemInv, Agree
<1>6. \A q \in Rows(data) : q.key # new /\ (q.key = k => q = old)
  BY <1>2, <1>3 DEF Rows
<1> HIDE DEF row
<1>7. \A j \in 1..Len(data) : j # i => data[j] # old
  BY <1>1, <1>3
<1> HIDE DEF old
<1>8. Rows(data)' = (Rows(data) \ {old}) \union {row}
  <2>1. Rows(data)' \subseteq (Rows(data) \ {old}) \union {row}
    BY <1>4, <1>7 DEF Rows
  <2>2. row \in Rows(data)'
    BY <1>1, <1>4 DEF Rows
  <2>3. Rows(data) \ {old} \subseteq Rows(data)'
    <3>1. SUFFICES ASSUME NEW j \in 1..Len(data), data[j] # old PROVE data[j] \in Rows(data)'
      BY DEF Rows
    <3>2. j # i
      BY <3>1 DEF old
    <3>3. data'[j] = data[j] /\ j \in 1..Len(data')
      BY <1>4, <3>2
    <3>4. QED
      BY <3>3 DEF Rows
  <2>4. QED
    BY <2>1, <2>2, <2>3
<1>9. \A q \in table' : q \in table \/ q = row
  BY <1>1, <1>5
<1>10. k # new /\ old \in Rows(data)
  BY <1>1, <1>2 DEF old, Rows
<1>11. QED
  BY <1>1, <1>6, <1>8, <1>9, <1>10 DEF i, old, row

LEMMA ExceptionChangeSessions ==
  ASSUME SessionsInv, NEW k \in Hosts, NEW new \in Hosts, ExceptionChange(k, new)
  PROVE  SessionsInv'
<1> DEFINE old == data[Found(k)]
           row == [old EXCEPT !.key = new]
           cut == SetLimit(session, k, DefaultMaxUsers)
<1>1. /\ ReplaceKey(k, new) /\ MemInv /\ MemInv' /\ loading = {} /\ loading' = {}
      /\ UNCHANGED <<host_of, features>>
      /\ session' = SetLimit(cut, new, old.value)
  BY ReplaceKeyMem DEF ExceptionChange, SessionsInv, ReplaceKey, Ready, Hosts
<1>2. /\ old \in Rows(data) /\ old \in Row /\ old.key = k /\ k # new
      /\ \A q \in Rows(data) : q.key # new /\ (q.key = k => q = old)
      /\ Rows(data)' = (Rows(data) \ {old}) \union {row}
      /\ \A q \in table' : q \in table \/ q = row
  BY <1>1, RekeyedRows DEF Hosts
<1>3. session \in [Hosts -> SessionType]
  BY DEF SessionsInv, SessionsTyped
<1> HIDE DEF old
<1>4. /\ row.key = new /\ row.value = old.value /\ row.expires = old.expires
      /\ old.value \in Nat
  BY <1>2, SessionsAssumption DEF Row
<1> HIDE DEF row, cut
<1>5. LimitFor(new)' = old.value
  BY <1>1, <1>2, <1>4, LimitsAfter
<1>6. LimitFor(k)' = DefaultMaxUsers
  BY <1>1, <1>2, <1>4, LimitsAfter
<1>7. \A h \in Hosts \ {k, new} : LimitFor(h)' = LimitFor(h)
  BY <1>1, <1>2, <1>4, LimitKept
<1>8. "expire" \notin features => \A q \in Rows(data)' \union table' : q.expires = 0
  BY <1>2, <1>4 DEF SessionsInv, NoneExpires
<1>9. /\ cut \in [Hosts -> SessionType]
      /\ \A h \in Hosts : cut[h].count = session[h].count
      /\ \A h \in Hosts \ {k} : cut[h] = session[h]
      /\ session[k].count # 0 => cut[k].limit = DefaultMaxUsers
  BY <1>3, SetLimitFacts, SessionsAssumption DEF cut
<1>10. /\ session' \in [Hosts -> SessionType]
       /\ \A h \in Hosts : session'[h].count = cut[h].count
       /\ \A h \in Hosts \ {new} : session'[h] = cut[h]
       /\ cut[new].count # 0 => session'[new].limit = old.value
  BY <1>1, <1>4, <1>9, SetLimitFacts
<1>11. "expire" \notin features =>
         \A h \in Hosts : session[h].count # 0 => session'[h].limit = LimitFor(h)'
  BY <1>1, <1>2, <1>5, <1>6, <1>7, <1>9, <1>10 DEF SessionsInv, LimitHeld
<1>12. QED
  BY <1>1, <1>8, <1>9, <1>10, <1>11, OnlyLimits

(* What happens to the table alone, between two rows of a load or a pass   *)
LEMMA TableSessions ==
  ASSUME SessionsInv, UNCHANGED svars,
         ExpireStart \/ ExpireStep \/ Load \/ Tick \/ \E o \in Owners : OwnerDropped(o)
  PROVE  SessionsInv'
<1>1. MemInv /\ MemInv' /\ UNCHANGED <<host_of, session, features>>
  BY StepMem DEF SessionsInv, Next, svars
<1>2. /\ \A q \in Rows(data)' \union loading' \union table' :
           q \in Rows(data) \union loading \union table
      /\ loading' # {} => loading # {}
      /\ loading = {} /\ "expire" \notin features => data' = data
      /\ loading = {} \/ \A h \in Hosts : session[h].count = 0
  <2>1. loading = {} \/ \A h \in Hosts : session[h].count = 0
    BY DEF SessionsInv, FreshWhileLoading
  <2>2. CASE ExpireStart \/ Tick \/ \E o \in Owners : OwnerDropped(o)
    <3>1. data' = data /\ loading' = loading /\ table' \subseteq table
      BY <2>2 DEF ExpireStart, Tick, dbmem, OwnerDropped
    <3>2. QED
      BY <2>1, <3>1 DEF Rows
  <2>3. CASE ExpireStep
    <3>1. /\ data \in Seq(Row) /\ KeysUnique /\ scan \in Nat
          /\ loading' = loading /\ table' \subseteq table
      BY <2>3 DEF ExpireStep, SessionsInv, MemInv, TypeOK
    <3>2. \/ data' = data
          \/ /\ scan \in 1..Len(data) /\ Expired(data[scan])
             /\ data' = WithoutRow(data, scan)
      BY <2>3, <3>1 DEF ExpireStep, ExpiresNow
    <3>3. Rows(data)' \subseteq Rows(data)
      BY <3>1, <3>2, WithoutRowKeeps DEF Rows
    <3>4. "expire" \notin features => data' = data
      BY <3>2 DEF Expired, Rows, SessionsInv, NoneExpires
    <3>5. QED
      BY <2>1, <3>1, <3>3, <3>4
  <2>4. CASE Load
    <3>1. PICK r \in loading : data' = StoreRow(data, r) /\ loading' = loading \ {r}
      BY <2>4 DEF Load
    <3>2. data \in Seq(Row) /\ r \in Row /\ table' = table
      BY <2>4, <3>1 DEF Load, SessionsInv, MemInv, TypeOK
    <3>3. \A j \in 1..Len(data') : data'[j] = r \/ \E m \in 1..Len(data) : data'[j] = data[m]
      BY <3>1, <3>2 DEF StoreRow
    <3>4. Rows(data)' \subseteq Rows(data) \union {r}
      BY <3>3 DEF Rows
    <3>5. QED
      BY <2>1, <3>1, <3>2, <3>4
  <2>5. QED
    BY <2>2, <2>3, <2>4
<1>3. SessionsTyped' /\ NoneExpires' /\ FreshWhileLoading'
  BY <1>1, <1>2 DEF SessionsInv, SessionsTyped, NoneExpires, FreshWhileLoading
<1>4. LimitHeld'
  <2>1. CASE loading = {} /\ "expire" \notin features
    BY <1>1, <1>2, <2>1, SameLimits DEF SessionsInv, LimitHeld
  <2>2. CASE ~(loading = {} /\ "expire" \notin features)
    BY <1>1, <1>2, <2>2 DEF LimitHeld
  <2>3. QED
    BY <2>1, <2>2
<1>5. \A h \in Hosts : Online(h)' = Online(h)
  BY <1>1 DEF Online
<1>6. CountCovers' /\ CountIsConnections'
  BY <1>1, <1>5 DEF SessionsInv, CountCovers, CountIsConnections
<1>7. QED
  BY <1>1, <1>3, <1>4, <1>6 DEF SessionsInv

LEMMA ReloadSessions ==
  ASSUME SessionsInv, ModuleReload PROVE SessionsInv'
<1>1. /\ Reload /\ MemInv' /\ "reload" \in features /\ UNCHANGED <<host_of, features>>
      /\ session' = [h \in Hosts |-> NoRecord] /\ NoRecord \in SessionType
      /\ NoRecord.count = 0
  BY StepMem DEF ModuleReload, SessionsInv, Next, NoRecord, SessionType
<1>2. table' = table /\ loading' = table /\ Rows(data)' = {}
  BY <1>1 DEF Reload, Rows
<1>3. SessionsTyped' /\ NoneExpires'
  BY <1>1, <1>2 DEF SessionsInv, SessionsTyped, NoneExpires
<1>4. FreshWhileLoading' /\ LimitHeld' /\ CountCovers' /\ CountIsConnections'
  BY <1>1 DEF FreshWhileLoading, LimitHeld, CountCovers, CountIsConnections
<1>5. QED
  BY <1>1, <1>3, <1>4 DEF SessionsInv

LEMMA SessionsStep ==
  ASSUME SessionsInv, [SessionsNext]_vars PROVE SessionsInv'
<1>1. CASE \E u \in Users : (\E h \in Hosts : NewUser(u, h)) \/ UserLeaves(u)
  BY <1>1, NewUserSessions, UserLeavesSessions
<1>2. CASE \E lost \in SUBSET Users : ServerLeaves(lost)
  BY <1>2, ServerLeavesSessions
<1>3. CASE \E r \in NewRows : /\ "expire" \notin features => r.expires = 0
                              /\ ExceptionAdd(r)
  BY <1>3, ExceptionAddSessions
<1>4. CASE \E h \in Hosts : ExceptionDel(h)
  BY <1>4, ExceptionDelSessions
<1>5. CASE \E old_host, new_host \in Hosts : ExceptionChange(old_host, new_host)
  BY <1>5, ExceptionChangeSessions
<1>6. CASE ModuleReload
  BY <1>6, ReloadSessions
<1>7. CASE ExceptionsExpire \/ ((Load \/ Tick) /\ UNCHANGED svars)
  BY <1>7, TableSessions DEF ExceptionsExpire
<1>8. CASE \E o \in Owners : "drop" \in features /\ OwnerDropped(o) /\ UNCHANGED svars
  BY <1>8, TableSessions
<1>9. CASE UNCHANGED vars
  <2>1. MemInv' /\ UNCHANGED <<table, data, loading, host_of, session, features>>
    BY <1>9, StepMem DEF vars, dbvars, svars, SessionsInv
  <2>2. SessionsTyped' /\ NoneExpires' /\ FreshWhileLoading'
    BY <2>1 DEF SessionsInv, SessionsTyped, NoneExpires, FreshWhileLoading, Rows
  <2>3. LimitHeld'
    BY <2>1, SameLimits DEF SessionsInv, LimitHeld
  <2>4. \A h \in Hosts : Online(h)' = Online(h)
    BY <2>1 DEF Online
  <2>5. CountCovers' /\ CountIsConnections'
    BY <2>1, <2>4 DEF SessionsInv, CountCovers, CountIsConnections
  <2>6. QED
    BY <2>1, <2>2, <2>3, <2>5 DEF SessionsInv
<1>10. QED
  BY <1>1, <1>2, <1>3, <1>4, <1>5, <1>6, <1>7, <1>8, <1>9 DEF SessionsNext

LEMMA InitSessions == SessionsInit => SessionsInv
<1>1. SUFFICES ASSUME SessionsInit PROVE SessionsInv
  OBVIOUS
<1>2. /\ MemInv /\ table \in InitialRows /\ loading = table /\ Rows(data) = {}
      /\ host_of = [u \in Users |-> NONE] /\ features \in Scenarios
      /\ session = [h \in Hosts |-> NoRecord] /\ NoRecord \in SessionType
      /\ NoRecord.count = 0
  BY <1>1, InitMem DEF SessionsInit, Init, Rows, NoRecord, SessionType
<1>3. \A r \in table : r.expires = 0
  BY <1>2 DEF InitialRows
<1>4. SessionsTyped /\ NoneExpires /\ FreshWhileLoading /\ LimitHeld
  BY <1>2, <1>3 DEF SessionsTyped, NoneExpires, FreshWhileLoading, LimitHeld
<1>5. \A h \in Hosts : Online(h) = {}
  BY <1>2, SessionsAssumption DEF Online, Hosts
<1>6. CountCovers /\ CountIsConnections
  BY <1>2, <1>5, FS_EmptySet DEF CountCovers, CountIsConnections
<1>7. QED
  BY <1>2, <1>4, <1>6 DEF SessionsInv

(* Counts and limits hold together: a count is never below the users of    *)
(* its host but after a reload, and is exact without splits.               *)
THEOREM SessionsInvariant == SessionsSpec => []SessionsInv
<1>1. SessionsInv /\ [SessionsNext]_vars => SessionsInv'
  BY SessionsStep
<1>2. QED
  BY <1>1, InitSessions, PTL DEF SessionsSpec

(* Through kills that come back into the handler, glines and the freeing   *)
(* of records, a count is the number of the users of the host.             *)
THEOREM ConnectionsCounted == SessionsSpec => []CountIsConnections
<1>1. SessionsInv => CountIsConnections
  BY DEF SessionsInv
<1>2. QED
  BY <1>1, SessionsInvariant, PTL

(* Every command on exceptions reaches the records of the hosts it is      *)
(* about, in whatever order users come and exceptions change.              *)
THEOREM LimitsInForce == SessionsSpec => []LimitInForce
<1>1. SessionsInv => LimitInForce
  BY DEF SessionsInv, LimitHeld, LimitInForce, Ready
<1>2. QED
  BY <1>1, SessionsInvariant, PTL

(* No user passes the limit before the hits of the host are used up.       *)
THEOREM LimitsEnforced == SessionsSpec => AdmittedWithinLimit
<1> DEFINE Admitted ==
      features \intersect {"reload", "expire"} = {} =>
        \A h \in Hosts :
          /\ Online(h)' \ Online(h) # {}
          /\ LimitFor(h) # 0
          /\ Cardinality(Online(h)') > LimitFor(h)
          => MaxHits # 0 /\ session'[h].limit_hits >= MaxHits
<1>1. ASSUME SessionsInv, [SessionsNext]_vars PROVE Admitted
  <2>1. SUFFICES ASSUME features \intersect {"reload", "expire"} = {}, NEW h \in Hosts,
                        Online(h)' \ Online(h) # {}, LimitFor(h) # 0,
                        Cardinality(Online(h)') > LimitFor(h)
                 PROVE  MaxHits # 0 /\ session'[h].limit_hits >= MaxHits
    OBVIOUS
  <2>2. PICK u \in Users : NewUser(u, h) /\ host_of' = [host_of EXCEPT ![u] = h]
    <3>1. PICK u \in Online(h)' : host_of'[u] = h /\ host_of[u] # h /\ u \in Users
      BY <2>1 DEF Online
    <3>2. host_of' # host_of /\ h # NONE
      BY <3>1, SessionsAssumption DEF Hosts
    <3>3. PICK x \in Users : (\E k \in Hosts : NewUser(x, k)) \/ UserLeaves(x) \/
                             \E lost \in SUBSET Users : ServerLeaves(lost)
      BY <1>1, <3>1, <3>2
      DEF SessionsNext, vars, svars, ExceptionAdd, ExceptionDel, ExceptionChange,
          ExceptionsExpire, ModuleReload
    <3>4. host_of \in [Users -> Hosts \union {NONE}]
      BY <1>1 DEF SessionsInv, SessionsTyped
    <3>5. ~UserLeaves(x) /\ \A lost \in SUBSET Users : ~ServerLeaves(lost)
      BY <3>1, <3>2, <3>4 DEF UserLeaves, ServerLeaves
    <3>6. PICK k \in Hosts : NewUser(x, k)
      BY <3>3, <3>5
    <3>7. host_of' = [host_of EXCEPT ![x] = k]
      BY <3>2, <3>6 DEF NewUser
    <3>8. x = u /\ k = h
      BY <3>1, <3>4, <3>7
    <3>9. QED
      BY <3>6, <3>7, <3>8
  <2> DEFINE r == AddToSession(h)
  <2>3. /\ r \in SessionType /\ r.count = session[h].count + 1 /\ r.limit = LimitFor(h)
        /\ session[h].count \in Nat
    BY <1>1, <2>1, <2>2, AddedRecord
    DEF NewUser, Ready, SessionsInv, SessionsTyped, SessionType
  <2>4. Cardinality(Online(h)') = Cardinality(Online(h)) + 1
    BY <1>1, <2>2, OnlineJoined DEF NewUser, SessionsInv
  <2>5. session[h].count >= Cardinality(Online(h)) /\ Cardinality(Online(h)) \in Nat
    BY <1>1, <2>1, OnlineFinite DEF SessionsInv, CountCovers
  <2>6. Exceeded(r)
    BY <2>1, <2>3, <2>4, <2>5 DEF Exceeded, SessionType
  <2>7. host_of' # host_of
    BY <1>1, <2>2, SessionsAssumption DEF NewUser, SessionsInv, SessionsTyped, Hosts
  <2>8. ~KillsAgain(r) /\ session' = [session EXCEPT ![h] = HitAfter(r)]
    BY <2>2, <2>6, <2>7 DEF NewUser
  <2>9. session'[h] = HitAfter(r)
    BY <1>1, <2>8 DEF SessionsInv, SessionsTyped
  <2>10. MaxHits # 0 /\ HitAfter(r).limit_hits >= MaxHits
    <3>1. HitAfter(r).limit_hits \in Nat
      BY <2>3, RecordFacts DEF SessionType
    <3>2. QED
      BY <2>8, <3>1, SessionsAssumption DEF KillsAgain
  <2>11. QED
    BY <2>9, <2>10
<1>2. SessionsInv /\ [SessionsNext]_vars => [Admitted]_vars
  BY <1>1
<1>3. QED
  BY <1>2, SessionsInvariant, PTL DEF SessionsSpec, AdmittedWithinLimit

(* The exceptions are one table to the module, whatever the sessions do.   *)
THEOREM SessionsImplementTable == Fits /\ SessionsSpec => ImplementsCachedTable
<1>1. SessionsInit => FullInv
  BY InitStore DEF FullInv, SessionsInit, Init
<1>2. ASSUME Fits PROVE SessionsSpec => ImplementsCachedTable
  <2>1. FullInv /\ [SessionsNext]_vars => FullInv'
    BY <1>2, FullStep, SessionsStepOfDBMem
  <2>2. FullInv /\ [SessionsNext]_vars => [Cached!Next]_(Cached!vars)
    BY <1>2, CachedStep, SessionsStepOfDBMem
  <2>3. SessionsInit => Cached!Init
    BY CachedInit DEF SessionsInit
  <2>4. QED
    BY <1>1, <2>1, <2>2, <2>3, PTL
    DEF SessionsSpec, ImplementsCachedTable, Cached!Spec
<1>3. QED
  BY <1>2

-----------------------------------------------------------------------------
(* The index of the user events                                            *)

LEMMA Least ==
  ASSUME NEW S \in SUBSET Nat, S # {}
  PROVE  \E m \in S : \A k \in S : m <= k
<1> DEFINE T == {1..k : k \in S}
           R == StrictSubsetOrdering(Nat)
<1>1. T \subseteq FiniteSubsetsOf(Nat)
  <2>1. ASSUME NEW k \in S PROVE 1..k \subseteq Nat /\ IsFiniteSet(1..k)
    BY FS_Interval
  <2>2. QED
    BY <2>1 DEF FiniteSubsetsOf
<1>2. T # {}
  OBVIOUS
<1>3. IsWellFoundedOn(R, FiniteSubsetsOf(Nat))
  BY FS_StrictSubsetOrderingWellFounded
<1>4. PICK x \in T : \A y \in T : <<y, x>> \notin R
  <2> HIDE DEF T, R
  <2>1. QED
    BY <1>1, <1>2, <1>3, WFMin, Zenon
<1>5. PICK m \in S : x = 1..m
  OBVIOUS
<1>6. ASSUME NEW k \in S, ~(m <= k) PROVE FALSE
  <2>1. 1..k \subseteq 1..m /\ 1..k # 1..m /\ 1..k \in SUBSET Nat /\ 1..m \in SUBSET Nat
    <3>1. m \in 1..m /\ m \notin 1..k
      BY <1>6
    <3>2. QED
      BY <1>6, <3>1
  <2>2. <<1..k, 1..m>> \in R
    BY <2>1 DEF StrictSubsetOrdering
  <2>3. QED
    BY <1>4, <1>5, <2>2
<1>7. QED
  BY <1>6

LEMMA PlacedRange ==
  ASSUME NEW rows \in Seq(Row)
  PROVE  /\ RowsPlaced(rows) \in 0..Len(rows)
         /\ (\A i \in 1..Len(rows) : ~FindsItFull(rows, i)) => RowsPlaced(rows) = Len(rows)
<1> DEFINE full == {i \in 1..Len(rows) : FindsItFull(rows, i)}
           first(i) == FindsItFull(rows, i) /\ \A j \in 1..i-1 : ~FindsItFull(rows, j)
<1>1. CASE full = {}
  <2>1. \A i \in 1..Len(rows) : ~FindsItFull(rows, i)
    BY <1>1
  <2>2. RowsPlaced(rows) = Len(rows)
    BY <2>1 DEF RowsPlaced
  <2>3. QED
    BY <2>2
<1>2. CASE full # {}
  <2>1. full \in SUBSET Nat
    OBVIOUS
  <2>2. PICK m \in full : \A k \in full : m <= k
    <3> HIDE DEF full
    <3>1. QED
      BY <1>2, <2>1, Least
  <2>3. m \in 1..Len(rows) /\ first(m)
    BY <2>2
  <2> DEFINE c == CHOOSE i \in 1..Len(rows) : first(i)
  <2>4. c \in 1..Len(rows)
    <3> HIDE DEF first
    <3>1. QED
      BY <2>3
  <2>5. RowsPlaced(rows) = c - 1
    <3>1. \E i \in 1..Len(rows) : FindsItFull(rows, i)
      BY <1>2
    <3>2. QED
      BY <3>1 DEF RowsPlaced
  <2> HIDE DEF c
  <2>6. QED
    BY <1>2, <2>4, <2>5
<1>3. QED
  BY <1>1, <1>2

(* The positions in increasing order are all of them, each once.           *)
LEMMA AscendingFacts ==
  ASSUME NEW n \in Nat, NEW S \in SUBSET (1..n)
  PROVE  /\ IsFiniteSet(S) /\ Cardinality(S) \in Nat
         /\ DOMAIN Ascending(S) = 1..Cardinality(S)
         /\ Len(Ascending(S)) = Cardinality(S)
         /\ \A k \in 1..Cardinality(S) : Ascending(S)[k] \in S
         /\ \A k, m \in 1..Cardinality(S) : Ascending(S)[k] = Ascending(S)[m] => k = m
         /\ \A i \in S : \E k \in 1..Cardinality(S) : Ascending(S)[k] = i
<1> DEFINE upto(i) == {j \in S : j <= i}
           c == [i \in S |-> Cardinality(upto(i))]
           N == Cardinality(S)
<1>1. IsFiniteSet(S) /\ N \in Nat
  <2>1. IsFiniteSet(1..n)
    BY FS_Interval
  <2>2. QED
    BY <2>1, FS_Subset, FS_CardinalityType
<1>2. \A i \in S : IsFiniteSet(upto(i)) /\ c[i] \in 1..N
  <2>1. SUFFICES ASSUME NEW i \in S PROVE IsFiniteSet(upto(i)) /\ Cardinality(upto(i)) \in 1..N
    OBVIOUS
  <2>2. upto(i) \in SUBSET S /\ i \in upto(i)
    OBVIOUS
  <2> HIDE DEF upto
  <2>3. IsFiniteSet(upto(i)) /\ Cardinality(upto(i)) <= N /\ Cardinality(upto(i)) \in Nat
    BY <1>1, <2>2, FS_Subset, FS_CardinalityType
  <2>4. Cardinality(upto(i)) # 0
    BY <2>2, <2>3, FS_EmptySet
  <2>5. QED
    BY <1>1, <2>3, <2>4
<1>3. \A i, j \in S : i < j => Cardinality(upto(i)) # Cardinality(upto(j))
  <2>1. SUFFICES ASSUME NEW i \in S, NEW j \in S, i < j
                 PROVE  Cardinality(upto(i)) # Cardinality(upto(j))
    OBVIOUS
  <2>2. upto(i) \in SUBSET upto(j) /\ j \in upto(j) /\ j \notin upto(i)
    <3>1. i \in Nat /\ j \in Nat /\ S \subseteq Nat
      OBVIOUS
    <3>2. ASSUME NEW k \in upto(i) PROVE k \in upto(j)
      <4>1. k \in S /\ k \in Nat /\ k <= i
        OBVIOUS
      <4>2. QED
        BY <2>1, <3>1, <4>1
    <3>3. j \in upto(j) /\ j \notin upto(i)
      BY <2>1, <3>1
    <3>4. QED
      BY <3>2, <3>3
  <2> HIDE DEF upto
  <2>3. IsFiniteSet(upto(j))
    BY <1>2
  <2>4. QED
    BY <2>2, <2>3, FS_Subset
<1>4. \A i, j \in S : c[i] = c[j] => i = j
  BY <1>3
<1>5. c \in Injection(S, 1..N)
  <2>1. c \in [S -> 1..N]
    BY <1>2
  <2> HIDE DEF c, N
  <2>2. QED
    BY <1>4, <2>1 DEF Injection, IsInjective
<1>6. c \in Surjection(S, 1..N)
  <2>1. IsFiniteSet(1..N) /\ Cardinality(1..N) = N
    <3>1. N \in Int /\ 1 \in Int
      BY <1>1
    <3>2. IsFiniteSet(1..N) /\ Cardinality(1..N) = IF 1 > N THEN 0 ELSE N - 1 + 1
      BY <3>1, FS_Interval
    <3>3. QED
      BY <1>1, <3>2
  <2>2. Cardinality(S) = Cardinality(1..N) <=> c \in Surjection(S, 1..N)
    <3> HIDE DEF c, N
    <3>1. QED
      BY <1>5, <2>1, FS_Injection
  <2>3. QED
    BY <2>1, <2>2
<1>7. \A k \in 1..N : \E i \in S : c[i] = k
  <2> HIDE DEF c, N
  <2>1. QED
    BY <1>6 DEF Surjection
<1> DEFINE a == Ascending(S)
<1>8. a = [k \in 1..N |-> CHOOSE i \in S : Cardinality(upto(i)) = k]
  BY DEF Ascending
<1>9. \A k \in 1..N : a[k] \in S /\ c[a[k]] = k
  <2>1. SUFFICES ASSUME NEW k \in 1..N PROVE a[k] \in S /\ c[a[k]] = k
    OBVIOUS
  <2>2. PICK i \in S : Cardinality(upto(i)) = k
    BY <1>7
  <2>3. a[k] = CHOOSE j \in S : Cardinality(upto(j)) = k
    BY <1>8
  <2> HIDE DEF a, upto
  <2>4. a[k] \in S /\ Cardinality(upto(a[k])) = k
    BY <2>2, <2>3
  <2>5. QED
    BY <2>4
<1>10. DOMAIN a = 1..N /\ Len(a) = N
  <2>1. DOMAIN a = 1..N
    BY <1>8
  <2> HIDE DEF a, N
  <2>2. QED
    BY <1>1, <2>1
<1> HIDE DEF a, c, upto
<1>11. \A i \in S : a[c[i]] = i /\ c[i] \in 1..N
  BY <1>2, <1>4, <1>9
<1>12. \A k, m \in 1..N : a[k] = a[m] => k = m
  BY <1>9
<1>13. QED
  BY <1>1, <1>9, <1>10, <1>11, <1>12 DEF a

(* The sequence s leads to rows of the event e, to each once, and to all   *)
(* that were placed.                                                       *)
LeadsTo(s, rows, e) ==
  /\ Len(s) \in Nat /\ DOMAIN s = 1..Len(s)
  /\ \A i \in DOMAIN s : s[i] \in 1..Len(rows) /\ rows[s[i]].value = e
  /\ \A i, j \in DOMAIN s : s[i] = s[j] => i = j
  /\ \A j \in 1..RowsPlaced(rows) : rows[j].value = e => \E i \in DOMAIN s : s[i] = j

LEMMA IndexFacts ==
  ASSUME NEW rows \in Seq(Row), NEW e \in EventTypes
  PROVE  LeadsTo(Indexed(rows)[e], rows, e)
<1> DEFINE s == Indexed(rows)[e]
           p == RowsPlaced(rows)
           S == OfEvent(rows, e, p)
<1>1. p \in 0..Len(rows)
  BY PlacedRange
<1>2. s = Ascending(S)
  BY DEF Indexed
<1>3. p \in Nat /\ S \in SUBSET (1..p)
  BY <1>1 DEF OfEvent
<1>4. /\ Cardinality(S) \in Nat
      /\ DOMAIN Ascending(S) = 1..Cardinality(S)
      /\ Len(Ascending(S)) = Cardinality(S)
      /\ \A k \in 1..Cardinality(S) : Ascending(S)[k] \in S
      /\ \A k, m \in 1..Cardinality(S) : Ascending(S)[k] = Ascending(S)[m] => k = m
      /\ \A i \in S : \E k \in 1..Cardinality(S) : Ascending(S)[k] = i
  <2> HIDE DEF S, p
  <2>1. QED
    BY <1>3, AscendingFacts
<1>5. \A i : i \in S <=> i \in 1..p /\ rows[i].value = e
  BY DEF OfEvent
<1> HIDE DEF S, p, s
<1>6. /\ Len(s) = Cardinality(S) /\ DOMAIN s = 1..Cardinality(S)
      /\ \A k \in DOMAIN s : s[k] \in S
      /\ \A k, m \in DOMAIN s : s[k] = s[m] => k = m
      /\ \A i \in S : \E k \in DOMAIN s : s[k] = i
  BY <1>2, <1>4, Zenon
<1>7. \A i \in DOMAIN s : s[i] \in 1..Len(rows) /\ rows[s[i]].value = e
  BY <1>1, <1>5, <1>6
<1>8. \A j \in 1..p : rows[j].value = e => \E i \in DOMAIN s : s[i] = j
  BY <1>5, <1>6
<1>9. QED
  BY <1>4, <1>6, <1>7, <1>8 DEF p, s, LeadsTo

LEMMA EmptyIndex == Indexed(<<>>) = [e \in EventTypes |-> <<>>]
<1>1. RowsPlaced(<<>>) = 0
  BY DEF RowsPlaced
<1>2. \A e : OfEvent(<<>>, e, 0) = {}
  BY DEF OfEvent
<1>3. Cardinality({}) = 0
  BY FS_EmptySet
<1>4. Ascending({}) = <<>>
  BY <1>3 DEF Ascending
<1>5. QED
  BY <1>1, <1>2, <1>4 DEF Indexed

-----------------------------------------------------------------------------
(* Whenever no loop runs the index is that of the rows in memory, which    *)
(* are those of the table: nobody drops a row of user_events from under it.*)
IndexInv ==
  /\ FullInv
  /\ Rows(data) \subseteq table
  /\ Ready => event_index = Indexed(data)

LEMMA IndexInit == UEventsInit => IndexInv
<1>1. SUFFICES ASSUME UEventsInit PROVE IndexInv
  OBVIOUS
<1>2. FullInv
  BY <1>1, InitStore DEF UEventsInit, FullInv, Init
<1>3. data = <<>> /\ Rows(data) = {}
  BY <1>1 DEF UEventsInit, Init, Rows
<1>4. event_index = Indexed(data)
  BY <1>1, <1>3, EmptyIndex DEF UEventsInit
<1>5. QED
  BY <1>2, <1>3, <1>4 DEF IndexInv

LEMMA UEventsStepOfDBMem ==
  ASSUME [UEventsNext]_uvars PROVE [Next]_dbvars
BY DEF UEventsNext, UEventsLoad, UEventAdd, UEventDel, UEventsExpire, UEventsReload, Next,
       uvars, dbvars

(* None of the steps of os_uevent.c takes a row from the table alone.      *)
LEMMA MemoryInside ==
  ASSUME StoreInv, Rows(data) \subseteq table, [UEventsNext]_uvars
  PROVE  Rows(data') \subseteq table'
<1>1. StoreChange
  BY UEventsStepOfDBMem, StoreSteps
<1>2. data \in Seq(Row) /\ KeysUnique
  BY DEF StoreInv, MemInv, TypeOK
<1>3. CASE table \subseteq table'
  BY <1>1, <1>3 DEF StoreChange
<1>4. ASSUME NEW id \in Keys, Delete(id) PROVE Rows(data') \subseteq table'
  <2>1. Found(id) \in 1..Len(data) /\ data[Found(id)].key = id
    BY <1>2, <1>4, FoundFacts DEF Delete
  <2>2. /\ Rows(data') = Rows(data) \ {data[Found(id)]}
        /\ table' = table \ {data[Found(id)]}
    BY <1>4, <2>1, RemovalStore DEF Delete
  <2>3. QED
    BY <2>2
<1>5. CASE ExpireStep
  <2>1. CASE UNCHANGED <<table, data>>
    BY <2>1
  <2>2. CASE /\ scan <= Len(data) /\ scan # 0
             /\ table' = table \ RowsInTable(data[scan].key)
             /\ data' = WithoutRow(data, scan)
             /\ RowsInTable(data[scan].key) # {}
    <3>1. scan \in 1..Len(data)
      BY <1>2, <2>2 DEF StoreInv, MemInv, TypeOK
    <3>2. /\ Rows(data') = Rows(data) \ {data[scan]}
          /\ table' = table \ {data[scan]}
      BY <2>2, <3>1, RemovalStore
    <3>3. QED
      BY <3>2
  <2>3. QED
    BY <1>5, <2>1, <2>2 DEF ExpireStep
<1>6. CASE UEventsLoad \/ (\E r \in NewRows : UEventAdd(r)) \/ UEventsReload \/ Tick
  <2>1. table \subseteq table'
    BY <1>6 DEF UEventsLoad, UEventAdd, UEventsReload, Load, Insert, Reload, Tick, dbmem
  <2>2. QED
    BY <1>3, <2>1
<1>7. CASE ExpireStart \/ UNCHANGED uvars
  BY <1>3, <1>7 DEF ExpireStart, uvars, dbvars
<1>8. QED
  BY <1>4, <1>5, <1>6, <1>7 DEF UEventsNext, UEventDel, UEventsExpire

LEMMA IndexStep ==
  ASSUME Fits, IndexInv, [UEventsNext]_uvars PROVE IndexInv'
<1>1. FullInv'
  BY UEventsStepOfDBMem, FullStep DEF IndexInv
<1>2. Rows(data') \subseteq table'
  BY MemoryInside DEF IndexInv, FullInv
<1>3. Ready' => event_index' = Indexed(data')
  <2>1. CASE UEventsLoad
    BY <2>1 DEF UEventsLoad, Ready
  <2>2. CASE \E r \in NewRows : UEventAdd(r)
    BY <2>2 DEF UEventAdd, Insert, IndexInv
  <2>3. CASE \E id \in Keys : UEventDel(id)
    BY <2>3 DEF UEventDel
  <2>4. CASE UEventsExpire
    BY <2>4 DEF UEventsExpire, ExpireStart, Ready
  <2>5. CASE UEventsReload
    BY <2>5, EmptyIndex DEF UEventsReload, Reload
  <2>6. CASE (Tick /\ UNCHANGED event_index) \/ UNCHANGED uvars
    BY <2>6 DEF Tick, Ready, dbmem, uvars, dbvars, IndexInv
  <2>7. QED
    BY <2>1, <2>2, <2>3, <2>4, <2>5, <2>6 DEF UEventsNext
<1>4. QED
  BY <1>1, <1>2, <1>3 DEF IndexInv

(* The rows at different positions of an index are different.              *)
LEMMA IndexInForce ==
  ASSUME IndexInv, Ready, NEW e \in EventTypes
  PROVE  /\ \A i \in DOMAIN event_index[e] : event_index[e][i] <= Len(data)
         /\ IndexedRows(e) \subseteq RowsOf(e)
         /\ Cardinality(IndexedRows(e)) = Len(event_index[e])
<1> DEFINE s == event_index[e]
           row == [i \in DOMAIN s |-> data[s[i]]]
<1>1. data \in Seq(Row) /\ KeysUnique /\ s = Indexed(data)[e]
  BY DEF IndexInv, FullInv, StoreInv, MemInv, TypeOK
<1>2. LeadsTo(s, data, e)
  BY <1>1, IndexFacts
<1>3. IndexedRows(e) = {data[s[i]] : i \in DOMAIN s}
  BY DEF IndexedRows
<1> HIDE DEF s
<1>4. \A i \in DOMAIN s : s[i] <= Len(data)
  BY <1>1, <1>2 DEF LeadsTo
<1>5. IndexedRows(e) \subseteq RowsOf(e)
  BY <1>2, <1>3 DEF LeadsTo, RowsOf, Rows, IndexInv
<1>6. row \in Bijection(DOMAIN s, IndexedRows(e))
  <2>1. row \in [DOMAIN s -> IndexedRows(e)]
    BY <1>3
  <2>2. \A i, j \in DOMAIN s : row[i] = row[j] => i = j
    BY <1>1, <1>2 DEF LeadsTo, KeysUnique
  <2>3. \A r \in IndexedRows(e) : \E i \in DOMAIN s : row[i] = r
    BY <1>3
  <2> HIDE DEF row
  <2>4. QED
    BY <2>1, <2>2, <2>3 DEF Bijection, Injection, Surjection, IsInjective
<1>7. IsFiniteSet(DOMAIN s) /\ Cardinality(DOMAIN s) = Len(s)
  <2>1. Len(s) \in Int /\ 1 \in Int
    BY <1>2 DEF LeadsTo
  <2>2. IsFiniteSet(1..Len(s)) /\ Cardinality(1..Len(s)) = IF 1 > Len(s) THEN 0 ELSE Len(s) - 1 + 1
    BY <2>1, FS_Interval
  <2>3. QED
    BY <1>2, <2>2 DEF LeadsTo
<1>8. Cardinality(IndexedRows(e)) = Len(s)
  <2>1. ExistsBijection(DOMAIN s, IndexedRows(e))
    <3> HIDE DEF row
    <3>1. QED
      BY <1>6 DEF ExistsBijection
  <2>2. QED
    BY <1>7, <2>1, FS_Bijection
<1>9. QED
  BY <1>4, <1>5, <1>8 DEF s

(* While every event has room for its rows, no row finds its index full,   *)
(* and all of them are in it.                                              *)
LEMMA IndexComplete ==
  ASSUME Fits, IndexInv, Ready, \A e \in EventTypes : Cardinality(RowsOf(e)) <= MaxIndex,
         NEW e \in EventTypes
  PROVE  IndexedRows(e) = RowsOf(e)
<1>1. /\ data \in Seq(Row) /\ KeysUnique /\ event_index = Indexed(data)
      /\ table \subseteq Row /\ UniqueKeys(table) /\ table = Rows(data)
  BY DEF IndexInv, FullInv, StoreInv, MemInv, TypeOK, Ready
<1>2. IsFiniteSet(table)
  <2> DEFINE key == [r \in table |-> r.key]
  <2>1. key \in [table -> Keys] /\ \A r, q \in table : key[r] = key[q] => r = q
    BY <1>1 DEF Row, UniqueKeys
  <2>2. key \in Injection(table, Keys)
    <3> HIDE DEF key
    <3>1. QED
      BY <2>1 DEF Injection, IsInjective
  <2> HIDE DEF key
  <2>3. QED
    BY <2>2, FS_Injection DEF Fits
<1>3. \A i \in 1..Len(data) : ~FindsItFull(data, i)
  <2>1. SUFFICES ASSUME NEW i \in 1..Len(data) PROVE ~FindsItFull(data, i)
    OBVIOUS
  <2> DEFINE v == data[i].value
             S == OfEvent(data, v, i)
             row == [j \in S |-> data[j]]
  <2>2. v \in EventTypes /\ i \in Nat
    <3>1. data[i] \in Row
      BY <1>1
    <3>2. QED
      BY <3>1 DEF Row, EventTypes
  <2>3. S \subseteq 1..Len(data) /\ \A j \in S : data[j].value = v
    BY <1>1 DEF OfEvent
  <2> HIDE DEF S, v
  <2>4. row \in [S -> RowsOf(v)] /\ \A j, m \in S : row[j] = row[m] => j = m
    BY <1>1, <2>3 DEF RowsOf, Rows, KeysUnique
  <2>5. row \in Injection(S, RowsOf(v))
    <3> HIDE DEF row
    <3>1. QED
      BY <2>4 DEF Injection, IsInjective
  <2>6. IsFiniteSet(RowsOf(v)) /\ Cardinality(RowsOf(v)) \in Nat
    BY <1>2, FS_Subset, FS_CardinalityType DEF RowsOf
  <2>7. Cardinality(S) <= Cardinality(RowsOf(v)) /\ Cardinality(S) \in Nat
    <3> HIDE DEF row
    <3>1. QED
      BY <2>5, <2>6, FS_Injection, FS_CardinalityType
  <2>8. Cardinality(S) <= MaxIndex
    BY <2>2, <2>6, <2>7, UEventsAssumption
  <2>9. FindsItFull(data, i) <=> Cardinality(S) > MaxIndex
    BY DEF FindsItFull, S, v
  <2>10. QED
    BY <2>7, <2>8, <2>9, UEventsAssumption
<1>4. RowsPlaced(data) = Len(data)
  BY <1>1, <1>3, PlacedRange
<1> DEFINE s == event_index[e]
<1>5. \A j \in 1..Len(data) : data[j].value = e => \E i \in DOMAIN s : s[i] = j
  <2>1. LeadsTo(s, data, e)
    BY <1>1, IndexFacts
  <2> HIDE DEF s
  <2>2. QED
    BY <1>4, <2>1 DEF LeadsTo
<1>6. RowsOf(e) \subseteq IndexedRows(e)
  BY <1>1, <1>5 DEF RowsOf, Rows, IndexedRows
<1>7. QED
  BY <1>6, IndexInForce

(* os_uevent.c:80: the index leads from every event to rows of that event  *)
(* alone, whatever deletions and expiry have moved, and to all of them     *)
(* while it has room, for tables that fit the first allocation.            *)
THEOREM EventsAlwaysInForce == Fits /\ UEventsSpec => []EventsInForce
<1>1. ASSUME Fits PROVE IndexInv => EventsInForce
  BY <1>1, IndexInForce, IndexComplete DEF EventsInForce
<1>2. ASSUME Fits PROVE UEventsSpec => []EventsInForce
  <2>1. IndexInv /\ [UEventsNext]_uvars => IndexInv'
    BY <1>2, IndexStep
  <2>2. IndexInv => EventsInForce
    BY <1>1, <1>2
  <2>3. QED
    BY <2>1, <2>2, IndexInit, PTL DEF UEventsSpec
<1>3. QED
  BY <1>2

=============================================================================
