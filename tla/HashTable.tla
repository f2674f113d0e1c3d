------------------------------- MODULE HashTable -------------------------------
(***************************************************************************)
(* The hash tables of libircservice (hash.c): buckets of chains that the   *)
(* users and channels themselves are linked into, by hnext and hnextch. An *)
(* entry is the name it is found by, and a table a chain of every bucket.  *)
(***************************************************************************)
EXTENDS Integers, Sequences, SequencesExt, FiniteSets

(* clear_user_hash_table and the like                                      *)
EmptyTable(buckets) == [b \in buckets |-> <<>>]

AddedTo(table, b, x) == [table EXCEPT ![b] = <<x>> \o @]

(* The entry is looked for along the chain; one that is not there is left. *)
ChainCut(table, b, x) ==
  [table EXCEPT ![b] = SubSeq(@, 1, SelectInSeq(@, LAMBDA y : y = x) - 1)]

DeletedFrom(table, b, x) == [table EXCEPT ![b] = RemoveFirst(@, x)]

FoundIn(table, b, x) == Contains(table[b], x)

Entries(table) == UNION {ToSet(table[b]) : b \in DOMAIN table}

(* hash_next_localuser: `current` is the rest of the chain it stands in,   *)
(* next_index the next bucket; the buckets are numbered from 0.            *)
NextEntry(table, it) ==
  LET rest == IF it.current = <<>> THEN <<>> ELSE Tail(it.current)
      used == {b \in DOMAIN table : b >= it.next_index /\ table[b] # <<>>}
      next == CHOOSE b \in used : \A c \in used : b <= c
  IN  IF rest # <<>> \/ used = {} THEN [it EXCEPT !.current = rest]
      ELSE [next_index |-> next + 1, current |-> table[next]]

(* The entries that a loop over hash_next_localuser meets before it ends   *)
Walked(table) ==
  LET n == Cardinality(Entries(table)) + 1
      it[k \in 0..n] == IF k = 0 THEN [next_index |-> 0, current |-> <<>>]
                        ELSE NextEntry(table, it[k-1])
  IN  {Head(it[k].current) : k \in {i \in 1..n : \A j \in 1..i : it[j].current # <<>>}}

=============================================================================
