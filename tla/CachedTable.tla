----------------------------- MODULE CachedTable -----------------------------
(***************************************************************************)
(* What the owner of a DBMem relies on (src/mysql.c:746 "keep a set of     *)
(* data both on the db and memory synchronized"): one set of rows, each    *)
(* with a key of its own, in which a command adds, removes or renames one  *)
(* row; of itself the set changes only in an expiry pass, by rows whose    *)
(* time is over, and at a restart, by rows whose owner was dropped.        *)
(***************************************************************************)
EXTENDS Integers

CONSTANTS
  Row,   \* records with at least a key, an owner and expires
  NONE   \* the owner of a row without one

VARIABLES
  rows,
  now,
  expiring  \* is an expiry pass under way

vars == <<rows, now, expiring>>

UniqueKeys(R) == \A r, q \in R : r.key = q.key => r = q

(* The time of a row is over; expires is 0 for a row that never expires.   *)
Over(r) == r.expires # 0 /\ r.expires < now

Init ==
  /\ rows \subseteq Row /\ UniqueKeys(rows)
  /\ now \in Nat
  /\ expiring = FALSE

Add ==
  /\ ~expiring
  /\ \E r \in rows' \ rows :
       /\ r \in Row /\ ~Over(r)
       /\ \A q \in rows : q.key # r.key
       /\ rows' = rows \union {r}
  /\ UNCHANGED <<now, expiring>>

Remove ==
  /\ ~expiring
  /\ \E r \in rows : rows' = rows \ {r}
  /\ UNCHANGED <<now, expiring>>

(* The row stays what it is but for its key.                               *)
Rename ==
  /\ ~expiring
  /\ \E r \in rows : \E n \in rows' :
       /\ n = [r EXCEPT !.key = n.key]
       /\ \A q \in rows : q.key # n.key
       /\ rows' = (rows \ {r}) \union {n}
  /\ UNCHANGED <<now, expiring>>

BeginPass == ~expiring /\ expiring' = TRUE /\ UNCHANGED <<rows, now>>

Expire ==
  /\ expiring
  /\ \E r \in rows : Over(r) /\ rows' = rows \ {r}
  /\ UNCHANGED <<now, expiring>>

EndPass == expiring /\ expiring' = FALSE /\ UNCHANGED <<rows, now>>

Restart ==
  /\ ~expiring
  /\ rows' \subseteq rows
  /\ \A r \in rows \ rows' : r.owner # NONE
  /\ UNCHANGED <<now, expiring>>

Pass == ~expiring /\ now' > now /\ UNCHANGED <<rows, expiring>>

Next ==
  \/ Add \/ Remove \/ Rename
  \/ BeginPass \/ Expire \/ EndPass
  \/ Restart \/ Pass

Spec == Init /\ [][Next]_vars

=============================================================================
