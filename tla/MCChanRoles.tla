---------------------------- MODULE MCChanRoles -----------------------------
(* ChanRoles for TLC: nicks and ids of roles are interchangeable.          *)
EXTENDS ChanRoles, TLC

Symmetry == Permutations(Nicks) \union Permutations(Rids)
=============================================================================
