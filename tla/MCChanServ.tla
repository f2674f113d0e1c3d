----------------------------- MODULE MCChanServ -----------------------------
(***************************************************************************)
(* ChanServ for TLC. No action tells one channel or one nick from another. *)
(***************************************************************************)
EXTENDS ChanServ, TLC

Symmetry == Permutations(Chans) \union Permutations(Nicks)
=============================================================================
