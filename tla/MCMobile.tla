------------------------------ MODULE MCMobile ------------------------------
(* The session of the app on a small instance. *)
EXTENDS MobileSession, TLC

PairSymmetry == Permutations(Pairs)
=============================================================================
