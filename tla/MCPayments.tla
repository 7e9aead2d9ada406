----------------------------- MODULE MCPayments -----------------------------
(***************************************************************************)
(* Payments on a small instance: request threads are interchangeable.      *)
(***************************************************************************)
EXTENDS Payments, TLC

RequestSymmetry == Permutations(Requests)
=============================================================================
