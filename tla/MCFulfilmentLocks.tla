-------------------------- MODULE MCFulfilmentLocks --------------------------
(***************************************************************************)
(* FulfilmentLocks on a small instance: workers are                        *)
(* interchangeable (items are not: an idle record names one of them).      *)
(***************************************************************************)
EXTENDS FulfilmentLocks, TLC

WorkerSymmetry == Permutations(Workers)
=============================================================================
