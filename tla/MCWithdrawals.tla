--------------------------- MODULE MCWithdrawals ---------------------------
(***************************************************************************)
(* Withdrawals on a small instance.  One seller sells items worth 1000.75  *)
(* and 525.25 (the fees round half up); workers are interchangeable.       *)
(***************************************************************************)
EXTENDS Withdrawals

CONSTANTS u1, i1, i2

MCSellerOf == [i \in Items |-> u1]
MCLineTotal == [i \in Items |-> IF i = i1 THEN 100075 ELSE 52525]

WorkerSymmetry == Permutations(Workers)
=============================================================================
