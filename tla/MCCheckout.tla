----------------------------- MODULE MCCheckout -----------------------------
(***************************************************************************)
(* Checkout on a small instance: one seller, buyers who buy from her.      *)
(***************************************************************************)
EXTENDS Checkout

CONSTANT seller

MCSellerOf == [p \in Products |-> seller]
=============================================================================
