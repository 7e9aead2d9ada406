---------------------------- MODULE OrderPromise ----------------------------
(***************************************************************************)
(* What the payment machinery promises about one order, with the attempts, *)
(* the callbacks and the request threads left out.  "funded" and           *)
(* "declined" are facts about the gateway: some attempt on this order      *)
(* brought money in, some attempt was refused or abandoned.  Neither is    *)
(* ever taken back.  The order may only follow those facts:                *)
(*                                                                         *)
(*   - it becomes PAID on its own account only once it is funded; an       *)
(*     administrator may vouch for the money instead;                      *)
(*   - it is failed only once some attempt was declined;                   *)
(*   - it is paid at most once, and what ends it ends it for good.         *)
(***************************************************************************)
VARIABLES status, funded, declined, vouched

vars == <<status, funded, declined, vouched>>

Init == /\ status = "pending_payment"
        /\ funded = FALSE
        /\ declined = FALSE
        /\ vouched = FALSE

(* The gateway settles an attempt. *)
Learn == /\ UNCHANGED <<status, vouched>>
         /\ \/ funded' = TRUE /\ UNCHANGED declined
            \/ declined' = TRUE /\ UNCHANGED funded

Pay == /\ status = "pending_payment"
       /\ funded
       /\ status' = "paid"
       /\ UNCHANGED <<funded, declined, vouched>>

Vouch == /\ status = "pending_payment"
         /\ status' = "paid"
         /\ vouched' = TRUE
         /\ UNCHANGED <<funded, declined>>

Fail == /\ status = "pending_payment"
        /\ declined
        /\ status' = "payment_failed"
        /\ UNCHANGED <<funded, declined, vouched>>

Retry == /\ status = "payment_failed"
         /\ status' = "pending_payment"
         /\ UNCHANGED <<funded, declined, vouched>>

Cancel == /\ status \in {"pending_payment", "payment_failed"}
          /\ status' = "cancelled"
          /\ UNCHANGED <<funded, declined, vouched>>

End == /\ status = "paid"
       /\ status' \in {"completed", "refunded", "cancelled"}
       /\ UNCHANGED <<funded, declined, vouched>>

Next == Learn \/ Pay \/ Vouch \/ Fail \/ Retry \/ Cancel \/ End

Spec == Init /\ [][Next]_vars
=============================================================================
