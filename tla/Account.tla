------------------------------ MODULE Account ------------------------------
(***************************************************************************)
(* What a wallet promises its owners, with the ledger, the locks and the   *)
(* transactions left out: sales add to the available money once, a         *)
(* withdrawal takes its amount out when it is requested, and then the      *)
(* money is either spent for good or given back, in full and once.         *)
(***************************************************************************)
EXTENDS Integers

CONSTANTS Users, Items, Withdrawals, Amounts, SellerOf, NetOf

VARIABLES available,   \* money each user may spend
          credited,    \* the sales that have been credited
          hold         \* what became of each withdrawal's amount

vars == <<available, credited, hold>>

None == [state |-> "none", user |-> "nobody", amount |-> 0]

Init == /\ available = [u \in Users |-> 0]
        /\ credited = {}
        /\ hold = [w \in Withdrawals |-> None]

Earn(i) == /\ i \notin credited
           /\ credited' = credited \cup {i}
           /\ available' = [available EXCEPT ![SellerOf[i]] = @ + NetOf[i]]
           /\ UNCHANGED hold

Hold(w, u, amount) ==
    /\ hold[w].state = "none"
    /\ available[u] >= amount
    /\ available' = [available EXCEPT ![u] = @ - amount]
    /\ hold' = [hold EXCEPT ![w] = [state |-> "held", user |-> u, amount |-> amount]]
    /\ UNCHANGED credited

Spend(w) == /\ hold[w].state = "held"
            /\ hold' = [hold EXCEPT ![w].state = "spent"]
            /\ UNCHANGED <<available, credited>>

GiveBack(w) == /\ hold[w].state = "held"
               /\ hold' = [hold EXCEPT ![w].state = "returned"]
               /\ available' = [available EXCEPT ![hold[w].user] = @ + hold[w].amount]
               /\ UNCHANGED credited

Next == \/ \E i \in Items : Earn(i)
        \/ \E w \in Withdrawals :
               \/ \E u \in Users, amount \in Amounts : Hold(w, u, amount)
               \/ Spend(w) \/ GiveBack(w)

Spec == Init /\ [][Next]_vars
=============================================================================
