----------------------------- MODULE PaymentLocks -----------------------------
(***************************************************************************)
(* The row locks of the transactions that take in money, over several      *)
(* orders (payment_service.py, orders/services.py, wallet/services.py):    *)
(* which rows each transaction locks, in which order, and what happens     *)
(* when two wait for each other.  FulfilmentLocks has the locks within one *)
(* order; here are those that several orders, or the attempts of one, have *)
(* in common.                                                              *)
(*                                                                         *)
(* A row is locked by a SELECT ... FOR UPDATE or by the first UPDATE of    *)
(* it.  A transaction that inserts ledger rows also locks, at its COMMIT,  *)
(* the order items they refer to: Django defers the foreign keys.          *)
(***************************************************************************)
EXTENDS OrderStateMachine, Sequences, SequencesExt

CONSTANTS Lines,     \* the items of each order: product and seller, by id
          Workers,
          Nobody     \* a lock that is free, no worker

VARIABLES order,     \* the committed Order.status
          attempt,   \* the order's newest Payment row: pending or final
          lock,      \* who holds each row's lock
          tx         \* the transaction of each worker

vars == <<order, attempt, lock, tx>>

Orders == DOMAIN Lines
OrderRow(o) == <<"order", o>>
AttemptRow(o) == <<"attempt", o>>      \* the one that is PENDING
Item(o, n) == <<"item", <<o, n>>>>
Wallet(o, n) == <<"wallet", Lines[o][n].seller>>

(* mark_paid: each line's product, then its seller's wallet; at the COMMIT *)
(* the items of the ledger rows.                                           *)
SaleRows(o) ==
    FlattenSeq([n \in DOMAIN Lines[o] |-> <<<<"product", Lines[o][n].product>>, Wallet(o, n)>>])
      \o [n \in DOMAIN Lines[o] |-> Item(o, n)]

Rows == UNION {{OrderRow(o), AttemptRow(o)} \cup ToSet(SaleRows(o)) : o \in Orders}

(***************************************************************************)
(* The rows a call locks before it decides.  "answer" is handle_webhook    *)
(* (the payment row joined with its order) and, in the same order,         *)
(* reconcile_one; "pay" is transition_order when verify_payment_status,    *)
(* initiate_payment's own answer or an administrator calls it; "item" is   *)
(* transition_item.                                                        *)
(***************************************************************************)
MutFirstRows(kind, o, n) == CASE kind = "answer" -> <<AttemptRow(o), OrderRow(o)>>
                              [] kind = "item"   -> <<Item(o, n), OrderRow(o)>>
                              [] OTHER           -> <<OrderRow(o), AttemptRow(o)>>
FirstRows(kind, o, n) == CASE kind = "initiate" -> <<OrderRow(o)>>
                           [] kind = "answer"   -> <<AttemptRow(o), OrderRow(o)>>
                           [] kind = "pay"      -> <<OrderRow(o)>>
                           [] kind = "item"     -> <<Item(o, n), OrderRow(o)>>

Call(pc, kind, o, n, todo) == [pc |-> pc, kind |-> kind, order |-> o, line |-> n, todo |-> todo]
NoTx == Call("idle", "pay", CHOOSE o \in Orders : TRUE, 1, <<>>)

Init == /\ order = [o \in Orders |-> "pending_payment"]
        /\ attempt = [o \in Orders |-> "pending"]
        /\ lock = [r \in Rows |-> Nobody]
        /\ tx = [t \in Workers |-> NoTx]

(* COMMIT or ROLLBACK. *)
End(t) == /\ tx' = [tx EXCEPT ![t] = NoTx]
          /\ lock' = [r \in Rows |-> IF lock[r] = t THEN Nobody ELSE lock[r]]

Begin(t, kind, o, n) ==
    /\ tx[t].pc = "idle"
    /\ tx' = [tx EXCEPT ![t] = Call("asked", kind, o, n, FirstRows(kind, o, n))]
    /\ UNCHANGED <<order, attempt, lock>>

(* The next row: free, or locked by the same transaction before. *)
Take(t) ==
    /\ tx[t].todo # <<>>
    /\ lock[Head(tx[t].todo)] \in {Nobody, t}
    /\ lock' = [lock EXCEPT ![Head(tx[t].todo)] = t]
    /\ tx' = [tx EXCEPT ![t].todo = Tail(@)]
    /\ UNCHANGED <<order, attempt>>

(***************************************************************************)
(* With the first rows locked, the call reads them and goes on, or ends.   *)
(***************************************************************************)
GoOn(t, pc, todo) == /\ tx' = [tx EXCEPT ![t].pc = pc, ![t].todo = todo]
                     /\ UNCHANGED <<order, attempt, lock>>

Asked(t, kinds) == tx[t].pc = "asked" /\ tx[t].todo = <<>> /\ tx[t].kind \in kinds

MarkPaid(o) == OrderTargets(order[o], "mark_paid", "payment")
FailPayment(o) == OrderTargets(order[o], "fail_payment", "payment")

(* initiate_payment expires the attempt that is PENDING, whatever the      *)
(* order has become since the check before the lock.                       *)
Expire(t) ==
    /\ Asked(t, {"initiate"})
    /\ GoOn(t, "expire", IF attempt[tx[t].order] = "pending" THEN <<AttemptRow(tx[t].order)>>
                         ELSE <<>>)

Sell(t) ==
    /\ Asked(t, {"answer", "pay"})
    /\ tx[t].kind = "answer" => attempt[tx[t].order] = "pending"
    /\ MarkPaid(tx[t].order) # {}
    /\ GoOn(t, "sell", SaleRows(tx[t].order))

(* Completing an item asks for its credit once more; the other actions ask *)
(* for no further row.                                                     *)
MoveItem(t) ==
    /\ Asked(t, {"item"})
    /\ \/ GoOn(t, "move", <<>>)
       \/ /\ order[tx[t].order] = "paid"
          /\ GoOn(t, "move", <<Wallet(tx[t].order, tx[t].line)>>)

(* The answer is about an attempt that was answered before or has expired  *)
(* since - the row is the newest one's, or an older one nobody else wants -*)
(* or mark_paid is refused, which only the answered row remembers.         *)
Refuse(t) ==
    /\ Asked(t, {"answer", "pay"})
    /\ \/ tx[t].kind = "answer" /\ UNCHANGED attempt
       \/ /\ MarkPaid(tx[t].order) = {}
          /\ attempt' = [attempt EXCEPT ![tx[t].order] =
                             IF tx[t].kind = "answer" THEN "final" ELSE @]
    /\ End(t)
    /\ UNCHANGED order

(* The answer is "failed": fail_payment, if the order still waits. *)
Fail(t) ==
    /\ Asked(t, {"answer"})
    /\ attempt[tx[t].order] = "pending"
    /\ attempt' = [attempt EXCEPT ![tx[t].order] = "final"]
    /\ \/ \E to \in FailPayment(tx[t].order) : order' = [order EXCEPT ![tx[t].order] = to]
       \/ FailPayment(tx[t].order) = {} /\ UNCHANGED order
    /\ End(t)

Commit(t) ==
    /\ tx[t].pc \in {"expire", "sell", "move"} /\ tx[t].todo = <<>>
    /\ LET o == tx[t].order IN
         /\ attempt' = [attempt EXCEPT ![o] =
                CASE tx[t].kind = "initiate" -> "pending"     \* the new one
                  [] tx[t].kind = "answer"   -> "final"
                  [] OTHER -> @]
         /\ order' = [order EXCEPT ![o] =
                CASE tx[t].pc = "sell" -> "paid"
                  [] tx[t].pc = "expire" /\ @ = "payment_failed" -> "pending_payment"
                  [] OTHER -> @]
    /\ End(t)

-----------------------------------------------------------------------------
Waiting(t) == tx[t].todo # <<>> /\ lock[Head(tx[t].todo)] \notin {Nobody, t}
Blocker(t) == lock[Head(tx[t].todo)]

(* A cycle: each waits for one of them, and is waited for by one. *)
Cycles == {c \in SUBSET Workers : (\A t \in c : Waiting(t)) /\ c = {Blocker(t) : t \in c}}
Deadlocked == UNION Cycles

(* The database ends one transaction of every cycle.  No caller catches    *)
(* its error: _mark_paid_if_possible expects TransitionDenied only.        *)
Victim(t) == /\ t \in Deadlocked
             /\ End(t)
             /\ UNCHANGED <<order, attempt>>

Crash(t) == /\ tx[t].pc # "idle"
            /\ End(t)
            /\ UNCHANGED <<order, attempt>>

Step(t) == Take(t) \/ Expire(t) \/ Sell(t) \/ MoveItem(t) \/ Refuse(t) \/ Fail(t) \/ Commit(t)

Next == \E t \in Workers :
    \/ \E o \in Orders :
          \/ \E kind \in {"initiate", "answer", "pay"} : Begin(t, kind, o, 1)
          \/ \E n \in DOMAIN Lines[o] : Begin(t, "item", o, n)
    \/ Step(t) \/ Victim(t) \/ Crash(t)

Spec == Init /\ [][Next]_vars

-----------------------------------------------------------------------------
TypeOK == /\ order \in [Orders -> OrderStatus]
          /\ attempt \in [Orders -> {"pending", "final"}]
          /\ lock \in [Rows -> Workers \cup {Nobody}]
          /\ \A t \in Workers :
                 /\ tx[t].pc \in {"idle", "asked", "expire", "sell", "move"}
                 /\ tx[t].order \in Orders /\ tx[t].line \in DOMAIN Lines[tx[t].order]
                 /\ ToSet(tx[t].todo) \subseteq Rows

(***************************************************************************)
(* Transactions end up waiting for each other only                         *)
(*  - on one order: initiate_payment against an answer (order and attempt, *)
(*    locked in opposite orders), or transition_item against a sale;       *)
(*  - over sales whose orders list the products and sellers they share in  *)
(*    opposite orders.                                                     *)
(* A webhook, a reconciliation and a buyer's verify never do, nor do two   *)
(* sales of carts filled in the same order.                                *)
(***************************************************************************)
(* A sale of the order locks q for the first time when it has p. *)
Before(o, p, q) ==
    LET rows == SaleRows(o)
    IN  /\ q \in ToSet(rows)
        /\ \E i \in DOMAIN rows : /\ rows[i] = p
                                  /\ \A j \in DOMAIN rows : rows[j] = q => i < j

(* No order of rows agrees with all of these sales. *)
Crossing(os) ==
    \E rows \in SUBSET {r \in Rows : r[1] \in {"product", "wallet"}} :
        rows # {} /\ \A q \in rows : \E p \in rows, o \in os : Before(o, p, q)

SameOrder(kinds) == \E s, t \in Deadlocked : /\ tx[s].order = tx[t].order
                                             /\ <<tx[s].kind, tx[t].kind>> \in kinds

DeadlockNeedsCrossing ==
    Deadlocked # {} =>
        \/ SameOrder({<<"initiate", "answer">>} \cup {"item"} \X {"answer", "pay"})
        \/ Crossing({tx[t].order : t \in {s \in Deadlocked : tx[s].pc = "sell"}})
=============================================================================
