----------------------------- MODULE Fulfilment -----------------------------
(***************************************************************************)
(* One order and its items, as orders/services.py promises to move them:   *)
(* every call of transition_order or transition_item is one step, with all *)
(* that it brings along - the items a cancelled order cancels, the sellers *)
(* a payment credits, the order its last item completes.  FulfilmentLocks  *)
(* shows that the row locks make the calls behave so.                      *)
(*                                                                         *)
(* An operator whose name starts with Mut is a seeded fault: a variant of  *)
(* the definition after it that some property has to tell from the code.   *)
(***************************************************************************)
EXTENDS OrderStateMachine

CONSTANT Items      \* the order's items; an order is never created empty

ASSUME FulfilmentAssumption == Items # {}

VARIABLES order,    \* Order.status
          item,     \* OrderItem.item_status of each item
          credited  \* the items whose seller has been credited

vars == <<order, item, credited>>

OrderAction == {t.action : t \in ORDER_TRANSITIONS}
ItemAction  == {t.action : t \in ITEM_TRANSITIONS}

CancelActions == {"cancel", "force_cancel", "refund"}

TypeOK == /\ order \in OrderStatus
          /\ item \in [Items -> ItemStatus]
          /\ credited \subseteq Items

Init == /\ order = "pending_payment"
        /\ item = [i \in Items |-> "pending"]
        /\ credited = {}

(***************************************************************************)
(* transition_order.  process_completed_sale is asked for every item of a  *)
(* paid order; asked again for an item it does nothing.                    *)
(***************************************************************************)
Cascade(action, items) ==
    IF action \in CancelActions THEN [i \in Items |-> "cancelled"] ELSE items

TransitionOrder(action, actor) ==
    /\ order' \in OrderTargets(order, action, actor)
    /\ item' = Cascade(action, item)
    /\ credited' = IF action = "mark_paid" THEN Items ELSE credited

(***************************************************************************)
(* transition_item, with _sync_order_status at its end.                    *)
(***************************************************************************)
SyncOrderStatus(status, items) ==
    IF status = "paid" /\ \A i \in Items : items[i] = "completed"
    THEN "completed" ELSE status

TransitionItem(i, action, actor) ==
    \E to \in ItemTargets(item[i], action, actor, order) :
        /\ item' = [item EXCEPT ![i] = to]
        /\ credited' = IF to = "completed" THEN credited \cup {i} ELSE credited
        /\ order' = SyncOrderStatus(order, item')

Next == \/ \E action \in OrderAction, actor \in Actor : TransitionOrder(action, actor)
        \/ \E i \in Items, action \in ItemAction, actor \in Actor :
               TransitionItem(i, action, actor)

Spec == Init /\ [][Next]_vars

-----------------------------------------------------------------------------
(* The envelope and its items never contradict each other: nothing is      *)
(* confirmed or shipped before the order is paid, a cancelled or refunded  *)
(* order has no item left to fulfil, and the order is completed exactly    *)
(* when its last item is (orders/services.py, the cascades of              *)
(* transition_order and _sync_order_status).                               *)
OrderAndItemsAgree ==
    /\ order \in {"pending_payment", "payment_failed"}
           => \A i \in Items : item[i] = "pending"
    /\ order \in {"cancelled", "refunded"} => \A i \in Items : item[i] = "cancelled"
    /\ order = "paid" => \A i \in Items : item[i] # "cancelled"
    /\ order = "completed" <=> \A i \in Items : item[i] = "completed"

(* The sellers of an order are credited together, when it is paid: no      *)
(* order that is paid or completed owes one of them, and no order that     *)
(* still waits for its money has credited one.                             *)
CreditFollowsPayment ==
    /\ credited \in {{}, Items}
    /\ order \in {"paid", "completed", "refunded"} => credited = Items
    /\ order \in {"pending_payment", "payment_failed"} => credited = {}

-----------------------------------------------------------------------------
(***************************************************************************)
(* What the documentation says and the code does not keep.                 *)
(***************************************************************************)

(* What pending_earnings adds up: items of a PAID order still on the way.  *)
InTransit == {i \in Items : order = "paid" /\ item[i] \notin {"completed", "cancelled"}}

(* ARCHITECTURE.md: pending earnings are "in transit - not yet credited,   *)
(* separate from the balance".                                             *)
InTransitIsNotCredited == InTransit \cap credited = {}

(* PRESENTATION_QA_GUIDE.md: when an order is refunded, "a seller who was  *)
(* already credited has those funds removed".                              *)
RefundTakesCreditBack == order = "refunded" => credited = {}
=============================================================================
