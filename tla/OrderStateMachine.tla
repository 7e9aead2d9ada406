------------------------- MODULE OrderStateMachine -------------------------
(***************************************************************************)
(* The two transition tables of orders/state_machine.py and the rule that  *)
(* decides whether an actor may take a transition.  A table is a set of    *)
(* edges; the code's nested dictionary maps (status, action) to at most    *)
(* one edge, so Targets below has at most one element.                     *)
(***************************************************************************)

(***************************************************************************)
(* The statuses the code can reach.  The model also declares "confirmed",  *)
(* "shipped" and "delivered" as order statuses; no transition enters them. *)
(***************************************************************************)
OrderStatus == {"pending_payment", "payment_failed", "paid", "completed",
                "cancelled", "refunded"}

ItemStatus == {"pending", "confirmed", "shipped", "delivered", "completed",
               "cancelled"}

Actor == {"buyer", "seller", "admin", "payment", "nobody"}

ORDER_TRANSITIONS ==
    { [from |-> "pending_payment", action |-> "mark_paid",     to |-> "paid",            actor |-> "payment"],
      [from |-> "pending_payment", action |-> "cancel",        to |-> "cancelled",       actor |-> "buyer"],
      [from |-> "pending_payment", action |-> "fail_payment",  to |-> "payment_failed",  actor |-> "payment"],
      [from |-> "payment_failed",  action |-> "retry_payment", to |-> "pending_payment", actor |-> "payment"],
      [from |-> "payment_failed",  action |-> "cancel",        to |-> "cancelled",       actor |-> "buyer"],
      [from |-> "paid",            action |-> "refund",        to |-> "refunded",        actor |-> "admin"],
      [from |-> "paid",            action |-> "force_cancel",  to |-> "cancelled",       actor |-> "admin"] }

ITEM_TRANSITIONS ==
    { [from |-> "pending",   action |-> "confirm",  to |-> "confirmed", actor |-> "seller"],
      [from |-> "confirmed", action |-> "ship",     to |-> "shipped",   actor |-> "seller"],
      [from |-> "shipped",   action |-> "deliver",  to |-> "delivered", actor |-> "seller"],
      [from |-> "delivered", action |-> "complete", to |-> "completed", actor |-> "buyer"] }

(* The actions whose edge carries the precondition _require_order_paid.    *)
NeedsPaidOrder == {"confirm", "ship", "deliver"}

(***************************************************************************)
(* apply_transition's permission test: the edges of the admin and payment  *)
(* actors are open to both of them, every other edge to its actor alone.   *)
(***************************************************************************)
Permitted(edgeActor, actor) ==
    IF edgeActor \in {"admin", "payment"}
    THEN actor \in {"admin", "payment"}
    ELSE actor = edgeActor

(* Where the transition leads; empty when apply_transition raises.         *)
Targets(table, from, action, actor) ==
    { t.to : t \in { u \in table : /\ u.from = from
                                   /\ u.action = action
                                   /\ Permitted(u.actor, actor) } }

OrderTargets(from, action, actor) == Targets(ORDER_TRANSITIONS, from, action, actor)

(***************************************************************************)
(* A caller that swallows TransitionDenied: the status after the attempt.  *)
(***************************************************************************)
TriedOrder(from, action, actor) ==
    IF OrderTargets(from, action, actor) = {} THEN {from}
                                              ELSE OrderTargets(from, action, actor)

ItemTargets(from, action, actor, orderStatus) ==
    IF action \in NeedsPaidOrder /\ orderStatus # "paid"
    THEN {}
    ELSE Targets(ITEM_TRANSITIONS, from, action, actor)
=============================================================================
