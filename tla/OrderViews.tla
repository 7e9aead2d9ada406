----------------------------- MODULE OrderViews -----------------------------
(***************************************************************************)
(* Who may do what to an order (orders/views.py, serializers.py and the    *)
(* actor rules of state_machine.py): the actions a page offers to the user *)
(* it was served to, and the requests users send, from that page or not.   *)
(* The transitions themselves are Fulfilment's.                            *)
(*                                                                         *)
(* One page is followed, of any user.  It is as old as it may be: others   *)
(* go on while it is shown, and the answer that renews it may be lost.     *)
(***************************************************************************)
EXTENDS Fulfilment

CONSTANT Users

VARIABLES parties,  \* the staff, the order's buyer and each item's seller
          page,     \* the page: whose, and what it offers
          stale,    \* history: the order or an item changed since the page was served
          misled,   \* history: an action of a page that was not stale was refused
          hand      \* history: the users that have moved each item

viewVars == <<vars, parties, page, stale, misled, hand>>

(* create_order_from_cart: nobody buys from himself. *)
Parties == {x \in [staff : SUBSET Users, buyer : Users, seller : [Items -> Users]] :
                \A i \in Items : x.seller[i] # x.buyer}

-----------------------------------------------------------------------------
(* request_user_is_party, and what the two detail views look up. *)
IsParty(u) == \/ u \in parties.staff \cup {parties.buyer}
              \/ \E i \in Items : u = parties.seller[i]

(***************************************************************************)
(* actor_for_order, actor_for_item: staff come first, also for an order    *)
(* or an item of their own.                                                *)
(***************************************************************************)
ActorForOrder(u) == IF u \in parties.staff THEN "admin"
                    ELSE IF u = parties.buyer THEN "buyer" ELSE "nobody"

MutActorForItem(u, i) == IF u = parties.seller[i] THEN "seller"
                         ELSE IF IsParty(u) THEN "buyer" ELSE "nobody"
ActorForItem(u, i) == IF u \in parties.staff THEN "admin"
                      ELSE IF u = parties.seller[i] THEN "seller"
                      ELSE IF u = parties.buyer THEN "buyer" ELSE "nobody"

(* ItemActionView.get_item *)
Reaches(u, i) == u \in parties.staff \cup {parties.buyer, parties.seller[i]}

(* OrderSerializer.get_items: sellers see their own lines only. *)
VisibleItems(u) == IF u \in parties.staff \cup {parties.buyer} THEN Items
                   ELSE {i \in Items : parties.seller[i] = u}

(* available_actions, by way of can_transition. *)
OrderOffers(u) == {t.action : t \in {e \in ORDER_TRANSITIONS :
                        e.from = order /\ Permitted(e.actor, ActorForOrder(u))}}

MutItemActions(u, i) == {t.action : t \in {e \in ITEM_TRANSITIONS :
                             e.from = item[i] /\ Permitted(e.actor, ActorForItem(u, i))}}
ItemActions(u, i) ==
    {t.action : t \in {e \in ITEM_TRANSITIONS :
         /\ e.from = item[i] /\ Permitted(e.actor, ActorForItem(u, i))
         /\ e.action \in NeedsPaidOrder => order = "paid"}}

Page(u) == [of |-> u, order |-> OrderOffers(u),
            item |-> [i \in Items |-> IF i \in VisibleItems(u) THEN ItemActions(u, i) ELSE {}]]

NoPage == [of |-> "none", order |-> {}, item |-> [i \in Items |-> {}]]

ViewInit == /\ Init
            /\ parties \in Parties
            /\ page = NoPage
            /\ stale = FALSE /\ misled = FALSE
            /\ hand = [i \in Items |-> {}]

-----------------------------------------------------------------------------
Show(u) == /\ IsParty(u)
           /\ page' = Page(u)
           /\ stale' = FALSE
           /\ UNCHANGED <<vars, parties, misled, hand>>

(* The answer renews the page it was sent from, if it comes before anybody *)
(* else moves.                                                             *)
Moved(u) == /\ UNCHANGED <<parties, misled>>
            /\ \/ page.of = u /\ page' = Page(u)' /\ stale' = FALSE
               \/ UNCHANGED page /\ stale' = TRUE

Refused(u, offered) == /\ misled' = (misled \/ (page.of = u /\ offered /\ ~ stale))
                       /\ UNCHANGED <<vars, parties, page, stale, hand>>

(* The POST endpoints of orders/urls.py. *)
OrderEndpoints == {"cancel", "mark_paid", "refund"}
ItemEndpoints  == {"confirm", "ship", "deliver", "complete"}

PostOrder(u, action) ==
    IF IsParty(u) /\ OrderTargets(order, action, ActorForOrder(u)) # {}
    THEN TransitionOrder(action, ActorForOrder(u)) /\ Moved(u) /\ UNCHANGED hand
    ELSE Refused(u, action \in page.order)

PostItem(u, i, action) ==
    IF Reaches(u, i) /\ ItemTargets(item[i], action, ActorForItem(u, i), order) # {}
    THEN /\ TransitionItem(i, action, ActorForItem(u, i))
         /\ Moved(u)
         /\ hand' = [hand EXCEPT ![i] = @ \cup {u}]
    ELSE Refused(u, action \in page.item[i])

(* The payment code, which is nobody's request. *)
Payment(action) == /\ TransitionOrder(action, "payment")
                   /\ stale' = TRUE
                   /\ UNCHANGED <<parties, page, misled, hand>>

ViewNext == \/ \E u \in Users : \/ Show(u)
                                \/ \E action \in OrderEndpoints : PostOrder(u, action)
                                \/ \E i \in Items, action \in ItemEndpoints :
                                       PostItem(u, i, action)
            \/ \E action \in {"mark_paid", "fail_payment", "retry_payment"} : Payment(action)

ViewSpec == ViewInit /\ [][ViewNext]_viewVars

-----------------------------------------------------------------------------
ViewTypeOK == /\ TypeOK
              /\ parties \in Parties
              /\ page = NoPage \/ page.of \in Users
              /\ {stale, misled} \subseteq BOOLEAN
              /\ hand \in [Items -> SUBSET Users]

(* available_actions and apply_transition agree: an action that a page     *)
(* offers is accepted from its user, unless the order or an item has moved *)
(* since the page was served.                                              *)
OfferedIsAccepted == ~ misled

(* In an order of several sellers each moves his own items only, and the   *)
(* buyer alone completes them: not another seller of the same order, and   *)
(* not an administrator, whatever table, actor rule and look-up let past.  *)
EachMovesHisOwn ==
    \A i \in Items :
        /\ hand[i] \subseteq {parties.seller[i], parties.buyer}
        /\ item[i] \in {"confirmed", "shipped", "delivered"} => hand[i] = {parties.seller[i]}
        /\ item[i] = "completed" => hand[i] = {parties.seller[i], parties.buyer}

-----------------------------------------------------------------------------
(***************************************************************************)
(* What the documentation says and the code does not keep.                 *)
(***************************************************************************)
(* state_machine.py: "Every action name matches a POST endpoint under      *)
(* /api/orders/": an administrator is offered fail_payment, retry_payment  *)
(* and force_cancel, which have none.                                      *)
OfferedHasEndpoint == page.order \subseteq OrderEndpoints

(* state_machine.py: "Admin can also act as a buyer/seller when the state  *)
(* allows it: admins are permitted on any transition": not on those of     *)
(* buyer and seller.                                                       *)
AdminsArePermitted ==
    \A u \in parties.staff, t \in ORDER_TRANSITIONS :
        t.from = order => OrderTargets(order, t.action, ActorForOrder(u)) # {}

(* And not even on those of their own: of an item whose seller is a member *)
(* of the staff there is nobody who could confirm it.                      *)
PaidItemsCanGoOn ==
    order = "paid" => \A i \in Items :
        item[i] \in {"completed", "cancelled"} \/ \E u \in Users : ItemActions(u, i) # {}
=============================================================================
