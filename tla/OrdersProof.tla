----------------------------- MODULE OrdersProof -----------------------------
(***************************************************************************)
(* Proofs about one order: its two state machines (Fulfilment), the        *)
(* reviews of its items (Reviews) and who may move what (OrderViews), for  *)
(* any items, users and requests.                                          *)
(***************************************************************************)
EXTENDS Reviews, OrderViews, TLAPS

(* The three parts are inductive together: a completed order needs its     *)
(* items' statuses, a completed item the credit its order has received.    *)
Inv == TypeOK /\ OrderAndItemsAgree /\ CreditFollowsPayment

-----------------------------------------------------------------------------
(* What the two tables allow a step to be. *)
LEMMA OrderSteps ==
    ASSUME NEW s, NEW action, NEW actor, NEW to \in OrderTargets(s, action, actor)
    PROVE  \/ s = "pending_payment" /\ action = "mark_paid" /\ to = "paid"
           \/ s = "pending_payment" /\ action = "fail_payment" /\ to = "payment_failed"
           \/ s = "payment_failed" /\ action = "retry_payment" /\ to = "pending_payment"
           \/ /\ s \in {"pending_payment", "payment_failed"}
              /\ action = "cancel" /\ to = "cancelled"
           \/ s = "paid" /\ action = "refund" /\ to = "refunded"
           \/ s = "paid" /\ action = "force_cancel" /\ to = "cancelled"
<1>1. PICK u \in ORDER_TRANSITIONS : u.from = s /\ u.action = action /\ to = u.to
  BY DEF OrderTargets, Targets
<1> QED
  BY <1>1 DEF ORDER_TRANSITIONS

LEMMA ItemSteps ==
    ASSUME NEW s, NEW action, NEW actor, NEW o, NEW to \in ItemTargets(s, action, actor, o)
    PROVE  \/ o = "paid" /\ to \in {"confirmed", "shipped", "delivered"}
           \/ s = "delivered" /\ to = "completed"
<1>1. /\ to \in Targets(ITEM_TRANSITIONS, s, action, actor)
      /\ action \in NeedsPaidOrder => o = "paid"
  BY DEF ItemTargets
<1>2. PICK u \in ITEM_TRANSITIONS : u.from = s /\ u.action = action /\ to = u.to
  BY <1>1 DEF Targets
<1> QED
  BY <1>1, <1>2 DEF ITEM_TRANSITIONS, NeedsPaidOrder

-----------------------------------------------------------------------------
LEMMA InitInv == Init => Inv
BY FulfilmentAssumption
   DEF Init, Inv, TypeOK, OrderAndItemsAgree, CreditFollowsPayment, OrderStatus, ItemStatus

LEMMA TransitionOrderInv ==
    ASSUME Inv, NEW action, NEW actor, TransitionOrder(action, actor)
    PROVE  Inv'
<1> USE FulfilmentAssumption DEF Inv, TypeOK, OrderStatus, ItemStatus
<1>1. order' \in OrderTargets(order, action, actor)
  BY DEF TransitionOrder
<1>2. CASE action \in CancelActions
  <2>1. /\ order' \in {"cancelled", "refunded"}
        /\ order \in {"pending_payment", "payment_failed", "paid"}
        /\ order' = "refunded" => order = "paid"
    BY <1>1, <1>2, OrderSteps DEF CancelActions
  <2>2. item' = [i \in Items |-> "cancelled"] /\ credited' = credited
    BY <1>2 DEF TransitionOrder, Cascade, CancelActions
  <2> QED
    BY <2>1, <2>2 DEF OrderAndItemsAgree, CreditFollowsPayment
<1>3. CASE action \notin CancelActions
  <2>1. /\ order \in {"pending_payment", "payment_failed"}
        /\ \/ order' = "paid" /\ action = "mark_paid"
           \/ order' \in {"pending_payment", "payment_failed"} /\ action # "mark_paid"
    BY <1>1, <1>3, OrderSteps DEF CancelActions
  <2>2. item' = item /\ credited' = IF action = "mark_paid" THEN Items ELSE credited
    BY <1>3 DEF TransitionOrder, Cascade
  <2> QED
    BY <2>1, <2>2 DEF OrderAndItemsAgree, CreditFollowsPayment
<1> QED
  BY <1>2, <1>3

LEMMA TransitionItemInv ==
    ASSUME Inv, NEW i \in Items, NEW action, NEW actor, TransitionItem(i, action, actor)
    PROVE  Inv'
<1> USE FulfilmentAssumption DEF Inv, TypeOK
<1>1. PICK to \in ItemTargets(item[i], action, actor, order) :
          /\ item' = [item EXCEPT ![i] = to]
          /\ credited' = IF to = "completed" THEN credited \cup {i} ELSE credited
          /\ order' = SyncOrderStatus(order, item')
  BY DEF TransitionItem
<1>2. /\ to \in {"confirmed", "shipped", "delivered", "completed"}
      /\ order = "paid"
  <2>1. \/ order = "paid" /\ to \in {"confirmed", "shipped", "delivered"}
        \/ item[i] = "delivered" /\ to = "completed"
    BY <1>1, ItemSteps
  <2> QED
    BY <2>1 DEF OrderAndItemsAgree, OrderStatus
<1>3. credited = Items /\ credited' = Items
  BY <1>1, <1>2 DEF CreditFollowsPayment
<1>4. item' \in [Items -> ItemStatus] /\ \A j \in Items : item'[j] # "cancelled"
  BY <1>1, <1>2 DEF OrderAndItemsAgree, ItemStatus
<1>5. order' = IF \A j \in Items : item'[j] = "completed" THEN "completed" ELSE "paid"
  BY <1>1, <1>2 DEF SyncOrderStatus
<1> QED
  BY <1>3, <1>4, <1>5 DEF OrderAndItemsAgree, CreditFollowsPayment, OrderStatus

LEMMA NextInv == Inv /\ [Next]_vars => Inv'
<1> SUFFICES ASSUME Inv, [Next]_vars PROVE Inv'
  OBVIOUS
<1>1. CASE Next
  BY <1>1, TransitionOrderInv, TransitionItemInv DEF Next
<1>2. CASE UNCHANGED vars
  BY <1>2 DEF vars, Inv, TypeOK, OrderAndItemsAgree, CreditFollowsPayment
<1> QED
  BY <1>1, <1>2

-----------------------------------------------------------------------------
(* The statuses and the credits stay in their types. *)
THEOREM FulfilmentTypeCorrect == Spec => []TypeOK
BY InitInv, NextInv, PTL DEF Spec, Inv

(* The order and its items never contradict each other. *)
THEOREM EnvelopeAgrees == Spec => []OrderAndItemsAgree
BY InitInv, NextInv, PTL DEF Spec, Inv

(* Sellers are credited together, and exactly when the order is paid. *)
THEOREM CreditIsDue == Spec => []CreditFollowsPayment
BY InitInv, NextInv, PTL DEF Spec, Inv

-----------------------------------------------------------------------------
(***************************************************************************)
(* Reviews.                                                                *)
(***************************************************************************)
(* A request that has looked holds an item that was paid for, and credits  *)
(* are never taken back: so it is still paid for when the row is written.  *)
ReviewInv == /\ Inv
             /\ reviews \in [Items -> {0, 1}]
             /\ req \in [Requests -> credited \cup {NoItem}]
             /\ \A i \in Items : reviews[i] = 1 => i \in credited

LEMMA CreditsStay == Inv /\ Next => credited \subseteq credited'
<1> SUFFICES ASSUME Inv, Next PROVE credited \subseteq credited'
  OBVIOUS
<1>1. credited \subseteq Items
  BY DEF Inv, TypeOK
<1> QED
  BY <1>1 DEF Next, TransitionOrder, TransitionItem

LEMMA CompletedIsCredited ==
    ASSUME Inv, NEW i \in Items, item[i] = "completed"
    PROVE  i \in credited
<1>1. order \in {"paid", "completed"} => credited = Items
  BY DEF Inv, CreditFollowsPayment
<1>2. order \in {"paid", "completed"}
  BY DEF Inv, TypeOK, OrderAndItemsAgree, OrderStatus
<1> QED
  BY <1>1, <1>2

LEMMA ReviewInitInv == ReviewInit => ReviewInv
BY InitInv DEF ReviewInit, ReviewInv

LEMMA ValidateInv ==
    ASSUME ReviewInv, NEW r \in Requests, NEW user, NEW i \in Items, Validate(r, user, i)
    PROVE  ReviewInv'
<1>1. i \in credited
  BY CompletedIsCredited DEF Validate, MayReview, ReviewInv
<1> QED
  BY <1>1 DEF Validate, ReviewInv, vars, Inv, TypeOK, OrderAndItemsAgree, CreditFollowsPayment

LEMMA CreateInv ==
    ASSUME ReviewInv, NEW r \in Requests, Create(r)
    PROVE  ReviewInv'
<1>1. req[r] \in credited /\ credited \subseteq Items
  BY DEF Create, ReviewInv, Inv, TypeOK
<1> QED
  BY <1>1 DEF Create, ReviewInv, vars, Inv, TypeOK, OrderAndItemsAgree, CreditFollowsPayment

LEMMA ReviewNextInv == ReviewInv /\ [ReviewNext]_reviewVars => ReviewInv'
<1> SUFFICES ASSUME ReviewInv, [ReviewNext]_reviewVars PROVE ReviewInv'
  OBVIOUS
<1>1. CASE Next /\ UNCHANGED <<reviews, req>>
  <2>1. Inv' /\ credited \subseteq credited'
    BY <1>1, NextInv, CreditsStay DEF ReviewInv
  <2> QED
    BY <1>1, <2>1 DEF ReviewInv
<1>2. CASE \E r \in Requests, user \in {"buyer", "other"}, i \in Items : Validate(r, user, i)
  BY <1>2, ValidateInv
<1>3. CASE \E r \in Requests : Create(r)
  BY <1>3, CreateInv
<1>4. CASE UNCHANGED reviewVars
  BY <1>4 DEF reviewVars, vars, ReviewInv, Inv, TypeOK, OrderAndItemsAgree, CreditFollowsPayment
<1> QED
  BY <1>1, <1>2, <1>3, <1>4 DEF ReviewNext

-----------------------------------------------------------------------------
(* Whatever the order goes through between the look and the insert, a      *)
(* reviewed item was paid for, and has one review.                         *)
THEOREM ReviewsAreOfSales == ReviewSpec => []ReviewedWasBought
<1>1. ReviewInv => ReviewedWasBought
  BY DEF ReviewInv, ReviewedWasBought
<1> QED
  BY <1>1, ReviewInitInv, ReviewNextInv, PTL DEF ReviewSpec

-----------------------------------------------------------------------------
(***************************************************************************)
(* Pages and users.                                                        *)
(***************************************************************************)
(* What a page that is not stale shows is what its user may do now. *)
PageIsCurrent ==
    ~ stale => \/ page = NoPage
               \/ \E u \in Users : IsParty(u) /\ page = Page(u)

(* EachMovesHisOwn, and nobody has moved a pending item. *)
Hands == /\ EachMovesHisOwn
         /\ \A i \in Items : item[i] = "pending" => hand[i] = {}

ViewInv == /\ Inv
           /\ parties \in Parties /\ hand \in [Items -> SUBSET Users]
           /\ PageIsCurrent
           /\ Hands
           /\ ~ misled

-----------------------------------------------------------------------------
(* The seller moves an item up to its delivery, the buyer completes it. *)
LEMMA ItemMover ==
    ASSUME NEW s, NEW action, NEW actor, NEW o, NEW to \in ItemTargets(s, action, actor, o)
    PROVE  \/ s = "pending" /\ to = "confirmed" /\ actor = "seller"
           \/ s = "confirmed" /\ to = "shipped" /\ actor = "seller"
           \/ s = "shipped" /\ to = "delivered" /\ actor = "seller"
           \/ s = "delivered" /\ to = "completed" /\ actor = "buyer"
<1>1. to \in Targets(ITEM_TRANSITIONS, s, action, actor)
  BY DEF ItemTargets
<1>2. PICK u \in ITEM_TRANSITIONS : /\ u.from = s /\ to = u.to
                                    /\ Permitted(u.actor, actor)
  BY <1>1 DEF Targets
<1> QED
  BY <1>2 DEF ITEM_TRANSITIONS, Permitted

(* An action that available_actions lists is one apply_transition takes. *)
LEMMA OfferedOrderAction ==
    ASSUME NEW u, NEW action \in OrderOffers(u)
    PROVE  OrderTargets(order, action, ActorForOrder(u)) # {}
BY DEF OrderOffers, OrderTargets, Targets

LEMMA OfferedItemAction ==
    ASSUME NEW u, NEW i \in Items, NEW action \in ItemActions(u, i)
    PROVE  ItemTargets(item[i], action, ActorForItem(u, i), order) # {}
<1>1. PICK e \in ITEM_TRANSITIONS :
          /\ e.from = item[i] /\ Permitted(e.actor, ActorForItem(u, i)) /\ e.action = action
          /\ action \in NeedsPaidOrder => order = "paid"
  BY DEF ItemActions
<1> QED
  BY <1>1 DEF ItemTargets, Targets

-----------------------------------------------------------------------------
LEMMA ViewInitInv == ViewInit => ViewInv
<1> SUFFICES ASSUME ViewInit PROVE ViewInv
  OBVIOUS
<1>1. Inv /\ \A i \in Items : item[i] = "pending"
  BY InitInv DEF ViewInit, Init
<1> QED
  BY <1>1 DEF ViewInit, ViewInv, PageIsCurrent, Hands, EachMovesHisOwn

(* A step that renews the page or knows it for stale. *)
LEMMA MovedIsCurrent ==
    ASSUME ViewInv, NEW u \in Users, IsParty(u), Moved(u)
    PROVE  PageIsCurrent' /\ ~ misled' /\ parties' = parties
<1>1. parties' = parties /\ misled' = misled
  BY DEF Moved
<1>2. IsParty(u)'
  BY <1>1 DEF IsParty
<1>3. PageIsCurrent'
  BY <1>2 DEF Moved, PageIsCurrent
<1> QED
  BY <1>1, <1>3 DEF ViewInv

(* A refusal contradicts no page that is current. *)
LEMMA RefusedInv ==
    ASSUME ViewInv, NEW u \in Users, NEW offered \in BOOLEAN, Refused(u, offered),
           page.of = u /\ offered => stale
    PROVE  ViewInv'
<1>1. ~ misled' /\ UNCHANGED <<order, item, credited, parties, page, stale, hand>>
  BY DEF Refused, ViewInv, vars
<1> QED
  BY <1>1 DEF ViewInv, Inv, TypeOK, OrderAndItemsAgree, CreditFollowsPayment, PageIsCurrent,
              Hands, EachMovesHisOwn, IsParty, Page, OrderOffers, ItemActions, VisibleItems,
              ActorForOrder, ActorForItem

(* transition_order cancels items or leaves them as they are. *)
LEMMA OrderKeepsHands ==
    ASSUME ViewInv, NEW action, NEW actor, TransitionOrder(action, actor),
           UNCHANGED <<parties, hand>>
    PROVE  Hands'
<1>1. \A i \in Items : item'[i] = "cancelled" \/ item'[i] = item[i]
  BY DEF TransitionOrder, Cascade, ViewInv, Inv, TypeOK
<1> QED
  BY <1>1 DEF ViewInv, Hands, EachMovesHisOwn

-----------------------------------------------------------------------------
LEMMA PostOrderInv ==
    ASSUME ViewInv, NEW u \in Users, NEW action, PostOrder(u, action)
    PROVE  ViewInv'
<1>1. CASE IsParty(u) /\ OrderTargets(order, action, ActorForOrder(u)) # {}
  <2>1. TransitionOrder(action, ActorForOrder(u)) /\ Moved(u) /\ hand' = hand
    BY <1>1 DEF PostOrder
  <2>2. Inv'
    BY <2>1, TransitionOrderInv DEF ViewInv
  <2>3. PageIsCurrent' /\ ~ misled' /\ parties' = parties
    BY <1>1, <2>1, MovedIsCurrent
  <2>4. Hands'
    BY <2>1, <2>3, OrderKeepsHands
  <2> QED
    BY <2>1, <2>2, <2>3, <2>4 DEF ViewInv
<1>2. CASE ~ (IsParty(u) /\ OrderTargets(order, action, ActorForOrder(u)) # {})
  <2>1. Refused(u, action \in page.order)
    BY <1>2 DEF PostOrder
  <2>2. ASSUME page.of = u, action \in page.order, ~ stale PROVE FALSE
    <3>1. PICK v \in Users : IsParty(v) /\ page = Page(v)
      BY <2>2 DEF ViewInv, PageIsCurrent, NoPage
    <3>2. v = u /\ action \in OrderOffers(u)
      BY <2>2, <3>1 DEF Page
    <3> QED
      BY <1>2, <3>1, <3>2, OfferedOrderAction
  <2>3. page.of = u /\ action \in page.order => stale
    BY <2>2
  <2>4. (action \in page.order) \in BOOLEAN
    OBVIOUS
  <2> QED
    BY <2>1, <2>3, <2>4, RefusedInv
<1> QED
  BY <1>1, <1>2

LEMMA PostItemInv ==
    ASSUME ViewInv, NEW u \in Users, NEW i \in Items, NEW action, PostItem(u, i, action)
    PROVE  ViewInv'
<1> DEFINE accepted == /\ Reaches(u, i)
                       /\ ItemTargets(item[i], action, ActorForItem(u, i), order) # {}
<1>1. CASE accepted
  <2>1. /\ TransitionItem(i, action, ActorForItem(u, i))
        /\ Moved(u)
        /\ hand' = [hand EXCEPT ![i] = @ \cup {u}]
    BY <1>1 DEF PostItem
  <2>2. IsParty(u)
    BY <1>1 DEF IsParty, Reaches
  <2>3. PageIsCurrent' /\ ~ misled' /\ parties' = parties
    BY <2>1, <2>2, MovedIsCurrent
  <2>4. Inv'
    BY <2>1, TransitionItemInv DEF ViewInv
  <2>5. Hands'
    <3>1. PICK to \in ItemTargets(item[i], action, ActorForItem(u, i), order) :
              item' = [item EXCEPT ![i] = to]
      BY <2>1 DEF TransitionItem
    <3>2. /\ hand \in [Items -> SUBSET Users] /\ item \in [Items -> ItemStatus]
          /\ Hands
      BY DEF ViewInv, Inv, TypeOK
    <3>3. \/ /\ item[i] = "pending" /\ to = "confirmed"
             /\ ActorForItem(u, i) = "seller"
          \/ /\ item[i] = "confirmed" /\ to = "shipped"
             /\ ActorForItem(u, i) = "seller"
          \/ /\ item[i] = "shipped" /\ to = "delivered"
             /\ ActorForItem(u, i) = "seller"
          \/ /\ item[i] = "delivered" /\ to = "completed"
             /\ ActorForItem(u, i) = "buyer"
      BY <3>1, ItemMover
    <3>4. /\ ActorForItem(u, i) = "seller" => u = parties.seller[i]
          /\ ActorForItem(u, i) = "buyer" => u = parties.buyer
      BY DEF ActorForItem
    <3>5. /\ hand'[i] = hand[i] \cup {u} /\ item'[i] = to
          /\ \A j \in Items \ {i} : hand'[j] = hand[j] /\ item'[j] = item[j]
      BY <2>1, <3>1, <3>2
    <3>6. /\ hand'[i] \subseteq {parties.seller[i], parties.buyer}
          /\ to \in {"confirmed", "shipped", "delivered"} => hand'[i] = {parties.seller[i]}
          /\ to = "completed" => hand'[i] = {parties.seller[i], parties.buyer}
          /\ to # "pending"
      BY <3>2, <3>3, <3>4, <3>5 DEF Hands, EachMovesHisOwn
    <3> QED
      BY <2>3, <3>2, <3>5, <3>6 DEF Hands, EachMovesHisOwn
  <2> QED
    BY <2>1, <2>3, <2>4, <2>5 DEF ViewInv
<1>2. CASE ~ accepted
  <2>1. Refused(u, action \in page.item[i])
    BY <1>2 DEF PostItem
  <2>2. ASSUME page.of = u, action \in page.item[i], ~ stale PROVE FALSE
    <3>1. PICK v \in Users : IsParty(v) /\ page = Page(v)
      BY <2>2 DEF ViewInv, PageIsCurrent, NoPage
    <3>2. v = u /\ i \in VisibleItems(u) /\ action \in ItemActions(u, i)
      BY <2>2, <3>1 DEF Page
    <3>3. Reaches(u, i)
      BY <3>2 DEF VisibleItems, Reaches
    <3> QED
      BY <1>2, <3>2, <3>3, OfferedItemAction
  <2>3. page.of = u /\ action \in page.item[i] => stale
    BY <2>2
  <2>4. (action \in page.item[i]) \in BOOLEAN
    OBVIOUS
  <2> QED
    BY <2>1, <2>3, <2>4, RefusedInv
<1> QED
  BY <1>1, <1>2

LEMMA ShowInv == ASSUME ViewInv, NEW u \in Users, Show(u) PROVE ViewInv'
<1>1. UNCHANGED <<order, item, credited, parties, misled, hand>>
  BY DEF Show, vars
<1>2. IsParty(u)' /\ page' = Page(u)'
  BY <1>1 DEF Show, IsParty, Page, OrderOffers, ItemActions, VisibleItems, ActorForOrder, ActorForItem
<1> QED
  BY <1>1, <1>2 DEF ViewInv, Inv, TypeOK, OrderAndItemsAgree, CreditFollowsPayment,
                    PageIsCurrent, Hands, EachMovesHisOwn

LEMMA PaymentInv == ASSUME ViewInv, NEW action, Payment(action) PROVE ViewInv'
<1>1. Inv'
  BY TransitionOrderInv DEF Payment, ViewInv
<1>2. Hands'
  BY OrderKeepsHands DEF Payment
<1> QED
  BY <1>1, <1>2 DEF Payment, ViewInv, PageIsCurrent

LEMMA ViewNextInv == ViewInv /\ [ViewNext]_viewVars => ViewInv'
<1> SUFFICES ASSUME ViewInv, [ViewNext]_viewVars PROVE ViewInv'
  OBVIOUS
<1>1. CASE ViewNext
  BY <1>1, ShowInv, PostOrderInv, PostItemInv, PaymentInv DEF ViewNext
<1>2. CASE UNCHANGED viewVars
  BY <1>2 DEF viewVars, vars, ViewInv, Inv, TypeOK, OrderAndItemsAgree, CreditFollowsPayment,
              PageIsCurrent, Hands, EachMovesHisOwn, IsParty, Page, OrderOffers,
              ItemActions, VisibleItems, ActorForOrder, ActorForItem
<1> QED
  BY <1>1, <1>2

-----------------------------------------------------------------------------
(* Of any order, whoever looks and whoever acts: an offered action is      *)
(* refused only after somebody has moved on.                               *)
THEOREM OffersAreHonest == ViewSpec => []OfferedIsAccepted
<1>1. ViewInv => OfferedIsAccepted
  BY DEF ViewInv, OfferedIsAccepted
<1> QED
  BY <1>1, ViewInitInv, ViewNextInv, PTL DEF ViewSpec

(* Sellers move their own items only, and the buyer alone completes them.  *)
THEOREM OwnItemsOnly == ViewSpec => []EachMovesHisOwn
<1>1. ViewInv => EachMovesHisOwn
  BY DEF ViewInv, Hands
<1> QED
  BY <1>1, ViewInitInv, ViewNextInv, PTL DEF ViewSpec
=============================================================================
