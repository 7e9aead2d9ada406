------------------------------ MODULE Checkout ------------------------------
(***************************************************************************)
(* From the listing through the cart to the paid order: catalog/views.py   *)
(* and serializers.py (a seller edits a product), cart/views.py and        *)
(* services.py, create_order_from_cart, and what a payment does to the     *)
(* products and carts (transition_order).                                  *)
(*                                                                         *)
(* A request validates, or reads, in one step and writes in a later one:   *)
(* the server runs in autocommit mode and only create_order_from_cart's    *)
(* writes are one transaction.  Quantities, prices and the carts of        *)
(* visitors who have not signed in are left out.                           *)
(*                                                                         *)
(* An operator whose name starts with Mut is a seeded fault: a variant of  *)
(* the definition after it that some property has to tell from the code.   *)
(***************************************************************************)
EXTENDS Naturals, FiniteSets, OrderStateMachine

CONSTANTS Users, Products,
          SellerOf,     \* the seller of each product
          Orders,       \* identities of orders
          Requests,     \* request threads
          MaxAdds       \* bound: how often a user puts one product in the cart

ASSUME CheckoutAssumption == SellerOf \in [Products -> Users] /\ MaxAdds \in Nat

VARIABLES listing,      \* Product.status
          cart,         \* the products in each user's cart
          orders,       \* the Order rows: status, buyer, ordered products
          thread,       \* what each request has validated or read
          adds,         \* history: times a user has put a product in the cart
          sold          \* history: products an order has been paid for

vars == <<listing, cart, orders, thread, adds, sold>>

ProductStatus == {"DRAFT", "ACTIVE", "SOLD", "INACTIVE"}

NoOrder == [status |-> "none", buyer |-> "none", lines |-> {}]

Work(pc, who, what, lines, status) ==
    [pc |-> pc, who |-> who, what |-> what, lines |-> lines, status |-> status]

Idle == Work("idle", "none", "none", {}, "none")

Init == /\ listing \in [Products -> {"DRAFT", "ACTIVE"}]
        /\ cart = [u \in Users |-> {}]
        /\ orders = [o \in Orders |-> NoOrder]
        /\ thread = [r \in Requests |-> Idle]
        /\ adds = [u \in Users |-> [p \in Products |-> 0]]
        /\ sold = {}

Start(r, work) == thread[r].pc = "idle" /\ thread' = [thread EXCEPT ![r] = work]
Finish(r)      == thread' = [thread EXCEPT ![r] = Idle]

-----------------------------------------------------------------------------
(***************************************************************************)
(* The cart.  get_current_cart, which every cart request goes through,     *)
(* first drops what is sold, withdrawn or the user's own.                  *)
(***************************************************************************)
Purged(u) == {p \in cart[u] : listing[p] \notin {"SOLD", "INACTIVE"} /\ SellerOf[p] # u}

SetCart(u, products) == cart' = [cart EXCEPT ![u] = products]

ViewCart(u) == /\ SetCart(u, Purged(u))
               /\ UNCHANGED <<listing, orders, thread, adds, sold>>

RemoveItem(u, p) == /\ p \in Purged(u)
                    /\ SetCart(u, Purged(u) \ {p})
                    /\ UNCHANGED <<listing, orders, thread, adds, sold>>

(* CartItemSerializer.validate, then perform_create. *)
AddCheck(r, u, p) == /\ listing[p] = "ACTIVE"
                     /\ SellerOf[p] # u
                     /\ Start(r, Work("adding", u, p, {}, "none"))
                     /\ UNCHANGED <<listing, cart, orders, adds, sold>>

(* A second row for the same product violates unique_cart_product_...: the *)
(* purge stays, the insert fails.                                          *)
AddSave(r) ==
    LET u == thread[r].who
        p == thread[r].what IN
    /\ thread[r].pc = "adding"
    /\ adds[u][p] < MaxAdds
    /\ SetCart(u, Purged(u) \cup {p})
    /\ adds' = IF p \in Purged(u) THEN adds ELSE [adds EXCEPT ![u][p] = @ + 1]
    /\ Finish(r)
    /\ UNCHANGED <<listing, orders, sold>>

-----------------------------------------------------------------------------
(***************************************************************************)
(* create_order_from_cart                                                  *)
(***************************************************************************)
OrderBegin(r, u) == /\ Start(r, Work("ordering", u, "none", {}, "none"))
                    /\ SetCart(u, Purged(u))
                    /\ UNCHANGED <<listing, orders, adds, sold>>

(* The lines are read before the transaction starts; an empty cart or a    *)
(* product of one's own is refused.                                        *)
OrderRead(r) ==
    LET u == thread[r].who IN
    /\ thread[r].pc = "ordering"
    /\ IF cart[u] = {} \/ \E p \in cart[u] : SellerOf[p] = u
       THEN Finish(r)
       ELSE thread' = [thread EXCEPT ![r].pc = "read", ![r].lines = cart[u]]
    /\ UNCHANGED <<listing, cart, orders, adds, sold>>

(* Order, items, and cart.flush(), which deletes what the cart holds now.  *)
MutOrderCreateKeepsCart(r, o) ==
    LET u == thread[r].who IN
    /\ thread[r].pc = "read"
    /\ orders[o].status = "none"
    /\ orders' = [orders EXCEPT ![o] = [status |-> "pending_payment", buyer |-> u,
                                        lines |-> thread[r].lines]]
    /\ Finish(r)
    /\ UNCHANGED <<listing, cart, adds, sold>>
OrderCreate(r, o) ==
    LET u == thread[r].who IN
    /\ thread[r].pc = "read"
    /\ orders[o].status = "none"
    /\ orders' = [orders EXCEPT ![o] = [status |-> "pending_payment", buyer |-> u,
                                        lines |-> thread[r].lines]]
    /\ SetCart(u, {})
    /\ Finish(r)
    /\ UNCHANGED <<listing, adds, sold>>

-----------------------------------------------------------------------------
(***************************************************************************)
(* transition_order.  A payment takes every product of the order off sale  *)
(* and out of all carts, whoever has ordered it too.                       *)
(***************************************************************************)
PayOrder(o, actor) ==
    LET lines == orders[o].lines IN
    /\ \E to \in OrderTargets(orders[o].status, "mark_paid", actor) :
           orders' = [orders EXCEPT ![o].status = to]
    /\ listing' = [p \in Products |-> IF p \in lines THEN "SOLD" ELSE listing[p]]
    /\ cart' = [u \in Users |-> cart[u] \ lines]
    /\ sold' = sold \cup lines
    /\ UNCHANGED <<thread, adds>>

(* Every other order action leaves products and carts alone; a cancelled   *)
(* or refunded order does not put its products on sale again.              *)
MoveOrder(o, action, actor) ==
    /\ action # "mark_paid"
    /\ \E to \in OrderTargets(orders[o].status, action, actor) :
           orders' = [orders EXCEPT ![o].status = to]
    /\ UNCHANGED <<listing, cart, thread, adds, sold>>

-----------------------------------------------------------------------------
(***************************************************************************)
(* ProductViewSet.  A PATCH reads the row, validates, and writes the whole *)
(* row back; without "status" in the request it writes the status it read. *)
(***************************************************************************)
MutEditRead(r, p, asked) ==
    /\ asked \in {"DRAFT", "ACTIVE", "INACTIVE", "SOLD", "none"}
    /\ Start(r, Work(IF asked = "none" THEN "editing" ELSE "moving", SellerOf[p], p, {},
                     IF asked = "none" THEN listing[p] ELSE asked))
    /\ UNCHANGED <<listing, cart, orders, adds, sold>>
EditRead(r, p, asked) ==
    /\ asked \in {"DRAFT", "ACTIVE", "INACTIVE", "none"}
    /\ Start(r, Work(IF asked = "none" THEN "editing" ELSE "moving", SellerOf[p], p, {},
                     IF asked = "none" THEN listing[p] ELSE asked))
    /\ UNCHANGED <<listing, cart, orders, adds, sold>>

EditSave(r) == /\ thread[r].pc \in {"editing", "moving"}
               /\ listing' = [listing EXCEPT ![thread[r].what] = thread[r].status]
               /\ Finish(r)
               /\ UNCHANGED <<cart, orders, adds, sold>>

(* destroy, and the administrator's product removal: a soft delete. *)
Remove(p) == /\ listing' = [listing EXCEPT ![p] = "INACTIVE"]
             /\ UNCHANGED <<cart, orders, thread, adds, sold>>

(* The process dies, or the client's connection breaks the request. *)
Crash(r) == /\ thread[r].pc # "idle"
            /\ Finish(r)
            /\ UNCHANGED <<listing, cart, orders, adds, sold>>

-----------------------------------------------------------------------------
Next == \/ \E u \in Users : ViewCart(u) \/ \E p \in Products : RemoveItem(u, p)
        \/ \E p \in Products : Remove(p)
        \/ \E r \in Requests :
              \/ \E u \in Users : OrderBegin(r, u) \/ \E p \in Products : AddCheck(r, u, p)
              \/ \E p \in Products, asked \in ProductStatus \cup {"none"} : EditRead(r, p, asked)
              \/ AddSave(r) \/ OrderRead(r) \/ EditSave(r) \/ Crash(r)
              \/ \E o \in Orders : OrderCreate(r, o)
        \/ \E o \in Orders, actor \in Actor :
              \/ PayOrder(o, actor)
              \/ \E action \in {t.action : t \in ORDER_TRANSITIONS} :
                     MoveOrder(o, action, actor)

Spec == Init /\ [][Next]_vars

-----------------------------------------------------------------------------
TypeOK == /\ listing \in [Products -> ProductStatus]
          /\ cart \in [Users -> SUBSET Products]
          /\ orders \in [Orders -> [status : OrderStatus, buyer : Users,
                                    lines : (SUBSET Products) \ {{}}] \cup {NoOrder}]
          /\ thread \in [Requests ->
                           [pc : {"idle", "adding", "ordering", "read", "editing", "moving"},
                            who : Users \cup {"none"}, what : Products \cup {"none"},
                            lines : SUBSET Products, status : ProductStatus \cup {"none"}]]
          /\ adds \in [Users -> [Products -> 0..MaxAdds]]
          /\ sold \subseteq Products

(* Only a sale makes a product SOLD: whatever a seller asks for, and       *)
(* however stale the row that a PATCH writes back, a SOLD product is one   *)
(* that some order has been paid for (serializers.py, validate_status and  *)
(* validate).                                                              *)
SoldMeansBought == \A p \in Products : listing[p] = "SOLD" => p \in sold

(* A cart line is ordered once: a user has never more orders for a product *)
(* than times the product was put in the cart.                             *)
CartLineOrderedOnce ==
    \A u \in Users, p \in Products :
        Cardinality({o \in Orders : orders[o].buyer = u /\ p \in orders[o].lines})
            <= adds[u][p]

(* Placing an order empties the cart into the order: nothing is deleted    *)
(* that the order does not hold.                                           *)
FlushedIsOrdered ==
    [][\A r \in Requests, o \in Orders :
           OrderCreate(r, o) => cart[thread[r].who] \subseteq orders'[o].lines]_vars

(* A product that has been paid for is on sale again only if somebody has  *)
(* asked for that status.                                                  *)
SoldStaysOffSale ==
    [][\A p \in Products : listing[p] = "SOLD" /\ listing'[p] # "SOLD"
           => \/ Remove(p)
              \/ \E r \in Requests : EditSave(r) /\ thread[r].pc = "moving"]_vars

(* A product that is SOLD is not sold again. *)
SoldIsNotSoldAgain ==
    [][\A p \in Products, o \in Orders :
           listing[p] = "SOLD" /\ p \in orders[o].lines
               => ~ (orders[o].status # "paid" /\ orders'[o].status = "paid")]_vars
=============================================================================
