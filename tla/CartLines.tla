------------------------------ MODULE CartLines ------------------------------
(***************************************************************************)
(* The quantities in a customer's two carts: the one of the browser's      *)
(* session, filled before signing in, and the one of the account, into     *)
(* which the first is merged when an order is created (cart/services.py,   *)
(* cart/views.py, orders/views.py).  Checkout has the rest of the way to   *)
(* the order; here every product stays on sale.                            *)
(*                                                                         *)
(* The merge's writes are one transaction and one step: what it reads of   *)
(* another merge that has yet to commit makes it fail, or write the same   *)
(* quantity again.  But it has read the lines of the anonymous cart        *)
(* before.  PATCH reads the row, validates, and saves the whole of it.     *)
(***************************************************************************)
EXTENDS Naturals, FiniteSets, FiniteSetsExt

CONSTANTS Products,
          Requests,
          MAX_QUANTITY,   \* 100 in the code
          MaxRows,        \* bound: CartItem rows of the account's cart
          MaxChosen       \* bound: what is chosen, and ordered, of one product

VARIABLES own,        \* the products the customer sells
          visitor,    \* the anonymous cart: state, and quantity of each product
          line,       \* the account's cart: row id and quantity of each product
          rows,       \* row ids given out
          req,        \* what each request has read
          chosen,     \* history: the quantity the customer has chosen
          ordered,    \* history: the quantity ordered
          crossed,    \* history: a request ran while another was under way
          capped      \* history: a merge cut a quantity down

vars == <<own, visitor, line, rows, req, chosen, ordered, crossed, capped>>

Quantity == 0..MAX_QUANTITY
Empty  == [p \in Products |-> 0]
NoLine == [id |-> 0, qty |-> 0]

Idle == [pc |-> "idle", lines |-> Empty, product |-> "none", row |-> NoLine]

NoCart == [state |-> "none", qty |-> Empty]

Init == /\ own \in SUBSET Products
        /\ visitor = NoCart
        /\ line = [p \in Products |-> NoLine]
        /\ rows = 0
        /\ req = [r \in Requests |-> Idle]
        /\ chosen = Empty /\ ordered = Empty
        /\ crossed = FALSE /\ capped = FALSE

InCart(p) == line[p].id # 0

Go(r, work) == req' = [req EXCEPT ![r] = work]
End(r) == Go(r, Idle)

Busy == \E r \in Requests : req[r].pc # "idle"

Begin(r, work) == /\ req[r].pc = "idle"
                  /\ Go(r, work)
                  /\ crossed' = (crossed \/ Busy)

Choose(p, n) == /\ chosen[p] + n <= MaxChosen
                /\ chosen' = [chosen EXCEPT ![p] = @ + n]

-----------------------------------------------------------------------------
(***************************************************************************)
(* Filling the carts.  A second row for a product is refused by the        *)
(* database (for lines without attributes, the only ones modelled), a      *)
(* product of the customer's own by the serializer, once it knows him.  An *)
(* anonymous cart that has expired is not found, and not created anew: its *)
(* session key is taken.                                                   *)
(***************************************************************************)
VisitorAdds(p, n) ==
    /\ visitor.state # "expired" /\ visitor.qty[p] = 0
    /\ Choose(p, n)
    /\ visitor' = [state |-> "live", qty |-> [visitor.qty EXCEPT ![p] = n]]
    /\ crossed' = (crossed \/ Busy)
    /\ UNCHANGED <<line, rows, req, ordered, capped>>

VisitorLooks == /\ visitor.state = "none"
                /\ visitor' = [visitor EXCEPT !.state = "live"]
                /\ UNCHANGED <<line, rows, req, chosen, ordered, crossed, capped>>

Expires == /\ visitor.state = "live"
           /\ visitor' = [visitor EXCEPT !.state = "expired"]
           /\ UNCHANGED <<line, rows, req, chosen, ordered, crossed, capped>>

UserAdds(p, n) ==
    /\ p \notin own
    /\ ~ InCart(p) /\ rows < MaxRows
    /\ Choose(p, n)
    /\ line' = [line EXCEPT ![p] = [id |-> rows + 1, qty |-> n]]
    /\ rows' = rows + 1
    /\ crossed' = (crossed \/ Busy)
    /\ UNCHANGED <<visitor, req, ordered, capped>>

UserRemoves(p) ==
    /\ InCart(p)
    /\ line' = [line EXCEPT ![p] = NoLine]
    /\ chosen' = [chosen EXCEPT ![p] = IF @ >= line[p].qty THEN @ - line[p].qty ELSE 0]
    /\ crossed' = (crossed \/ Busy)
    /\ UNCHANGED <<visitor, rows, req, ordered, capped>>

(* PATCH: get_object, then serializer.save(), which updates the row, or    *)
(* inserts it again if it is gone - unless there is a new one.             *)
PatchRead(r, p) ==
    /\ InCart(p)
    /\ Begin(r, [Idle EXCEPT !.pc = "patch", !.product = p, !.row = line[p]])
    /\ UNCHANGED <<visitor, line, rows, chosen, ordered, capped>>

PatchSave(r, n) ==
    LET p == req[r].product
        row == req[r].row IN
    /\ req[r].pc = "patch"
    /\ IF line[p].id \in {0, row.id}
       THEN /\ n > row.qty => chosen[p] + (n - row.qty) <= MaxChosen
            /\ line' = [line EXCEPT ![p] = [id |-> row.id, qty |-> n]]
            /\ chosen' = [chosen EXCEPT ![p] = IF n >= row.qty THEN @ + (n - row.qty)
                                               ELSE IF @ >= row.qty - n THEN @ - (row.qty - n)
                                               ELSE 0]
       ELSE UNCHANGED <<line, chosen>>
    /\ End(r)
    /\ UNCHANGED <<visitor, rows, ordered, crossed, capped>>

-----------------------------------------------------------------------------
(***************************************************************************)
(* POST /api/orders/: merge_anonymous_cart_to_user, then the order.  An    *)
(* expired cart is merged like any other.                                  *)
(***************************************************************************)
MergeRead(r) ==
    /\ Begin(r, [Idle EXCEPT !.pc = IF visitor.qty = Empty THEN "read" ELSE "merge",
                             !.lines = visitor.qty])
    /\ UNCHANGED <<visitor, line, rows, chosen, ordered, capped>>

Lowest(a, b) == IF a < b THEN a ELSE b

(* The customer's own products are passed over: they are no longer chosen. *)
Bought(lines) == [p \in Products |-> IF p \in own THEN 0 ELSE lines[p]]

New(lines) == {p \in Products : lines[p] > 0 /\ ~ InCart(p)}

(* The new rows are numbered in the order of the list. *)
Merged(lines) ==
    {merged \in [Products -> [id : 0..MaxRows, qty : Quantity]] :
        /\ \A p \in Products :
              merged[p].qty = Lowest(line[p].qty + lines[p], MAX_QUANTITY)
        /\ \A p \in Products \ New(lines) : merged[p].id = line[p].id
        /\ {merged[p].id : p \in New(lines)} = (rows + 1)..(rows + Cardinality(New(lines)))}

MutMergeWrite(r) ==
    LET lines == Bought(req[r].lines) IN
    /\ req[r].pc = "merge"
    /\ rows + Cardinality(New(lines)) <= MaxRows
    /\ line' \in Merged(lines)
    /\ rows' = rows + Cardinality(New(lines))
    /\ capped' = (capped \/ \E p \in Products : line[p].qty + lines[p] > MAX_QUANTITY)
    /\ chosen' = [p \in Products |-> IF p \in own THEN 0 ELSE chosen[p]]
    /\ Go(r, [Idle EXCEPT !.pc = "read"])
    /\ UNCHANGED <<visitor, ordered, crossed>>
MergeWrite(r) ==
    LET lines == Bought(req[r].lines) IN
    /\ req[r].pc = "merge"
    /\ rows + Cardinality(New(lines)) <= MaxRows
    /\ line' \in Merged(lines)
    /\ rows' = rows + Cardinality(New(lines))
    /\ capped' = (capped \/ \E p \in Products : line[p].qty + lines[p] > MAX_QUANTITY)
    /\ visitor' = NoCart
    /\ chosen' = [p \in Products |-> IF p \in own THEN 0 ELSE chosen[p]]
    /\ Go(r, [Idle EXCEPT !.pc = "read"])
    /\ UNCHANGED <<ordered, crossed>>

Quantities == [p \in Products |-> line[p].qty]

(* create_order_from_cart: reads the lines; an empty cart is refused. *)
OrderRead(r) ==
    /\ req[r].pc = "read"
    /\ IF Quantities = Empty THEN End(r)
       ELSE Go(r, [Idle EXCEPT !.pc = "order", !.lines = Quantities])
    /\ UNCHANGED <<visitor, line, rows, chosen, ordered, crossed, capped>>

(* The order, its items, and cart.flush(). *)
OrderWrite(r) ==
    /\ req[r].pc = "order"
    /\ \A p \in Products : ordered[p] + req[r].lines[p] <= MaxChosen
    /\ ordered' = [p \in Products |-> ordered[p] + req[r].lines[p]]
    /\ line' = [p \in Products |-> NoLine]
    /\ End(r)
    /\ UNCHANGED <<visitor, rows, chosen, crossed, capped>>

Crash(r) == /\ req[r].pc # "idle"
            /\ End(r)
            /\ UNCHANGED <<visitor, line, rows, chosen, ordered, crossed, capped>>

Next ==
    /\ UNCHANGED own
    /\ \/ \E p \in Products, n \in 1..MAX_QUANTITY : VisitorAdds(p, n) \/ UserAdds(p, n)
       \/ \E p \in Products : UserRemoves(p)
       \/ VisitorLooks \/ Expires
       \/ \E r \in Requests : \/ \E p \in Products : PatchRead(r, p)
                              \/ \E n \in 1..MAX_QUANTITY : PatchSave(r, n)
                              \/ MergeRead(r) \/ MergeWrite(r)
                              \/ OrderRead(r) \/ OrderWrite(r) \/ Crash(r)

Spec == Init /\ [][Next]_vars

-----------------------------------------------------------------------------
TypeOK == /\ own \subseteq Products
          /\ visitor \in [state : {"none", "live", "expired"}, qty : [Products -> Quantity]]
          /\ line \in [Products -> [id : 0..MaxRows, qty : Quantity]]
          /\ rows \in 0..MaxRows
          /\ \A r \in Requests :
                /\ req[r].pc \in {"idle", "patch", "merge", "read", "order"}
                /\ req[r].lines \in [Products -> Quantity]
                /\ req[r].product \in Products \cup {"none"}
          /\ chosen \in [Products -> Nat] /\ ordered \in [Products -> Nat]
          /\ crossed \in BOOLEAN /\ capped \in BOOLEAN

(* What a customer has chosen is in one of the carts or ordered, once:     *)
(* signing in, merging, an expired cart and a crash between any two steps  *)
(* neither lose nor repeat it, as long as the customer's requests come one *)
(* after the other (and a merge does not exceed the highest quantity).     *)
(* Products of his own he has chosen only until a merge drops them.        *)
Held(p) == visitor.qty[p] + line[p].qty + ordered[p]

ChosenIsHeldOnce ==
    ~ crossed => \A p \in Products : /\ Held(p) <= chosen[p]
                                     /\ ~ capped => Held(p) = chosen[p]

-----------------------------------------------------------------------------
(***************************************************************************)
(* What the documentation says and the code does not keep.                 *)
(***************************************************************************)
(* No customer is sent more than was chosen: not if an order request is    *)
(* repeated while the first runs, or a PATCH meets the flush.              *)
OrderedAsChosen == \A p \in Products : ordered[p] <= chosen[p]

(* "Anonymously created carts are deleted after this timestamp": they stay,*)
(* and the session can never have a cart again.                            *)
ExpiredCartIsDeleted == visitor.state # "expired"
=============================================================================
