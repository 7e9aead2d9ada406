--------------------------- MODULE CheckoutProof ---------------------------
(***************************************************************************)
(* Proofs about Checkout, for any users, products, orders and number of    *)
(* request threads.                                                        *)
(***************************************************************************)
EXTENDS Checkout, FiniteSetTheorems, TLAPS

(* What a request has validated or read so far.  A PATCH under way writes  *)
(* SOLD back only over a product that was bought when it read the row.     *)
WorkInProgress(work) ==
    /\ work.pc \in {"adding", "ordering", "read"} => work.who \in Users
    /\ work.pc \in {"adding", "editing", "moving"} => work.what \in Products
    /\ work.pc = "read" => work.lines # {}
    /\ work.pc \in {"editing", "moving"} =>
           /\ work.status \in ProductStatus
           /\ work.status = "SOLD" => work.what \in sold

Inv == /\ TypeOK
       /\ \A r \in Requests : WorkInProgress(thread[r])
       /\ SoldMeansBought

WorkType == [pc : {"idle", "adding", "ordering", "read", "editing", "moving"},
             who : Users \cup {"none"}, what : Products \cup {"none"},
             lines : SUBSET Products, status : ProductStatus \cup {"none"}]

-----------------------------------------------------------------------------
(* Facts about the steps that several requests share.                      *)
LEMMA OrderLeads ==
    ASSUME NEW s, NEW action, NEW actor, NEW to \in OrderTargets(s, action, actor)
    PROVE  s \in OrderStatus /\ to \in OrderStatus
<1>1. PICK u \in ORDER_TRANSITIONS : s = u.from /\ to = u.to
  BY DEF OrderTargets, Targets
<1> QED
  BY <1>1 DEF ORDER_TRANSITIONS, OrderStatus

LEMMA StatusMoves ==
    ASSUME Inv, NEW o \in Orders, NEW to \in OrderStatus, orders[o].status \in OrderStatus,
           orders' = [orders EXCEPT ![o].status = to]
    PROVE  orders' \in [Orders -> [status : OrderStatus, buyer : Users,
                                   lines : (SUBSET Products) \ {{}}] \cup {NoOrder}]
<1>1. orders[o] \in [status : OrderStatus, buyer : Users, lines : (SUBSET Products) \ {{}}]
  BY DEF Inv, TypeOK, NoOrder, OrderStatus
<1>2. [orders[o] EXCEPT !.status = to]
          \in [status : OrderStatus, buyer : Users, lines : (SUBSET Products) \ {{}}]
  BY <1>1
<1> QED
  BY <1>2 DEF Inv, TypeOK

LEMMA PurgedIsSmaller == ASSUME TypeOK, NEW u \in Users PROVE Purged(u) \subseteq Products
BY DEF Purged, TypeOK

LEMMA SetCartKeeps ==
    ASSUME TypeOK, NEW u \in Users, NEW products \in SUBSET Products, SetCart(u, products)
    PROVE  cart' \in [Users -> SUBSET Products]
BY DEF SetCart, TypeOK

LEMMA InitInv == Init => Inv
BY CheckoutAssumption
   DEF Init, Inv, TypeOK, WorkInProgress, SoldMeansBought, ProductStatus, Idle, Work

(* A request that goes on with new work, or ends.                          *)
LEMMA ThreadGoesOn ==
    ASSUME Inv, NEW r \in Requests, NEW work \in WorkType,
           thread' = [thread EXCEPT ![r] = work],
           sold \subseteq sold', WorkInProgress(work)'
    PROVE  /\ thread' \in [Requests -> WorkType]
           /\ \A q \in Requests : WorkInProgress(thread[q])'
<1>1. thread \in [Requests -> WorkType]
  BY DEF Inv, TypeOK, WorkType
<1>2. \A q \in Requests : thread'[q] = IF q = r THEN work ELSE thread[q]
  BY <1>1
<1> QED
  BY <1>1, <1>2 DEF Inv, WorkInProgress

LEMMA ThreadEnds ==
    ASSUME Inv, NEW r \in Requests, Finish(r), sold' = sold
    PROVE  /\ thread' \in [Requests -> WorkType]
           /\ \A q \in Requests : WorkInProgress(thread[q])'
<1>1. Idle \in WorkType /\ WorkInProgress(Idle)'
  BY DEF Idle, Work, WorkType, WorkInProgress
<1> QED
  BY <1>1, ThreadGoesOn DEF Finish

-----------------------------------------------------------------------------
(* The cart. *)
LEMMA CartInv ==
    ASSUME Inv, NEW u \in Users, NEW products \in SUBSET Products, SetCart(u, products),
           UNCHANGED <<listing, orders, thread, adds, sold>>
    PROVE  Inv'
<1>1. cart' \in [Users -> SUBSET Products]
  BY SetCartKeeps DEF Inv
<1> QED
  BY <1>1 DEF Inv, TypeOK, WorkInProgress, SoldMeansBought

LEMMA AddCheckInv ==
    ASSUME Inv, NEW r \in Requests, NEW u \in Users, NEW p \in Products, AddCheck(r, u, p)
    PROVE  Inv'
<1> DEFINE work == Work("adding", u, p, {}, "none")
<1>1. work \in WorkType /\ WorkInProgress(work)'
  BY DEF Work, WorkType, WorkInProgress
<1>2. thread' = [thread EXCEPT ![r] = work] /\ UNCHANGED <<listing, cart, orders, adds, sold>>
  BY DEF AddCheck, Start
<1>3. thread' \in [Requests -> WorkType] /\ \A q \in Requests : WorkInProgress(thread[q])'
  BY <1>1, <1>2, ThreadGoesOn
<1> QED
  BY <1>2, <1>3 DEF Inv, TypeOK, WorkType, SoldMeansBought

LEMMA AddSaveInv ==
    ASSUME Inv, NEW r \in Requests, AddSave(r)
    PROVE  Inv'
<1> DEFINE u == thread[r].who
           p == thread[r].what
<1>1. u \in Users /\ p \in Products
  BY DEF AddSave, Inv, WorkInProgress
<1>2. cart' \in [Users -> SUBSET Products]
  <2>1. Purged(u) \cup {p} \in SUBSET Products
    BY <1>1, PurgedIsSmaller DEF Inv
  <2> QED
    BY <1>1, <2>1, SetCartKeeps DEF AddSave, Inv
<1>3. adds' \in [Users -> [Products -> 0..MaxAdds]]
  <2>1. /\ adds \in [Users -> [Products -> 0..MaxAdds]] /\ MaxAdds \in Nat
        /\ adds[u][p] \in 0..MaxAdds /\ adds[u][p] < MaxAdds
        /\ adds' = adds \/ adds' = [adds EXCEPT ![u] = [adds[u] EXCEPT ![p] = adds[u][p] + 1]]
    BY <1>1, CheckoutAssumption DEF AddSave, Inv, TypeOK
  <2>2. adds[u][p] + 1 \in 0..MaxAdds
    BY <2>1
  <2> QED
    BY <1>1, <2>1, <2>2
<1>4. thread' \in [Requests -> WorkType] /\ \A q \in Requests : WorkInProgress(thread[q])'
  BY ThreadEnds DEF AddSave
<1> QED
  BY <1>2, <1>3, <1>4 DEF AddSave, Inv, TypeOK, WorkType, SoldMeansBought

-----------------------------------------------------------------------------
(* create_order_from_cart *)
LEMMA OrderBeginInv ==
    ASSUME Inv, NEW r \in Requests, NEW u \in Users, OrderBegin(r, u)
    PROVE  Inv'
<1> DEFINE work == Work("ordering", u, "none", {}, "none")
<1>1. work \in WorkType /\ WorkInProgress(work)'
  BY DEF Work, WorkType, WorkInProgress
<1>2. thread' = [thread EXCEPT ![r] = work] /\ UNCHANGED <<listing, orders, adds, sold>>
  BY DEF OrderBegin, Start
<1>3. thread' \in [Requests -> WorkType] /\ \A q \in Requests : WorkInProgress(thread[q])'
  BY <1>1, <1>2, ThreadGoesOn
<1>4. cart' \in [Users -> SUBSET Products]
  BY PurgedIsSmaller, SetCartKeeps DEF OrderBegin, Inv
<1> QED
  BY <1>2, <1>3, <1>4 DEF Inv, TypeOK, WorkType, SoldMeansBought

LEMMA OrderReadInv ==
    ASSUME Inv, NEW r \in Requests, OrderRead(r)
    PROVE  Inv'
<1> DEFINE u == thread[r].who
           work == [thread[r] EXCEPT !.pc = "read", !.lines = cart[u]]
<1>1. /\ UNCHANGED <<listing, cart, orders, adds, sold>>
      /\ \/ Finish(r)
         \/ cart[u] # {} /\ thread' = [thread EXCEPT ![r] = work]
  BY DEF OrderRead
<1>2. CASE Finish(r)
  BY <1>1, <1>2, ThreadEnds DEF Inv, TypeOK, WorkType, SoldMeansBought
<1>3. CASE cart[u] # {} /\ thread' = [thread EXCEPT ![r] = work]
  <2>1. thread[r] \in WorkType /\ u \in Users /\ cart[u] \subseteq Products
    BY DEF OrderRead, Inv, TypeOK, WorkType, WorkInProgress
  <2>2. work \in WorkType
    BY <2>1 DEF WorkType
  <2>3. PICK next \in WorkType : next = work
    BY <2>2
  <2>4. WorkInProgress(next)'
    BY <1>3, <2>1, <2>3 DEF WorkType, WorkInProgress
  <2> QED
    BY <1>1, <1>3, <2>3, <2>4, ThreadGoesOn DEF Inv, TypeOK, WorkType, SoldMeansBought
<1> QED
  BY <1>1, <1>2, <1>3

LEMMA OrderCreateInv ==
    ASSUME Inv, NEW r \in Requests, NEW o \in Orders, OrderCreate(r, o)
    PROVE  Inv'
<1> DEFINE u == thread[r].who
<1>1. thread[r].lines \in (SUBSET Products) \ {{}} /\ u \in Users
  BY DEF OrderCreate, Inv, TypeOK, WorkInProgress
<1>2. orders' \in [Orders -> [status : OrderStatus, buyer : Users,
                              lines : (SUBSET Products) \ {{}}] \cup {NoOrder}]
  BY <1>1 DEF OrderCreate, Inv, TypeOK, OrderStatus
<1>3. cart' \in [Users -> SUBSET Products]
  BY <1>1, SetCartKeeps DEF OrderCreate, Inv
<1>4. thread' \in [Requests -> WorkType] /\ \A q \in Requests : WorkInProgress(thread[q])'
  BY ThreadEnds DEF OrderCreate
<1> QED
  BY <1>2, <1>3, <1>4 DEF OrderCreate, Inv, TypeOK, WorkType, SoldMeansBought

-----------------------------------------------------------------------------
(* transition_order: what a payment makes SOLD it has sold.                *)
LEMMA PayOrderInv ==
    ASSUME Inv, NEW o \in Orders, NEW actor, PayOrder(o, actor)
    PROVE  Inv'
<1> DEFINE lines == orders[o].lines
<1>1. PICK to \in OrderTargets(orders[o].status, "mark_paid", actor) :
          orders' = [orders EXCEPT ![o].status = to]
  BY DEF PayOrder
<1>2. orders[o].status \in OrderStatus /\ to \in OrderStatus
  BY <1>1, OrderLeads
<1>3. lines \subseteq Products
  BY <1>2 DEF Inv, TypeOK, NoOrder, OrderStatus
<1>4. orders' \in [Orders -> [status : OrderStatus, buyer : Users,
                              lines : (SUBSET Products) \ {{}}] \cup {NoOrder}]
  BY <1>1, <1>2, StatusMoves
<1>5. /\ listing' = [p \in Products |-> IF p \in lines THEN "SOLD" ELSE listing[p]]
      /\ cart' = [u \in Users |-> cart[u] \ lines]
      /\ sold' = sold \cup lines
      /\ UNCHANGED <<thread, adds>>
  BY DEF PayOrder
<1>6. TypeOK'
  BY <1>3, <1>4, <1>5 DEF Inv, TypeOK, ProductStatus
<1>7. SoldMeansBought'
  BY <1>5 DEF Inv, SoldMeansBought
<1>8. \A q \in Requests : WorkInProgress(thread[q])'
  BY <1>5 DEF Inv, WorkInProgress
<1> QED
  BY <1>6, <1>7, <1>8 DEF Inv

LEMMA MoveOrderInv ==
    ASSUME Inv, NEW o \in Orders, NEW action, NEW actor, MoveOrder(o, action, actor)
    PROVE  Inv'
<1>1. PICK to \in OrderTargets(orders[o].status, action, actor) :
          orders' = [orders EXCEPT ![o].status = to]
  BY DEF MoveOrder
<1>2. orders' \in [Orders -> [status : OrderStatus, buyer : Users,
                              lines : (SUBSET Products) \ {{}}] \cup {NoOrder}]
  BY <1>1, OrderLeads, StatusMoves
<1> QED
  BY <1>2 DEF MoveOrder, Inv, TypeOK, WorkInProgress, SoldMeansBought

-----------------------------------------------------------------------------
(* The seller's PATCH: the status it will write is the one it has read, or *)
(* one asked for, which is never SOLD.                                     *)
LEMMA EditReadInv ==
    ASSUME Inv, NEW r \in Requests, NEW p \in Products,
           NEW asked \in ProductStatus \cup {"none"}, EditRead(r, p, asked)
    PROVE  Inv'
<1> DEFINE status == IF asked = "none" THEN listing[p] ELSE asked
           work == Work(IF asked = "none" THEN "editing" ELSE "moving", SellerOf[p], p, {}, status)
<1>1. /\ thread' = [thread EXCEPT ![r] = work]
      /\ UNCHANGED <<listing, cart, orders, adds, sold>>
  BY DEF EditRead, Start
<1>2. status \in ProductStatus /\ (status = "SOLD" => p \in sold)
  BY DEF EditRead, Inv, TypeOK, SoldMeansBought, ProductStatus
<1>3. SellerOf[p] \in Users
  BY CheckoutAssumption
<1>4. PICK next \in WorkType : next = work
  BY <1>2, <1>3 DEF Work, WorkType
<1>5. WorkInProgress(next)'
  BY <1>1, <1>2, <1>4 DEF Work, WorkInProgress
<1> QED
  BY <1>1, <1>4, <1>5, ThreadGoesOn DEF Inv, TypeOK, WorkType, SoldMeansBought

LEMMA EditSaveInv ==
    ASSUME Inv, NEW r \in Requests, EditSave(r)
    PROVE  Inv'
<1> DEFINE p == thread[r].what
           status == thread[r].status
<1>1. /\ p \in Products /\ status \in ProductStatus
      /\ status = "SOLD" => p \in sold
  BY DEF EditSave, Inv, WorkInProgress
<1>2. listing' = [listing EXCEPT ![p] = status] /\ UNCHANGED <<cart, orders, adds, sold>>
  BY DEF EditSave
<1>3. thread' \in [Requests -> WorkType] /\ \A q \in Requests : WorkInProgress(thread[q])'
  BY ThreadEnds DEF EditSave
<1> QED
  BY <1>1, <1>2, <1>3 DEF Inv, TypeOK, WorkType, SoldMeansBought

LEMMA RemoveInv == ASSUME Inv, NEW p \in Products, Remove(p) PROVE Inv'
BY DEF Remove, Inv, TypeOK, WorkInProgress, SoldMeansBought, ProductStatus

LEMMA CrashInv == ASSUME Inv, NEW r \in Requests, Crash(r) PROVE Inv'
BY ThreadEnds DEF Crash, Inv, TypeOK, WorkType, SoldMeansBought

LEMMA ViewCartInv ==
    ASSUME Inv, NEW u \in Users,
           ViewCart(u) \/ \E p \in Products : RemoveItem(u, p)
    PROVE  Inv'
<1>1. Purged(u) \subseteq Products
  BY PurgedIsSmaller DEF Inv
<1>2. \E products \in SUBSET Products : SetCart(u, products)
  BY <1>1 DEF ViewCart, RemoveItem
<1> QED
  BY <1>2, CartInv DEF ViewCart, RemoveItem

LEMMA NextInv == Inv /\ [Next]_vars => Inv'
<1> SUFFICES ASSUME Inv, [Next]_vars PROVE Inv'
  OBVIOUS
<1>1. ASSUME NEW u \in Users, ViewCart(u) \/ \E p \in Products : RemoveItem(u, p) PROVE Inv'
  BY <1>1, ViewCartInv
<1>2. ASSUME NEW p \in Products, Remove(p) PROVE Inv'
  BY <1>2, RemoveInv
<1>3. ASSUME NEW r \in Requests, NEW u \in Users,
             OrderBegin(r, u) \/ \E p \in Products : AddCheck(r, u, p)
      PROVE  Inv'
  BY <1>3, OrderBeginInv, AddCheckInv
<1>4. ASSUME NEW r \in Requests, NEW p \in Products, NEW asked \in ProductStatus \cup {"none"},
             EditRead(r, p, asked)
      PROVE  Inv'
  BY <1>4, EditReadInv
<1>5. ASSUME NEW r \in Requests,
             \/ AddSave(r) \/ OrderRead(r) \/ EditSave(r) \/ Crash(r)
             \/ \E o \in Orders : OrderCreate(r, o)
      PROVE  Inv'
  BY <1>5, AddSaveInv, OrderReadInv, EditSaveInv, CrashInv, OrderCreateInv
<1>6. ASSUME NEW o \in Orders, NEW actor \in Actor,
             \/ PayOrder(o, actor)
             \/ \E action \in {t.action : t \in ORDER_TRANSITIONS} : MoveOrder(o, action, actor)
      PROVE  Inv'
  BY <1>6, PayOrderInv, MoveOrderInv
<1>7. CASE UNCHANGED vars
  BY <1>7 DEF vars, Inv, TypeOK, WorkInProgress, SoldMeansBought
<1> QED
  BY <1>1, <1>2, <1>3, <1>4, <1>5, <1>6, <1>7 DEF Next

-----------------------------------------------------------------------------
(* Listings, carts, orders and requests stay in their types. *)
THEOREM CheckoutTypeCorrect == Spec => []TypeOK
BY InitInv, NextInv, PTL DEF Spec, Inv

(* However many requests edit, remove, order and pay at once, only a sale  *)
(* makes a product SOLD.                                                   *)
THEOREM SoldWasPaidFor == Spec => []SoldMeansBought
BY InitInv, NextInv, PTL DEF Spec, Inv

-----------------------------------------------------------------------------
(***************************************************************************)
(* One request thread: a cart line is ordered once.  What a request has    *)
(* read from the cart may be gone from it before the order is created, so  *)
(* a line is in hand while it is in the cart or in such a request; with    *)
(* what was ordered it never exceeds what was put in.                      *)
(***************************************************************************)
OneThread == \A q, r \in Requests : q = r

OrdersFor(u, p) == {o \in Orders : orders[o].buyer = u /\ p \in orders[o].lines}

InHand(u, p) ==
    \/ p \in cart[u]
    \/ \E r \in Requests : /\ thread[r].pc = "read"
                           /\ thread[r].who = u
                           /\ p \in thread[r].lines

LineIsCovered(u, p) ==
    /\ IsFiniteSet(OrdersFor(u, p))
    /\ Cardinality(OrdersFor(u, p)) + (IF InHand(u, p) THEN 1 ELSE 0) <= adds[u][p]

LineInv == \A u \in Users, p \in Products : LineIsCovered(u, p)

LEMMA InitLine == Init => LineInv
<1> SUFFICES ASSUME Init, NEW u \in Users, NEW p \in Products PROVE LineIsCovered(u, p)
  BY DEF LineInv
<1>1. OrdersFor(u, p) = {} /\ ~ InHand(u, p) /\ adds[u][p] = 0
  BY DEF Init, OrdersFor, InHand, NoOrder, Idle, Work
<1>2. IsFiniteSet({}) /\ Cardinality({}) = 0
  BY FS_EmptySet
<1> QED
  BY <1>1, <1>2 DEF LineIsCovered

(* A step that orders nothing and puts nothing new in hand.                *)
LEMMA LineKept ==
    ASSUME Inv, LineInv, NEW u \in Users, NEW p \in Products,
           \A o \in Orders : /\ orders'[o].buyer = orders[o].buyer
                             /\ orders'[o].lines = orders[o].lines,
           adds'[u][p] = adds[u][p],
           InHand(u, p)' => InHand(u, p)
    PROVE  LineIsCovered(u, p)'
<1>1. OrdersFor(u, p)' = OrdersFor(u, p)
  BY DEF OrdersFor
<1>2. adds[u][p] \in Int /\ IsFiniteSet(OrdersFor(u, p))
  BY CheckoutAssumption DEF Inv, TypeOK, LineInv, LineIsCovered
<1>3. Cardinality(OrdersFor(u, p)) \in Nat
  BY <1>2, FS_CardinalityType
<1> QED
  BY <1>1, <1>2, <1>3 DEF LineInv, LineIsCovered

(* Nothing comes into the cart, and no request reads it.                   *)
LEMMA NothingNew ==
    ASSUME Inv, LineInv,
           \A o \in Orders : /\ orders'[o].buyer = orders[o].buyer
                             /\ orders'[o].lines = orders[o].lines,
           UNCHANGED adds,
           \A u \in Users : cart'[u] \subseteq cart[u],
           \A r \in Requests : thread'[r] = thread[r] \/ thread'[r].pc # "read"
    PROVE  LineInv'
<1> SUFFICES ASSUME NEW u \in Users, NEW p \in Products PROVE LineIsCovered(u, p)'
  BY DEF LineInv
<1>1. InHand(u, p)' => InHand(u, p)
  BY DEF InHand
<1> QED
  BY <1>1, LineKept

LEMMA OtherOrders ==
    ASSUME Inv, NEW o \in Orders, NEW to, orders' = [orders EXCEPT ![o].status = to]
    PROVE  \A q \in Orders : /\ orders'[q].buyer = orders[q].buyer
                             /\ orders'[q].lines = orders[q].lines
BY DEF Inv, TypeOK, NoOrder

LEMMA OtherCarts ==
    ASSUME Inv, NEW u \in Users, NEW products, SetCart(u, products)
    PROVE  \A v \in Users : cart'[v] = IF v = u THEN products ELSE cart[v]
BY DEF Inv, TypeOK, SetCart

LEMMA ThreadIs ==
    ASSUME Inv, NEW r \in Requests, NEW work, thread' = [thread EXCEPT ![r] = work]
    PROVE  \A q \in Requests : thread'[q] = IF q = r THEN work ELSE thread[q]
BY DEF Inv, TypeOK

LEMMA Finished ==
    ASSUME Inv, NEW r \in Requests, Finish(r)
    PROVE  /\ thread'[r].pc = "idle"
           /\ \A q \in Requests : thread'[q] = thread[q] \/ thread'[q].pc # "read"
<1>1. \A q \in Requests : thread'[q] = IF q = r THEN Idle ELSE thread[q]
  BY ThreadIs DEF Finish
<1>2. Idle.pc = "idle"
  BY DEF Idle, Work
<1> QED
  BY <1>1, <1>2

LEMMA AddSaveLine ==
    ASSUME Inv, LineInv, NEW r \in Requests, AddSave(r)
    PROVE  LineInv'
<1> DEFINE w == thread[r].who
           a == thread[r].what
<1>0. w \in Users /\ a \in Products /\ UNCHANGED orders
  BY DEF AddSave, Inv, WorkInProgress
<1>1. \A v \in Users : cart'[v] = IF v = w THEN Purged(w) \cup {a} ELSE cart[v]
  BY <1>0, OtherCarts DEF AddSave
<1>2. \A q \in Requests : thread'[q] = thread[q] \/ thread'[q].pc # "read"
  BY Finished DEF AddSave
<1>3. SUFFICES ASSUME NEW u \in Users, NEW p \in Products PROVE LineIsCovered(u, p)'
  BY DEF LineInv
<1>4. Purged(w) \subseteq cart[w]
  BY DEF Purged
<1>5. CASE u = w /\ p = a /\ a \notin Purged(w)
  <2>1. adds'[u][p] = adds[u][p] + 1 /\ adds[u][p] \in Nat
    BY <1>0, <1>5, CheckoutAssumption DEF AddSave, Inv, TypeOK
  <2>2. OrdersFor(u, p)' = OrdersFor(u, p)
    BY <1>0 DEF OrdersFor
  <2>3. IsFiniteSet(OrdersFor(u, p)) /\ Cardinality(OrdersFor(u, p)) \in Nat
    BY FS_CardinalityType DEF LineInv, LineIsCovered
  <2> QED
    BY <2>1, <2>2, <2>3 DEF LineInv, LineIsCovered
<1>6. CASE ~ (u = w /\ p = a /\ a \notin Purged(w))
  <2>1. adds'[u][p] = adds[u][p]
    BY <1>0, <1>6 DEF AddSave, Inv, TypeOK
  <2>2. InHand(u, p)' => InHand(u, p)
    BY <1>1, <1>2, <1>4, <1>6 DEF InHand
  <2> QED
    BY <1>0, <2>1, <2>2, LineKept
<1> QED
  BY <1>5, <1>6

(* What is read was in the cart. *)
LEMMA OrderReadLine ==
    ASSUME Inv, LineInv, NEW r \in Requests, OrderRead(r)
    PROVE  LineInv'
<1> DEFINE w == thread[r].who
           work == [thread[r] EXCEPT !.pc = "read", !.lines = cart[w]]
<1>0. UNCHANGED <<listing, cart, orders, adds, sold>>
  BY DEF OrderRead
<1>1. CASE Finish(r)
  BY <1>0, <1>1, Finished, NothingNew
<1>2. CASE thread' = [thread EXCEPT ![r] = work]
  <2>0. PICK new : new = work
    OBVIOUS
  <2>1. \A q \in Requests : thread'[q] = IF q = r THEN new ELSE thread[q]
    <3>1. thread' = [thread EXCEPT ![r] = new]
      BY <1>2, <2>0
    <3> QED
      BY <3>1 DEF Inv, TypeOK
  <2>2. new.who = w /\ new.lines = cart[w] /\ w \in Users
    BY <2>0 DEF Inv, TypeOK, OrderRead, WorkInProgress
  <2>n. PICK buyer : buyer = w
    OBVIOUS
  <2> SUFFICES ASSUME NEW u \in Users, NEW p \in Products PROVE LineIsCovered(u, p)'
    BY DEF LineInv
  <2>3. InHand(u, p)' => InHand(u, p)
    <3>1. new.who = buyer /\ new.lines = cart[buyer]
      BY <2>2, <2>n
    <3> QED
      BY ONLY <1>0, <2>1, <3>1 DEF InHand
  <2> QED
    BY <1>0, <2>3, LineKept
<1> QED
  BY <1>1, <1>2 DEF OrderRead

(* The only request leaves its lines to the order and nothing in the cart. *)
LEMMA OrderCreateLine ==
    ASSUME Inv, LineInv, OneThread, NEW r \in Requests, NEW o \in Orders, OrderCreate(r, o)
    PROVE  LineInv'
<1> DEFINE w == thread[r].who
           lines == thread[r].lines
<1>0. w \in Users /\ thread[r].pc = "read" /\ UNCHANGED adds
  BY DEF OrderCreate, Inv, WorkInProgress
<1>1. \A q \in Orders : orders'[q] = IF q = o THEN [status |-> "pending_payment", buyer |-> w,
                                                    lines |-> lines]
                                     ELSE orders[q]
  BY DEF OrderCreate, Inv, TypeOK
<1>2. orders[o].lines = {}
  BY DEF OrderCreate, Inv, TypeOK, OrderStatus, NoOrder
<1>3. \A v \in Users : cart'[v] = IF v = w THEN {} ELSE cart[v]
  BY <1>0, OtherCarts DEF OrderCreate
<1>4. \A q \in Requests : thread'[q].pc # "read"
  BY Finished DEF OrderCreate, OneThread
<1> SUFFICES ASSUME NEW u \in Users, NEW p \in Products PROVE LineIsCovered(u, p)'
  BY DEF LineInv
<1>5. /\ IsFiniteSet(OrdersFor(u, p)) /\ Cardinality(OrdersFor(u, p)) \in Nat
      /\ adds[u][p] \in Nat
  BY FS_CardinalityType, CheckoutAssumption DEF LineInv, LineIsCovered, Inv, TypeOK
<1>6. CASE u = w /\ p \in lines
  <2>1. OrdersFor(u, p)' = OrdersFor(u, p) \cup {o} /\ o \notin OrdersFor(u, p)
    BY <1>1, <1>2, <1>6 DEF OrdersFor
  <2>2. PICK before : before = OrdersFor(u, p)
    OBVIOUS
  <2>3. IsFiniteSet(before \cup {o}) /\ Cardinality(before \cup {o}) = Cardinality(before) + 1
    BY <1>5, <2>1, <2>2, FS_AddElement
  <2>4. InHand(u, p)
    BY <1>0, <1>6 DEF InHand
  <2>5. ~ InHand(u, p)'
    BY <1>3, <1>4, <1>6 DEF InHand
  <2>6. Cardinality(before) + 1 <= adds[u][p] /\ OrdersFor(u, p)' = before \cup {o}
    BY <2>1, <2>2, <2>4 DEF LineInv, LineIsCovered
  <2> QED
    BY <1>0, <1>5, <2>2, <2>3, <2>5, <2>6 DEF LineIsCovered
<1>7. CASE ~ (u = w /\ p \in lines)
  <2>1. OrdersFor(u, p)' = OrdersFor(u, p)
    BY <1>1, <1>2, <1>7 DEF OrdersFor
  <2>2. InHand(u, p)' => InHand(u, p)
    BY <1>3, <1>4 DEF InHand
  <2> QED
    BY <1>0, <1>5, <2>1, <2>2 DEF LineInv, LineIsCovered
<1> QED
  BY <1>6, <1>7

LEMMA NextLine == ASSUME OneThread PROVE Inv /\ LineInv /\ [Next]_vars => LineInv'
<1> SUFFICES ASSUME Inv, LineInv, [Next]_vars PROVE LineInv'
  OBVIOUS
<1>1. ASSUME NEW u \in Users, ViewCart(u) \/ \E p \in Products : RemoveItem(u, p)
      PROVE  LineInv'
  <2>1. \E products : SetCart(u, products) /\ products \subseteq cart[u]
    BY <1>1 DEF ViewCart, RemoveItem, Purged
  <2>2. \A v \in Users : cart'[v] \subseteq cart[v]
    BY <2>1, OtherCarts
  <2> QED
    BY <1>1, <2>2, NothingNew DEF ViewCart, RemoveItem
<1>2. ASSUME NEW p \in Products, Remove(p) PROVE LineInv'
  BY <1>2, NothingNew DEF Remove
<1>3. ASSUME NEW r \in Requests, NEW u \in Users,
             OrderBegin(r, u) \/ \E p \in Products : AddCheck(r, u, p)
      PROVE  LineInv'
  <2>1. \A v \in Users : cart'[v] \subseteq cart[v]
    BY <1>3, OtherCarts DEF OrderBegin, AddCheck, Purged
  <2>2. \A q \in Requests : thread'[q] = thread[q] \/ thread'[q].pc # "read"
    BY <1>3, ThreadIs DEF OrderBegin, AddCheck, Start, Work
  <2> QED
    BY <1>3, <2>1, <2>2, NothingNew DEF OrderBegin, AddCheck
<1>4. ASSUME NEW r \in Requests, NEW p \in Products, NEW asked \in ProductStatus \cup {"none"},
             EditRead(r, p, asked)
      PROVE  LineInv'
  <2>1. \A q \in Requests : thread'[q] = thread[q] \/ thread'[q].pc # "read"
    BY <1>4, ThreadIs DEF EditRead, Start, Work
  <2> QED
    BY <1>4, <2>1, NothingNew DEF EditRead
<1>5. ASSUME NEW r \in Requests, EditSave(r) \/ Crash(r) PROVE LineInv'
  BY <1>5, Finished, NothingNew DEF EditSave, Crash
<1>6. ASSUME NEW r \in Requests,
             AddSave(r) \/ OrderRead(r) \/ \E o \in Orders : OrderCreate(r, o)
      PROVE  LineInv'
  BY <1>6, AddSaveLine, OrderReadLine, OrderCreateLine
<1>7. ASSUME NEW o \in Orders, NEW actor \in Actor,
             \/ PayOrder(o, actor)
             \/ \E action \in {t.action : t \in ORDER_TRANSITIONS} : MoveOrder(o, action, actor)
      PROVE  LineInv'
  <2>1. \E to : orders' = [orders EXCEPT ![o].status = to]
    BY <1>7 DEF PayOrder, MoveOrder
  <2>2. UNCHANGED <<thread, adds>> /\ \A v \in Users : cart'[v] \subseteq cart[v]
    BY <1>7 DEF PayOrder, MoveOrder
  <2> QED
    BY <2>1, <2>2, OtherOrders, NothingNew
<1>8. CASE UNCHANGED vars
  BY <1>8, NothingNew DEF vars
<1> QED
  BY <1>1, <1>2, <1>3, <1>4, <1>5, <1>6, <1>7, <1>8 DEF Next

(* While requests are served one at a time, a user never has more orders   *)
(* for a product than times it was put in the cart, whatever other users,  *)
(* the seller and payments do to the cart between the steps of a checkout  *)
(* (orders/services.py, create_order_from_cart).                           *)
THEOREM OneOrderPerCartLine ==
    ASSUME OneThread
    PROVE  Spec => []CartLineOrderedOnce
<1>1. Inv /\ LineInv => CartLineOrderedOnce
  <2> SUFFICES ASSUME Inv, LineInv, NEW u \in Users, NEW p \in Products
               PROVE  Cardinality(OrdersFor(u, p)) <= adds[u][p]
    BY DEF CartLineOrderedOnce, OrdersFor
  <2>1. IsFiniteSet(OrdersFor(u, p)) /\ adds[u][p] \in Int
    BY CheckoutAssumption DEF LineInv, LineIsCovered, Inv, TypeOK
  <2>2. Cardinality(OrdersFor(u, p)) \in Nat
    BY <2>1, FS_CardinalityType
  <2> QED
    BY <2>1, <2>2 DEF LineInv, LineIsCovered
<1>2. Inv /\ LineInv /\ [Next]_vars => LineInv'
  BY NextLine
<1> QED
  BY <1>1, <1>2, InitInv, InitLine, NextInv, PTL DEF Spec
=============================================================================
