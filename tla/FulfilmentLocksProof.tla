------------------------ MODULE FulfilmentLocksProof ------------------------
(***************************************************************************)
(* The transactions of FulfilmentLocks implement the atomic calls of       *)
(* Fulfilment, for any items and any number of workers.                    *)
(***************************************************************************)
EXTENDS FulfilmentLocks, TLAPS

(***************************************************************************)
(* The inductive invariant: a worker that has decided on a step holds the  *)
(* order lock, so there is one such worker, and what it decided on is      *)
(* still right.                                                            *)
(***************************************************************************)
Decided == {"applied", "synced", "cascade"}

WorkerInv(t) ==
    /\ tx[t].pc \in Decided => orderLock = t
    /\ tx[t].pc \in {"applied", "synced"} =>
           tx[t].itemTo \in ItemTargets(item[tx[t].key], tx[t].action, tx[t].actor, order)
    /\ tx[t].pc = "applied" => tx[t].orderTo = order
    /\ tx[t].pc = "synced" =>
           tx[t].orderTo = Atomic!SyncOrderStatus(
                               order, [item EXCEPT ![tx[t].key] = tx[t].itemTo])
    /\ tx[t].pc = "cascade" =>
           tx[t].orderTo \in OrderTargets(order, tx[t].action, tx[t].actor)
    /\ tx[t].pc \in {"item", "join", "applied", "synced"} => tx[t].action \in Atomic!ItemAction
    /\ tx[t].pc \in {"order", "cascade"} => tx[t].action \in Atomic!OrderAction

Inv == TypeOK /\ \A t \in Workers : WorkerInv(t)

-----------------------------------------------------------------------------
(* Fulfilment reads the same tables. *)
LEMMA SameTargets ==
    ASSUME NEW s, NEW action, NEW actor, NEW o
    PROVE  /\ Atomic!ItemTargets(s, action, actor, o) = ItemTargets(s, action, actor, o)
           /\ Atomic!OrderTargets(s, action, actor) = OrderTargets(s, action, actor)
           /\ Atomic!ItemStatus = ItemStatus
           /\ Atomic!OrderStatus = OrderStatus
           /\ Atomic!Actor = Actor
BY DEF Atomic!ItemTargets, ItemTargets, Atomic!OrderTargets, OrderTargets,
       Atomic!Targets, Targets, Atomic!Permitted, Permitted,
       Atomic!NeedsPaidOrder, NeedsPaidOrder,
       Atomic!ITEM_TRANSITIONS, ITEM_TRANSITIONS,
       Atomic!ORDER_TRANSITIONS, ORDER_TRANSITIONS,
       Atomic!ItemStatus, ItemStatus, Atomic!OrderStatus, OrderStatus,
       Atomic!Actor, Actor

LEMMA TargetTypes ==
    ASSUME NEW s, NEW action, NEW actor, NEW o
    PROVE  /\ ItemTargets(s, action, actor, o) \subseteq ItemStatus
           /\ OrderTargets(s, action, actor) \subseteq OrderStatus
<1>1. /\ \A u \in ITEM_TRANSITIONS : u.to \in ItemStatus
      /\ \A u \in ORDER_TRANSITIONS : u.to \in OrderStatus
  BY DEF ITEM_TRANSITIONS, ORDER_TRANSITIONS, ItemStatus, OrderStatus
<1> QED
  BY <1>1 DEF ItemTargets, OrderTargets, Targets

LEMMA SomeItemIsItem == SomeItem \in Items
BY LocksAssumption DEF SomeItem

LEMMA CallTypes ==
    ASSUME NEW pc \in {"idle", "item", "join", "applied", "synced", "order", "cascade"},
           NEW action \in Atomic!ItemAction \cup Atomic!OrderAction,
           NEW actor \in Actor, NEW key \in Items
    PROVE  Call(pc, action, actor, key) \in TxState
BY DEF Call, TxState, ItemStatus, OrderStatus

LEMMA NoTxType == NoTx \in TxState /\ NoTx.pc = "idle"
<1>1. "cancel" \in Atomic!OrderAction
  <2>1. [from |-> "pending_payment", action |-> "cancel", to |-> "cancelled",
         actor |-> "buyer"] \in Atomic!ORDER_TRANSITIONS
    BY DEF Atomic!ORDER_TRANSITIONS
  <2> QED
    BY <2>1 DEF Atomic!OrderAction
<1>2. "nobody" \in Actor
  BY DEF Actor
<1> QED
  BY <1>1, <1>2, SomeItemIsItem, CallTypes DEF NoTx, Call

-----------------------------------------------------------------------------
(* A worker that does nothing in a step. *)
LEMMA Bystander ==
    ASSUME NEW u \in Workers, WorkerInv(u), tx'[u] = tx[u],
           orderLock # u \/ UNCHANGED <<order, item, orderLock>>
    PROVE  WorkerInv(u)'
BY DEF WorkerInv, Decided

(* A worker whose transaction ends. *)
LEMMA EndStep ==
    ASSUME Inv, NEW t \in Workers, End(t), Atomic!TypeOK',
           orderLock = t \/ UNCHANGED <<order, item>>
    PROVE  Inv'
<1> USE LocksAssumption DEF Inv
<1>1. /\ orderLock' \in Workers \cup {Nobody}
      /\ itemLock' \in [Items -> Workers \cup {Nobody}]
  BY DEF End, FreeLocks, TypeOK
<1>2. /\ tx' \in [Workers -> TxState]
      /\ tx'[t] = NoTx
      /\ \A u \in Workers \ {t} : tx'[u] = tx[u]
  BY NoTxType DEF End, TypeOK
<1>3. TypeOK'
  BY <1>1, <1>2 DEF TypeOK
<1>4. ASSUME NEW u \in Workers, u # t PROVE WorkerInv(u)'
  <2>1. orderLock # u \/ UNCHANGED <<order, item, orderLock>>
    BY <1>4 DEF End, FreeLocks
  <2> QED
    BY <1>2, <1>4, <2>1, Bystander
<1>5. WorkerInv(t)'
  BY <1>2, NoTxType DEF WorkerInv, Decided
<1> QED
  BY <1>3, <1>4, <1>5

(* A worker that goes on, without committing.                              *)
LEMMA OwnStep ==
    ASSUME Inv, NEW t \in Workers, NEW new \in TxState,
           UNCHANGED rows,
           orderLock' = orderLock \/ (orderLock = Nobody /\ orderLock' = t),
           itemLock' \in [Items -> Workers \cup {Nobody}],
           tx' = [tx EXCEPT ![t] = new],
           WorkerInv(t)'
    PROVE  Inv'
<1> USE LocksAssumption DEF Inv
<1>1. /\ tx' \in [Workers -> TxState]
      /\ \A u \in Workers \ {t} : tx'[u] = tx[u]
  BY DEF TypeOK
<1>2. Atomic!TypeOK'
  BY DEF TypeOK, rows, Atomic!TypeOK
<1>3. TypeOK'
  BY <1>1, <1>2 DEF TypeOK
<1>4. ASSUME NEW u \in Workers, u # t PROVE WorkerInv(u)'
  <2>1. orderLock # u \/ UNCHANGED <<order, item, orderLock>>
    BY <1>4 DEF rows
  <2> QED
    BY <1>1, <1>4, <2>1, Bystander
<1> QED
  BY <1>3, <1>4

-----------------------------------------------------------------------------
(***************************************************************************)
(* One lemma per action: the invariant is kept, and the step is a call of  *)
(* Fulfilment or none.                                                     *)
(***************************************************************************)
LEMMA BeginInv ==
    ASSUME Inv, NEW t \in Workers, NEW i \in Items, NEW actor \in Actor, NEW action,
           \/ action \in Atomic!ItemAction /\ ItemBegin(t, i, action, actor)
           \/ action \in Atomic!OrderAction /\ OrderBegin(t, action, actor)
    PROVE  Inv' /\ UNCHANGED rows
<1>1. CASE action \in Atomic!ItemAction /\ ItemBegin(t, i, action, actor)
  <2> DEFINE new == Call("item", action, actor, i)
  <2>1. new \in TxState /\ new.pc = "item" /\ new.action = action
    BY <1>1, CallTypes DEF Call
  <2> HIDE DEF new
  <2>2. tx' = [tx EXCEPT ![t] = new] /\ UNCHANGED <<rows, locks>>
    BY <1>1 DEF ItemBegin, new
  <2>3. tx'[t] = new
    BY <2>2 DEF Inv, TypeOK
  <2>4. WorkerInv(t)'
    BY <1>1, <2>1, <2>3 DEF WorkerInv, Decided
  <2> QED
    BY <2>1, <2>2, <2>4, OwnStep DEF locks, Inv, TypeOK
<1>2. CASE action \in Atomic!OrderAction /\ OrderBegin(t, action, actor)
  <2> DEFINE new == Call("order", action, actor, SomeItem)
  <2>1. new \in TxState /\ new.pc = "order" /\ new.action = action
    BY <1>2, CallTypes, SomeItemIsItem DEF Call
  <2> HIDE DEF new
  <2>2. tx' = [tx EXCEPT ![t] = new] /\ UNCHANGED <<rows, locks>>
    BY <1>2 DEF OrderBegin, new
  <2>3. tx'[t] = new
    BY <2>2 DEF Inv, TypeOK
  <2>4. WorkerInv(t)'
    BY <1>2, <2>1, <2>3 DEF WorkerInv, Decided
  <2> QED
    BY <2>1, <2>2, <2>4, OwnStep DEF locks, Inv, TypeOK
<1> QED
  BY <1>1, <1>2

LEMMA LockItemInv ==
    ASSUME Inv, NEW t \in Workers, LockItem(t)
    PROVE  Inv' /\ UNCHANGED rows
<1> DEFINE new == [tx[t] EXCEPT !.pc = "join"]
<1>1. new \in TxState /\ new.pc = "join" /\ new.action = tx[t].action
  BY DEF Inv, TypeOK, TxState
<1>2. tx' = [tx EXCEPT ![t] = new] /\ UNCHANGED <<rows, orderLock>>
  BY DEF LockItem
<1>3. itemLock' \in [Items -> Workers \cup {Nobody}]
  BY DEF LockItem, Inv, TypeOK
<1> HIDE DEF new
<1>4. tx'[t] = new
  BY <1>2 DEF Inv, TypeOK
<1>5. WorkerInv(t)'
  BY <1>1, <1>4 DEF WorkerInv, Decided, LockItem, Inv
<1> QED
  BY <1>1, <1>2, <1>3, <1>5, OwnStep

LEMMA ApplyItemInv ==
    ASSUME Inv, NEW t \in Workers, ApplyItem(t)
    PROVE  Inv' /\ UNCHANGED rows
<1>1. CASE \E to \in ItemTarget(t) :
              /\ orderLock' = t
              /\ tx' = [tx EXCEPT ![t].pc = "applied", ![t].itemTo = to,
                                  ![t].orderTo = order]
              /\ UNCHANGED itemLock
  <2>1. PICK to \in ItemTarget(t) :
              /\ orderLock' = t
              /\ tx' = [tx EXCEPT ![t].pc = "applied", ![t].itemTo = to,
                                  ![t].orderTo = order]
              /\ UNCHANGED itemLock
    BY <1>1
  <2>2. to \in ItemStatus /\ order \in OrderStatus
    BY TargetTypes, SameTargets DEF ItemTarget, Inv, TypeOK, Atomic!TypeOK
  <2> DEFINE new == [tx[t] EXCEPT !.pc = "applied", !.itemTo = to, !.orderTo = order]
  <2>3. /\ new \in TxState /\ new.pc = "applied" /\ new.itemTo = to
        /\ new.orderTo = order /\ new.action = tx[t].action
        /\ new.actor = tx[t].actor /\ new.key = tx[t].key
    BY <2>2 DEF Inv, TypeOK, TxState
  <2>4. tx' = [tx EXCEPT ![t] = new]
    BY <2>1
  <2> HIDE DEF new
  <2>5. tx'[t] = new
    BY <2>4 DEF Inv, TypeOK
  <2>6. orderLock = Nobody /\ UNCHANGED rows /\ tx[t].pc = "join"
    BY DEF ApplyItem
  <2>7. WorkerInv(t)'
    BY <2>1, <2>3, <2>5, <2>6 DEF WorkerInv, Decided, ItemTarget, rows, Inv
  <2> QED
    BY <2>1, <2>3, <2>4, <2>6, <2>7, OwnStep DEF Inv, TypeOK
<1>2. CASE ItemTarget(t) = {} /\ End(t)
  BY <1>2, EndStep DEF ApplyItem, rows, Inv, TypeOK, Atomic!TypeOK
<1> QED
  BY <1>1, <1>2 DEF ApplyItem

LEMMA SyncOrderInv ==
    ASSUME Inv, NEW t \in Workers, SyncOrder(t)
    PROVE  Inv' /\ UNCHANGED rows
<1> DEFINE synced == Atomic!SyncOrderStatus(tx[t].orderTo,
                                           [item EXCEPT ![tx[t].key] = tx[t].itemTo])
           new == [tx[t] EXCEPT !.pc = "synced", !.orderTo = synced]
<1>1. tx[t] \in TxState /\ tx[t].pc = "applied" /\ UNCHANGED <<rows, locks>>
  BY DEF SyncOrder, Inv, TypeOK
<1>2. synced \in OrderStatus
  BY <1>1 DEF Atomic!SyncOrderStatus, OrderStatus, TxState
<1>3. tx' = [tx EXCEPT ![t] = new]
  BY DEF SyncOrder
<1>4. synced = Atomic!SyncOrderStatus(order, [item EXCEPT ![tx[t].key] = tx[t].itemTo])
  BY <1>1 DEF Inv, WorkerInv
<1> HIDE DEF synced
<1>5. /\ new \in TxState /\ new.pc = "synced" /\ new.itemTo = tx[t].itemTo
      /\ new.orderTo = synced /\ new.action = tx[t].action
      /\ new.actor = tx[t].actor /\ new.key = tx[t].key
  BY <1>1, <1>2 DEF TxState
<1> HIDE DEF new
<1>6. tx'[t] = new
  BY <1>3 DEF Inv, TypeOK
<1>7. WorkerInv(t)'
  BY <1>1, <1>4, <1>5, <1>6 DEF WorkerInv, Decided, rows, locks, Inv
<1> QED
  BY <1>1, <1>3, <1>5, <1>7, OwnStep DEF locks, Inv, TypeOK

LEMMA ApplyOrderInv ==
    ASSUME Inv, NEW t \in Workers, ApplyOrder(t)
    PROVE  Inv' /\ UNCHANGED rows
<1> DEFINE todo == IF tx[t].action \in Atomic!CancelActions THEN Items ELSE {}
<1>1. CASE \E to \in OrderTarget(t) :
              /\ orderLock' = t
              /\ tx' = [tx EXCEPT ![t].pc = "cascade", ![t].orderTo = to, ![t].todo = todo]
              /\ UNCHANGED itemLock
  <2>1. PICK to \in OrderTarget(t) :
              /\ orderLock' = t
              /\ tx' = [tx EXCEPT ![t].pc = "cascade", ![t].orderTo = to, ![t].todo = todo]
              /\ UNCHANGED itemLock
    BY <1>1
  <2>2. to \in OrderStatus /\ todo \in SUBSET Items
    BY TargetTypes DEF OrderTarget
  <2> DEFINE new == [tx[t] EXCEPT !.pc = "cascade", !.orderTo = to, !.todo = todo]
  <2> HIDE DEF todo
  <2>3. /\ new \in TxState /\ new.pc = "cascade" /\ new.orderTo = to
        /\ new.action = tx[t].action /\ new.actor = tx[t].actor
    BY <2>2 DEF Inv, TypeOK, TxState
  <2>4. tx' = [tx EXCEPT ![t] = new]
    BY <2>1
  <2> HIDE DEF new
  <2>5. tx'[t] = new
    BY <2>4 DEF Inv, TypeOK
  <2>6. orderLock = Nobody /\ UNCHANGED rows /\ tx[t].pc = "order"
    BY DEF ApplyOrder
  <2>7. WorkerInv(t)'
    BY <2>1, <2>3, <2>5, <2>6 DEF WorkerInv, Decided, OrderTarget, rows, Inv
  <2> QED
    BY <2>1, <2>3, <2>4, <2>6, <2>7, OwnStep DEF Inv, TypeOK
<1>2. CASE OrderTarget(t) = {} /\ End(t)
  BY <1>2, EndStep DEF ApplyOrder, rows, Inv, TypeOK, Atomic!TypeOK
<1> QED
  BY <1>1, <1>2 DEF ApplyOrder

LEMMA CascadeItemInv ==
    ASSUME Inv, NEW t \in Workers, CascadeItem(t)
    PROVE  Inv' /\ UNCHANGED rows
<1>1. PICK i \in tx[t].todo : /\ itemLock' = [itemLock EXCEPT ![i] = t]
                              /\ tx' = [tx EXCEPT ![t].todo = @ \ {i}]
  BY DEF CascadeItem
<1> DEFINE new == [tx[t] EXCEPT !.todo = @ \ {i}]
<1>2. /\ new \in TxState /\ new.pc = tx[t].pc /\ new.orderTo = tx[t].orderTo
      /\ new.action = tx[t].action /\ new.actor = tx[t].actor
  BY DEF Inv, TypeOK, TxState
<1>3. tx' = [tx EXCEPT ![t] = new]
  BY <1>1
<1> HIDE DEF new
<1>4. tx'[t] = new
  BY <1>3 DEF Inv, TypeOK
<1>5. UNCHANGED <<rows, orderLock>> /\ tx[t].pc = "cascade"
  BY DEF CascadeItem
<1>6. WorkerInv(t)'
  BY <1>2, <1>4, <1>5 DEF WorkerInv, Decided, rows, Inv
<1> QED
  BY <1>1, <1>2, <1>3, <1>5, <1>6, OwnStep DEF Inv, TypeOK

LEMMA RollbackInv ==
    ASSUME Inv, NEW t \in Workers, DeadlockVictim(t) \/ Crash(t)
    PROVE  Inv' /\ UNCHANGED rows
BY EndStep DEF DeadlockVictim, Crash, rows, Inv, TypeOK, Atomic!TypeOK
(* The two commits are the calls of Fulfilment. *)
LEMMA CommitItemIsCall ==
    ASSUME Inv, NEW t \in Workers, CommitItem(t)
    PROVE  Inv' /\ Atomic!Next
<1> DEFINE i == tx[t].key  to == tx[t].itemTo
<1>1. /\ i \in Items /\ to \in ItemStatus /\ tx[t].actor \in Actor
      /\ tx[t].pc = "synced"
  BY DEF CommitItem, Inv, TypeOK, TxState
<1>2. /\ to \in Atomic!ItemTargets(item[i], tx[t].action, tx[t].actor, order)
      /\ tx[t].orderTo = Atomic!SyncOrderStatus(order, [item EXCEPT ![i] = to])
      /\ tx[t].action \in Atomic!ItemAction
      /\ orderLock = t
  BY <1>1, SameTargets DEF Inv, WorkerInv, Decided
<1>3. /\ item' = [item EXCEPT ![i] = to]
      /\ credited' = IF to = "completed" THEN credited \cup {i} ELSE credited
      /\ order' = IF tx[t].orderTo = "completed" THEN "completed" ELSE order
      /\ End(t)
  BY DEF CommitItem
<1>4. order' = Atomic!SyncOrderStatus(order, item')
  BY <1>2, <1>3 DEF Atomic!SyncOrderStatus
<1> HIDE DEF i, to
<1>5. Atomic!TransitionItem(i, tx[t].action, tx[t].actor)
  BY <1>2, <1>3, <1>4 DEF Atomic!TransitionItem
<1>6. Atomic!Next
  BY <1>1, <1>2, <1>5, SameTargets DEF Atomic!Next
<1>7. Atomic!TypeOK'
  BY <1>1, <1>3, SameTargets DEF Inv, TypeOK, Atomic!TypeOK, OrderStatus
<1> QED
  BY <1>2, <1>3, <1>6, <1>7, EndStep

LEMMA CommitOrderIsCall ==
    ASSUME Inv, NEW t \in Workers, CommitOrder(t)
    PROVE  Inv' /\ Atomic!Next
<1>1. tx[t] \in TxState /\ tx[t].pc = "cascade"
  BY DEF CommitOrder, Inv, TypeOK
<1>2. /\ tx[t].orderTo \in Atomic!OrderTargets(order, tx[t].action, tx[t].actor)
      /\ tx[t].action \in Atomic!OrderAction
      /\ orderLock = t
  <2>1. /\ tx[t].orderTo \in OrderTargets(order, tx[t].action, tx[t].actor)
        /\ tx[t].action \in Atomic!OrderAction
        /\ orderLock = t
    BY <1>1 DEF Inv, WorkerInv, Decided
  <2>2. Atomic!OrderTargets(order, tx[t].action, tx[t].actor)
            = OrderTargets(order, tx[t].action, tx[t].actor)
    BY SameTargets
  <2> QED
    BY <2>1, <2>2
<1>3. Atomic!TransitionOrder(tx[t].action, tx[t].actor)
  BY <1>2 DEF CommitOrder, Atomic!TransitionOrder
<1>4. tx[t].actor \in Atomic!Actor
  BY <1>1, SameTargets DEF TxState
<1>5. Atomic!Next
  BY <1>2, <1>3, <1>4 DEF Atomic!Next
<1>6. Atomic!TypeOK'
  <2>1. "cancelled" \in ItemStatus
    BY DEF ItemStatus
  <2>2. item' \in [Items -> ItemStatus] /\ credited' \subseteq Items
    BY <2>1, SameTargets DEF CommitOrder, Atomic!Cascade, Inv, TypeOK, Atomic!TypeOK
  <2>3. order' \in OrderStatus
    BY <1>1 DEF CommitOrder, TxState
  <2> QED
    BY <2>2, <2>3, SameTargets DEF Atomic!TypeOK
<1> QED
  BY <1>2, <1>5, <1>6, EndStep DEF CommitOrder

-----------------------------------------------------------------------------
LEMMA InitInv == Init => Inv /\ Atomic!Init
<1> SUFFICES ASSUME Init PROVE Inv
  BY DEF Init
<1>1. Atomic!TypeOK
  BY DEF Init, Atomic!Init, Atomic!TypeOK, Atomic!OrderStatus, Atomic!ItemStatus
<1>2. TypeOK
  BY <1>1, NoTxType DEF Init, TypeOK
<1>3. ASSUME NEW t \in Workers PROVE WorkerInv(t)
  BY NoTxType DEF Init, WorkerInv, Decided
<1> QED
  BY <1>2, <1>3 DEF Inv

LEMMA NextInv == Inv /\ [Next]_vars => Inv' /\ [Atomic!Next]_(Atomic!vars)
<1> SUFFICES ASSUME Inv, [Next]_vars PROVE Inv' /\ [Atomic!Next]_(Atomic!vars)
  OBVIOUS
<1>1. CASE UNCHANGED vars
  BY <1>1 DEF vars, Inv, TypeOK, Atomic!TypeOK, WorkerInv, Decided, Atomic!vars
<1>2. CASE Next
  <2>1. PICK t \in Workers :
            \/ \E i \in Items, action \in Atomic!ItemAction, actor \in Actor :
                   ItemBegin(t, i, action, actor)
            \/ \E action \in Atomic!OrderAction, actor \in Actor :
                   OrderBegin(t, action, actor)
            \/ Step(t) \/ DeadlockVictim(t) \/ Crash(t)
    BY <1>2 DEF Next
  <2>2. CASE \/ \E i \in Items, action \in Atomic!ItemAction, actor \in Actor :
                   ItemBegin(t, i, action, actor)
            \/ \E action \in Atomic!OrderAction, actor \in Actor :
                   OrderBegin(t, action, actor)
    BY <2>2, BeginInv, SomeItemIsItem DEF rows, Atomic!vars
  <2>3. CASE LockItem(t) \/ ApplyItem(t) \/ SyncOrder(t) \/ ApplyOrder(t) \/ CascadeItem(t)
    BY <2>3, LockItemInv, ApplyItemInv, SyncOrderInv, ApplyOrderInv, CascadeItemInv
       DEF rows, Atomic!vars
  <2>4. CASE CommitItem(t) \/ CommitOrder(t)
    BY <2>4, CommitItemIsCall, CommitOrderIsCall
  <2>5. CASE DeadlockVictim(t) \/ Crash(t)
    BY <2>5, RollbackInv DEF rows, Atomic!vars
  <2> QED
    BY <2>1, <2>2, <2>3, <2>4, <2>5 DEF Step
<1> QED
  BY <1>1, <1>2

-----------------------------------------------------------------------------
(* Rows, locks and transactions stay in their types. *)
THEOREM LocksTypeCorrect == Spec => []TypeOK
BY InitInv, NextInv, PTL DEF Spec, Inv

(* Whatever calls run at once, the committed rows move as if the calls had *)
(* run one after the other.                                                *)
THEOREM LocksImplementFulfilment == Spec => KeepsAtomic
BY InitInv, NextInv, PTL DEF Spec, KeepsAtomic, Atomic!Spec

(* So the order and its items agree whenever a transaction has committed.  *)
(* No reviews and no pages here: their variables stand still.              *)
NotAnItem == {i \in Items : i \notin i}

LEMMA NotAnItemIsNone == NotAnItem \notin Items
BY DEF NotAnItem

F == INSTANCE OrdersProof WITH Requests <- {}, reviews <- <<>>, req <- <<>>,
                               NoItem <- NotAnItem, Users <- {}, parties <- <<>>,
                               page <- <<>>, stale <- FALSE, misled <- FALSE, hand <- <<>>

LEMMA SameFulfilment == /\ Atomic!Init <=> F!Init
                        /\ [Atomic!Next]_(Atomic!vars) <=> [F!Next]_(F!vars)
                        /\ Atomic!OrderAndItemsAgree <=> F!OrderAndItemsAgree
BY DEF Atomic!Init, F!Init, Atomic!Next, F!Next, Atomic!vars, F!vars,
       Atomic!OrderAction, F!OrderAction, Atomic!ItemAction, F!ItemAction,
       Atomic!TransitionOrder, F!TransitionOrder, Atomic!TransitionItem, F!TransitionItem,
       Atomic!Cascade, F!Cascade, Atomic!CancelActions, F!CancelActions,
       Atomic!SyncOrderStatus, F!SyncOrderStatus,
       Atomic!OrderTargets, F!OrderTargets, Atomic!ItemTargets, F!ItemTargets,
       Atomic!Targets, F!Targets, Atomic!Permitted, F!Permitted,
       Atomic!NeedsPaidOrder, F!NeedsPaidOrder, Atomic!Actor, F!Actor,
       Atomic!ITEM_TRANSITIONS, F!ITEM_TRANSITIONS,
       Atomic!ORDER_TRANSITIONS, F!ORDER_TRANSITIONS,
       Atomic!OrderAndItemsAgree, F!OrderAndItemsAgree

THEOREM LocksAgree == Spec => []OrderAndItemsAgree
<1>1. F!Spec => []F!OrderAndItemsAgree
  BY LocksAssumption, NotAnItemIsNone, F!EnvelopeAgrees
<1> QED
  BY <1>1, LocksImplementFulfilment, SameFulfilment, PTL
     DEF KeepsAtomic, OrderAndItemsAgree, Atomic!Spec, F!Spec
=============================================================================
