--------------------------- MODULE FulfilmentLocks ---------------------------
(***************************************************************************)
(* The transactions behind Fulfilment.  transition_item selects the item   *)
(* joined with its order FOR UPDATE, which locks the item's row and then   *)
(* the order's; transition_order locks the order and, when it cancels,     *)
(* updates the items one after the other.  The opposite orders make        *)
(* deadlocks possible: the database ends one of the two transactions.      *)
(*                                                                         *)
(* Each call is cut at the points where it waits or reads: what a worker   *)
(* read is kept in its record until it commits.  The wallet locks of the   *)
(* sale credit are Wallet's; here a credit is part of the commit.          *)
(***************************************************************************)
EXTENDS OrderStateMachine

CONSTANTS Items, Workers,
          Nobody     \* a lock that is free

ASSUME LocksAssumption == Items # {} /\ Nobody \notin Workers

VARIABLES order, item, credited,   \* the committed rows
          orderLock,               \* who holds the order's row lock
          itemLock,                \* who holds each item's row lock
          tx                       \* the transaction of each worker

rows  == <<order, item, credited>>
locks == <<orderLock, itemLock>>
vars  == <<order, item, credited, orderLock, itemLock, tx>>

(* The promised behaviour, on the committed rows.                          *)
Atomic == INSTANCE Fulfilment

(***************************************************************************)
(* A transaction: where it is, the call's arguments, the statuses it has   *)
(* decided on, the items its cascade has yet to update.                    *)
(***************************************************************************)
Call(pc, action, actor, key) ==
    [pc |-> pc, action |-> action, actor |-> actor, key |-> key,
     itemTo |-> "pending", orderTo |-> "pending_payment", todo |-> {}]

SomeItem == CHOOSE i \in Items : TRUE

NoTx == Call("idle", "cancel", "nobody", SomeItem)

Init == /\ Atomic!Init
        /\ orderLock = Nobody
        /\ itemLock = [i \in Items |-> Nobody]
        /\ tx = [t \in Workers |-> NoTx]

FreeLocks(t) ==
    /\ orderLock' = IF orderLock = t THEN Nobody ELSE orderLock
    /\ itemLock' = [i \in Items |-> IF itemLock[i] = t THEN Nobody ELSE itemLock[i]]

(* COMMIT or ROLLBACK: the row locks are released. *)
End(t) == FreeLocks(t) /\ tx' = [tx EXCEPT ![t] = NoTx]

-----------------------------------------------------------------------------
(***************************************************************************)
(* transition_item                                                         *)
(***************************************************************************)
ItemBegin(t, i, action, actor) ==
    /\ tx[t].pc = "idle"
    /\ tx' = [tx EXCEPT ![t] = Call("item", action, actor, i)]
    /\ UNCHANGED <<rows, locks>>

LockItem(t) ==
    /\ tx[t].pc = "item"
    /\ itemLock[tx[t].key] = Nobody
    /\ itemLock' = [itemLock EXCEPT ![tx[t].key] = t]
    /\ tx' = [tx EXCEPT ![t].pc = "join"]
    /\ UNCHANGED <<rows, orderLock>>

ItemTarget(t) == ItemTargets(item[tx[t].key], tx[t].action, tx[t].actor, order)

(* Both rows are locked and read; apply_transition decides.  A refusal     *)
(* rolls back.                                                             *)
MutApplyItem(t) ==
    /\ tx[t].pc = "join"
    /\ \/ \E to \in ItemTarget(t) :
              /\ UNCHANGED orderLock
              /\ tx' = [tx EXCEPT ![t].pc = "applied", ![t].itemTo = to,
                                  ![t].orderTo = order]
              /\ UNCHANGED itemLock
       \/ ItemTarget(t) = {} /\ End(t)
    /\ UNCHANGED rows
MutApplyItemKeeps(t) ==
    /\ tx[t].pc = "join"
    /\ orderLock = Nobody
    /\ \/ \E to \in ItemTarget(t) :
              /\ orderLock' = t
              /\ tx' = [tx EXCEPT ![t].pc = "applied", ![t].itemTo = to,
                                  ![t].orderTo = order]
       \/ ItemTarget(t) = {} /\ tx' = [tx EXCEPT ![t] = NoTx] /\ UNCHANGED orderLock
    /\ UNCHANGED <<rows, itemLock>>
ApplyItem(t) ==
    /\ tx[t].pc = "join"
    /\ orderLock = Nobody
    /\ \/ \E to \in ItemTarget(t) :
              /\ orderLock' = t
              /\ tx' = [tx EXCEPT ![t].pc = "applied", ![t].itemTo = to,
                                  ![t].orderTo = order]
              /\ UNCHANGED itemLock
       \/ ItemTarget(t) = {} /\ End(t)
    /\ UNCHANGED rows

(* _sync_order_status reads every item of the order, its own in the new    *)
(* status, and moves the order it has read before.                         *)
SyncOrder(t) ==
    /\ tx[t].pc = "applied"
    /\ tx' = [tx EXCEPT ![t].pc = "synced",
                        ![t].orderTo = Atomic!SyncOrderStatus(
                            @, [item EXCEPT ![tx[t].key] = tx[t].itemTo])]
    /\ UNCHANGED <<rows, locks>>

(* The order is written only if the item completed it. *)
CommitItem(t) ==
    /\ tx[t].pc = "synced"
    /\ item' = [item EXCEPT ![tx[t].key] = tx[t].itemTo]
    /\ credited' = IF tx[t].itemTo = "completed" THEN credited \cup {tx[t].key} ELSE credited
    /\ order' = IF tx[t].orderTo = "completed" THEN "completed" ELSE order
    /\ End(t)

-----------------------------------------------------------------------------
(***************************************************************************)
(* transition_order                                                        *)
(***************************************************************************)
OrderBegin(t, action, actor) ==
    /\ tx[t].pc = "idle"
    /\ tx' = [tx EXCEPT ![t] = Call("order", action, actor, SomeItem)]
    /\ UNCHANGED <<rows, locks>>

OrderTarget(t) == OrderTargets(order, tx[t].action, tx[t].actor)

MutApplyOrder(t) ==
    /\ tx[t].pc = "order"
    /\ \/ \E to \in OrderTarget(t) :
              tx' = [tx EXCEPT ![t].pc = "cascade", ![t].orderTo = to,
                               ![t].todo = IF tx[t].action \in Atomic!CancelActions
                                           THEN Items ELSE {}]
       \/ OrderTarget(t) = {} /\ tx' = [tx EXCEPT ![t] = NoTx]
    /\ UNCHANGED <<rows, locks>>
ApplyOrder(t) ==
    /\ tx[t].pc = "order"
    /\ orderLock = Nobody
    /\ \/ \E to \in OrderTarget(t) :
              /\ orderLock' = t
              /\ tx' = [tx EXCEPT ![t].pc = "cascade", ![t].orderTo = to,
                                  ![t].todo = IF tx[t].action \in Atomic!CancelActions
                                              THEN Items ELSE {}]
              /\ UNCHANGED itemLock
       \/ OrderTarget(t) = {} /\ End(t)
    /\ UNCHANGED rows

(* order.items.update(...): an update waits for the row's lock. *)
CascadeItem(t) ==
    /\ tx[t].pc = "cascade"
    /\ \E i \in tx[t].todo : /\ itemLock[i] = Nobody
                             /\ itemLock' = [itemLock EXCEPT ![i] = t]
                             /\ tx' = [tx EXCEPT ![t].todo = @ \ {i}]
    /\ UNCHANGED <<rows, orderLock>>

CommitOrder(t) ==
    /\ tx[t].pc = "cascade"
    /\ tx[t].todo = {}
    /\ order' = tx[t].orderTo
    /\ item' = Atomic!Cascade(tx[t].action, item)
    /\ credited' = IF tx[t].action = "mark_paid" THEN Items ELSE credited
    /\ End(t)

-----------------------------------------------------------------------------
(* t waits for a row lock that s holds. *)
WaitsFor(t, s) ==
    \/ tx[t].pc = "item" /\ itemLock[tx[t].key] = s
    \/ tx[t].pc \in {"join", "order"} /\ orderLock = s
    \/ /\ tx[t].pc = "cascade" /\ tx[t].todo # {}
       /\ \A i \in tx[t].todo : itemLock[i] # Nobody
       /\ \E i \in tx[t].todo : itemLock[i] = s

(* The database's deadlock detector.  Every cycle of waits has length two: *)
(* it goes through the one order lock.                                     *)
DeadlockVictim(t) ==
    /\ \E s \in Workers : WaitsFor(t, s) /\ WaitsFor(s, t)
    /\ End(t)
    /\ UNCHANGED rows

(* The process dies or the connection is lost: ROLLBACK. *)
Crash(t) == /\ tx[t].pc # "idle"
            /\ End(t)
            /\ UNCHANGED rows

Step(t) == \/ LockItem(t) \/ ApplyItem(t) \/ SyncOrder(t) \/ CommitItem(t)
           \/ ApplyOrder(t) \/ CascadeItem(t) \/ CommitOrder(t)

Next == \E t \in Workers :
    \/ \E i \in Items, action \in Atomic!ItemAction, actor \in Actor :
           ItemBegin(t, i, action, actor)
    \/ \E action \in Atomic!OrderAction, actor \in Actor : OrderBegin(t, action, actor)
    \/ Step(t)
    \/ DeadlockVictim(t)
    \/ Crash(t)

Spec == Init /\ [][Next]_vars

(* A worker that can go on does; a lock is granted to every waiter in the  *)
(* end; the database resolves every deadlock.                              *)
FairSpec == Spec /\ \A t \in Workers : SF_vars(Step(t)) /\ SF_vars(DeadlockVictim(t))

-----------------------------------------------------------------------------
TxState == [pc : {"idle", "item", "join", "applied", "synced", "order", "cascade"},
            action : Atomic!ItemAction \cup Atomic!OrderAction,
            actor : Actor,
            key : Items,
            itemTo : ItemStatus,
            orderTo : OrderStatus,
            todo : SUBSET Items]

TypeOK == /\ Atomic!TypeOK
          /\ orderLock \in Workers \cup {Nobody}
          /\ itemLock \in [Items -> Workers \cup {Nobody}]
          /\ tx \in [Workers -> TxState]

(* Whatever calls run at once, the rows move as if the calls had run one   *)
(* after the other, each on the statuses it finds when it commits.         *)
KeepsAtomic == Atomic!Spec

(* The order and its items agree at every commit (see Fulfilment).         *)
OrderAndItemsAgree == Atomic!OrderAndItemsAgree

(* No call waits for ever, though item and order are locked in opposite    *)
(* orders by the two services.                                             *)
EveryCallEnds == \A t \in Workers : tx[t].pc # "idle" ~> tx[t].pc = "idle"
=============================================================================
