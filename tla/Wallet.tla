------------------------------- MODULE Wallet -------------------------------
(***************************************************************************)
(* The wallet ledger of wallet/services.py: rows, the cached balance, the  *)
(* row lock of each wallet, and the database transaction a worker is in.   *)
(* The services that move money (here process_completed_sale, withdrawals  *)
(* in Withdrawals) are built from the steps of this module:                *)
(*                                                                         *)
(*    ... -> "lock" -> LockWallet -> "locked" -> (rows) -> "posted" -> ... *)
(*                                                                         *)
(* Rows a transaction has inserted and the balance it has computed are its *)
(* own until it commits.                                                   *)
(*                                                                         *)
(* An operator whose name starts with Mut is a seeded fault: a variant of  *)
(* the definition after it that some property has to tell from the code.   *)
(***************************************************************************)
EXTENDS Integers, SequencesExt

CONSTANTS Users,       \* sellers
          Workers,     \* threads of the web server, cron and the webhook
          Nobody,      \* a lock that is free
          Items,       \* order items that are sold
          SellerOf,    \* the seller of each item
          LineTotal    \* unit price times quantity of each item

ASSUME WalletAssumption == /\ Nobody \notin Workers
                           /\ SellerOf \in [Items -> Users]
                           /\ LineTotal \in [Items -> Nat]

VARIABLES ledger,      \* the committed LedgerTransaction rows, oldest first
          balance,     \* Wallet.balance
          walletLock,  \* who holds the row lock of each wallet
          tx           \* the transaction each worker is in

walletVars == <<ledger, balance, walletLock>>

Row(user, type, ref, amount) ==
    [user |-> user, type |-> type, ref |-> ref, amount |-> amount]

BALANCE_AFFECTING_TYPES == {"credit", "debit", "withdrawal", "refund", "adjustment"}

(* What a row adds to the balance of a user.                               *)
Share(row, user) == IF row.user = user /\ row.type \in BALANCE_AFFECTING_TYPES
                    THEN row.amount ELSE 0

(* reconcile_balance: the sum of the rows that count.                      *)
BalanceOf(rows, user) ==
    LET sum[n \in 0 .. Len(rows)] == IF n = 0 THEN 0
                                     ELSE sum[n - 1] + Share(rows[n], user)
    IN  sum[Len(rows)]

(* (line_total * 0.06).quantize(0.01, ROUND_HALF_UP), amounts in cents.    *)
Fee(total) == (total * 6 + 50) \div 100

(***************************************************************************)
(* A worker's transaction: where it is, what it is about, the rows it has  *)
(* inserted and the balance it has computed.                               *)
(***************************************************************************)
Work(pc, kind, key, to, user, amount) ==
    [pc |-> pc, kind |-> kind, key |-> key, to |-> to, user |-> user, amount |-> amount,
     rows |-> <<>>, sum |-> 0]

NoTx == Work("idle", "none", Nobody, "none", Nobody, 0)

WalletInit == /\ ledger = <<>>
              /\ balance = [u \in Users |-> 0]
              /\ walletLock = [u \in Users |-> Nobody]
              /\ tx = [t \in Workers |-> NoTx]

Begin(t, work) == tx' = [tx EXCEPT ![t] = work]

(* The unique constraint on (order_item, type).                            *)
UniqueItemType(rows) ==
    \A i, j \in DOMAIN rows :
        /\ rows[i].ref = rows[j].ref
        /\ rows[i].type = rows[j].type
        /\ rows[i].type \in {"platform_fee", "credit"}
        => i = j

FreeWallets(t) == walletLock' = [u \in Users |-> IF walletLock[u] = t THEN Nobody
                                                 ELSE walletLock[u]]

-----------------------------------------------------------------------------
(* select_for_update().get_or_create(): waits while another transaction    *)
(* holds the row.                                                          *)
MutLockWallet(t) == /\ tx[t].pc = "lock"
                    /\ walletLock' = [walletLock EXCEPT ![tx[t].user] = t]
                    /\ tx' = [tx EXCEPT ![t].pc = "locked"]
                    /\ UNCHANGED <<ledger, balance>>
LockWallet(t) == /\ tx[t].pc = "lock"
                 /\ walletLock[tx[t].user] = Nobody
                 /\ walletLock' = [walletLock EXCEPT ![tx[t].user] = t]
                 /\ tx' = [tx EXCEPT ![t].pc = "locked"]
                 /\ UNCHANGED <<ledger, balance>>

(* Insert rows, then _sync_wallet_balance: the sum is taken over what is   *)
(* committed at that moment and the transaction's own rows.                *)
Post(t, rows) == /\ tx' = [tx EXCEPT ![t].pc = "posted",
                                     ![t].rows = rows,
                                     ![t].sum = BalanceOf(ledger \o rows, tx[t].user)]
                 /\ UNCHANGED walletVars

(* The transaction ends; the constraints on wallet_balance and on          *)
(* (order_item, type) hold, or it could not have come this far.            *)
CommitWallet(t) == /\ tx[t].sum >= 0
                   /\ UniqueItemType(ledger \o tx[t].rows)
                   /\ ledger' = ledger \o tx[t].rows
                   /\ balance' = [balance EXCEPT ![tx[t].user] = tx[t].sum]
                   /\ FreeWallets(t)

(* ROLLBACK: nothing the transaction wrote was ever seen.                  *)
Rollback(t) == /\ tx' = [tx EXCEPT ![t] = NoTx]
               /\ FreeWallets(t)
               /\ UNCHANGED <<ledger, balance>>

-----------------------------------------------------------------------------
(***************************************************************************)
(* process_completed_sale: asked for when the order is paid and again when *)
(* the item is completed, possibly at the same time.                       *)
(***************************************************************************)
SaleBegin(t, i) == /\ tx[t].pc = "idle"
                   /\ Begin(t, Work("lock", "sale", i, "none", SellerOf[i], 0))
                   /\ UNCHANGED walletVars

FeeCharged(i) == \E n \in DOMAIN ledger : ledger[n].type = "platform_fee" /\ ledger[n].ref = i

MutSalePost(t) ==
    LET i == tx[t].key IN
    /\ tx[t].pc = "locked"
    /\ tx[t].kind = "sale"
    /\ \/ ~ FeeCharged(i)
          /\ Post(t, << Row(SellerOf[i], "platform_fee", i, - Fee(LineTotal[i])),
                        Row(SellerOf[i], "credit", i, LineTotal[i]) >>)
       \/ FeeCharged(i) /\ Rollback(t)
SalePost(t) ==
    LET i == tx[t].key IN
    /\ tx[t].pc = "locked"
    /\ tx[t].kind = "sale"
    /\ \/ ~ FeeCharged(i)
          /\ Post(t, << Row(SellerOf[i], "platform_fee", i, - Fee(LineTotal[i])),
                        Row(SellerOf[i], "credit", i, LineTotal[i] - Fee(LineTotal[i])) >>)
       \/ FeeCharged(i) /\ Rollback(t)    \* the existing rows are returned

SaleCommit(t) == /\ tx[t].pc = "posted"
                 /\ tx[t].kind = "sale"
                 /\ CommitWallet(t)
                 /\ tx' = [tx EXCEPT ![t] = NoTx]

SaleStep(t) == (\E i \in Items : SaleBegin(t, i)) \/ SalePost(t) \/ SaleCommit(t)

-----------------------------------------------------------------------------
(* The cached balance never drifts from the ledger, and the ledger never   *)
(* goes below zero, whatever workers touch the wallet at once              *)
(* (wallet/services.py, _sync_wallet_balance under the wallet's lock).     *)
BalanceIsLedger == \A u \in Users : /\ balance[u] = BalanceOf(ledger, u)
                                    /\ balance[u] >= 0

RowsOf(type, ref) == {n \in DOMAIN ledger : ledger[n].type = type /\ ledger[n].ref = ref}

(* A sale is credited once: one fee row and one credit row of the same     *)
(* seller that add up to the line total, or neither, however often and by  *)
(* whomever it is asked for.                                               *)
SaleCreditedOnce ==
    \A i \in Items : \/ RowsOf("platform_fee", i) = {} /\ RowsOf("credit", i) = {}
                     \/ \E f, c \in DOMAIN ledger :
                            /\ RowsOf("platform_fee", i) = {f}
                            /\ RowsOf("credit", i) = {c}
                            /\ ledger[f].user = SellerOf[i] /\ ledger[c].user = SellerOf[i]
                            /\ ledger[c].amount - ledger[f].amount = LineTotal[i]
=============================================================================
