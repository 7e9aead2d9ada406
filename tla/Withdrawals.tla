---------------------------- MODULE Withdrawals ----------------------------
(***************************************************************************)
(* Withdrawal requests (withdrawals/services.py) on top of the wallet      *)
(* ledger, and the payout that follows a completed one                     *)
(* (withdrawals/payout.py).  Sales are credited meanwhile.                 *)
(*                                                                         *)
(* Any worker may serve any request.  A request locks the wallet, an       *)
(* administrator's decision locks the withdrawal's row and, when it gives  *)
(* the money back, the wallet.                                             *)
(***************************************************************************)
EXTENDS Wallet

CONSTANTS Requests,       \* identities of withdrawal requests
          Amounts,        \* bound: the amounts users ask for, in cents
          MIN_WITHDRAWAL_AMOUNT

ASSUME WithdrawalsAssumption == /\ Amounts \subseteq Nat
                                /\ MIN_WITHDRAWAL_AMOUNT \in Nat \ {0}

VARIABLES req,       \* the WithdrawalRequest rows: user, amount, status
          rowLock,   \* who holds the row lock of each request
          payout,    \* payout_status, "" until an outcome is recorded
          sent       \* how often the gateway took the disbursement

vars == <<ledger, balance, walletLock, tx, req, rowLock, payout, sent>>

requestVars == <<req, rowLock, payout, sent>>

WithdrawalStatus == {"pending", "processing", "completed", "failed", "rejected"}

REVERSAL_STATUSES == {"failed", "rejected"}

MutNEXT == [pending    |-> {"processing", "rejected"},
            processing |-> {"completed", "failed", "rejected"},
            completed  |-> {"failed"}, failed |-> {}, rejected |-> {},
            none       |-> {}]
NEXT == [pending    |-> {"processing", "rejected"},
         processing |-> {"completed", "failed", "rejected"},
         completed  |-> {}, failed |-> {}, rejected |-> {},
         none       |-> {}]

NoRequest == [status |-> "none", user |-> Nobody, amount |-> 0]

Init == /\ WalletInit
        /\ req = [w \in Requests |-> NoRequest]
        /\ rowLock = [w \in Requests |-> Nobody]
        /\ payout = [w \in Requests |-> ""]
        /\ sent = [w \in Requests |-> 0]

FreeRows(t) == rowLock' = [w \in Requests |-> IF rowLock[w] = t THEN Nobody ELSE rowLock[w]]

-----------------------------------------------------------------------------
(***************************************************************************)
(* request_withdrawal                                                      *)
(***************************************************************************)

(* The reference is a fresh uuid: no two requests share one.               *)
RequestBegin(t, w, u, amount) ==
    /\ tx[t].pc = "idle"
    /\ req[w].status = "none"
    /\ \A s \in Workers : ~ (tx[s].kind = "request" /\ tx[s].key = w)
    /\ amount >= MIN_WITHDRAWAL_AMOUNT
    /\ Begin(t, Work("lock", "request", w, "none", u, amount))
    /\ UNCHANGED <<walletVars, requestVars>>

(* WalletService.debit: enough money by the ledger, or the whole block     *)
(* rolls back.                                                             *)
RequestPost(t) ==
    /\ tx[t].pc = "locked"
    /\ tx[t].kind = "request"
    /\ IF BalanceOf(ledger, tx[t].user) >= tx[t].amount
       THEN Post(t, << Row(tx[t].user, "withdrawal", tx[t].key, - tx[t].amount) >>)
       ELSE Rollback(t)
    /\ UNCHANGED requestVars

RequestCommit(t) ==
    /\ tx[t].pc = "posted"
    /\ tx[t].kind = "request"
    /\ CommitWallet(t)
    /\ req' = [req EXCEPT ![tx[t].key] =
                 [status |-> "pending", user |-> tx[t].user, amount |-> tx[t].amount]]
    /\ tx' = [tx EXCEPT ![t] = NoTx]
    /\ UNCHANGED <<rowLock, payout, sent>>

-----------------------------------------------------------------------------
(***************************************************************************)
(* transition                                                              *)
(***************************************************************************)

(* The row is locked, then its status is looked at.                        *)
MutAdminLock(t, w, to) ==
    /\ tx[t].pc = "idle"
    /\ to \in NEXT[req[w].status]
    /\ UNCHANGED rowLock
    /\ Begin(t, Work(IF to \in REVERSAL_STATUSES THEN "lock" ELSE "moving",
                  "move", w, to, req[w].user, req[w].amount))
    /\ UNCHANGED <<walletVars, req, payout, sent>>
AdminLock(t, w, to) ==
    /\ tx[t].pc = "idle"
    /\ rowLock[w] = Nobody
    /\ to \in NEXT[req[w].status]
    /\ rowLock' = [rowLock EXCEPT ![w] = t]
    /\ Begin(t, Work(IF to \in REVERSAL_STATUSES THEN "lock" ELSE "moving",
                  "move", w, to, req[w].user, req[w].amount))
    /\ UNCHANGED <<walletVars, req, payout, sent>>

(* WalletService.refund, in the same transaction.                          *)
AdminPost(t) ==
    /\ tx[t].pc = "locked"
    /\ tx[t].kind = "move"
    /\ Post(t, << Row(tx[t].user, "refund", tx[t].key, tx[t].amount) >>)
    /\ UNCHANGED requestVars

(* The new status becomes visible with the refund, if there is one.  A     *)
(* completed request goes on to the payout, outside the transaction.       *)
AdminCommit(t) ==
    LET w == tx[t].key IN
    /\ tx[t].kind = "move"
    /\ \/ tx[t].pc = "posted" /\ CommitWallet(t)
       \/ tx[t].pc = "moving" /\ UNCHANGED walletVars
    /\ req' = [req EXCEPT ![w].status = tx[t].to]
    /\ FreeRows(t)
    /\ tx' = [tx EXCEPT ![t] = IF tx[t].to = "completed"
                               THEN Work("payout", "payout", w, "none", Nobody, 0)
                               ELSE NoTx]
    /\ UNCHANGED <<payout, sent>>

-----------------------------------------------------------------------------
(***************************************************************************)
(* WithdrawalPayoutService.attempt                                         *)
(***************************************************************************)

(* Disabled, no credentials, or the call is refused: recorded.             *)
PayoutUnavailable(t) ==
    /\ tx[t].pc = "payout"
    /\ payout' = [payout EXCEPT ![tx[t].key] = "UNAVAILABLE"]
    /\ tx' = [tx EXCEPT ![t] = NoTx]
    /\ UNCHANGED <<walletVars, req, rowLock, sent>>

(* The gateway takes the disbursement.                                     *)
PayoutTaken(t) ==
    /\ tx[t].pc = "payout"
    /\ sent' = [sent EXCEPT ![tx[t].key] = @ + 1]
    /\ tx' = [tx EXCEPT ![t].pc = "answer"]
    /\ UNCHANGED <<walletVars, req, rowLock, payout>>

(* Its answer is recorded; an HTTP error on the way back is recorded as    *)
(* UNAVAILABLE, an answer without a known status as it is.                 *)
PayoutAnswered(t) ==
    /\ tx[t].pc = "answer"
    /\ \E status \in {"AUTHORIZED", "UNAVAILABLE", "FAILED"} :
           payout' = [payout EXCEPT ![tx[t].key] = status]
    /\ tx' = [tx EXCEPT ![t] = NoTx]
    /\ UNCHANGED <<walletVars, req, rowLock, sent>>

(* A worker dies, or an exception nobody catches ends it: a lost           *)
(* connection inside a transaction, a read timeout of the payout call.     *)
Crash(t) == /\ tx[t].pc # "idle"
            /\ Rollback(t)
            /\ FreeRows(t)
            /\ UNCHANGED <<req, payout, sent>>

-----------------------------------------------------------------------------
WorkerStep(t) == \/ LockWallet(t) /\ UNCHANGED requestVars
                 \/ SalePost(t) /\ UNCHANGED requestVars
                 \/ SaleCommit(t) /\ UNCHANGED requestVars
                 \/ RequestPost(t) \/ RequestCommit(t)
                 \/ AdminPost(t) \/ AdminCommit(t)
                 \/ PayoutUnavailable(t) \/ PayoutTaken(t) \/ PayoutAnswered(t)

WorkerBegin(t) ==
    \/ \E i \in Items : SaleBegin(t, i) /\ UNCHANGED requestVars
    \/ \E w \in Requests : \/ \E u \in Users, amount \in Amounts : RequestBegin(t, w, u, amount)
                           \/ \E to \in WithdrawalStatus : AdminLock(t, w, to)

Next == \E t \in Workers : WorkerBegin(t) \/ WorkerStep(t) \/ Crash(t)

Spec == Init /\ [][Next]_vars

(* A worker that is served goes on; the database grants a row lock to      *)
(* every waiter in the end.                                                *)
FairSpec == Spec /\ \A t \in Workers : SF_vars(WorkerStep(t))

(***************************************************************************)
(* The Django admin site registers WithdrawalRequest and leaves "status"   *)
(* editable: the form writes whatever status it shows.                     *)
(***************************************************************************)
AdminSiteSave(w, status) == /\ req[w].status # "none"
                            /\ rowLock[w] = Nobody
                            /\ req' = [req EXCEPT ![w].status = status]
                            /\ UNCHANGED <<walletVars, tx, rowLock, payout, sent>>

SpecWithAdminSite ==
    Init /\ [][Next \/ \E w \in Requests, s \in WithdrawalStatus : AdminSiteSave(w, s)]_vars

-----------------------------------------------------------------------------
LedgerRow == [user : Users, type : BALANCE_AFFECTING_TYPES \cup {"platform_fee"},
              ref : Items \cup Requests, amount : Int]

(* The check constraint wd_amount_minimum, and 0 for no amount.            *)
RequestAmount == {a \in Amounts : a >= MIN_WITHDRAWAL_AMOUNT} \cup {0}

TxState == [pc : {"idle", "lock", "locked", "posted", "moving", "payout", "answer"},
            kind : {"none", "sale", "request", "move", "payout"},
            key : Items \cup Requests \cup {Nobody},
            to : WithdrawalStatus \cup {"none"},
            user : Users \cup {Nobody},
            amount : RequestAmount,
            rows : Seq(LedgerRow),
            sum : Int]

TypeOK == /\ ledger \in Seq(LedgerRow)
          /\ balance \in [Users -> Int]
          /\ walletLock \in [Users -> Workers \cup {Nobody}]
          /\ tx \in [Workers -> TxState]
          /\ req \in [Requests -> [status : WithdrawalStatus \cup {"none"},
                                   user : Users \cup {Nobody},
                                   amount : RequestAmount]]
          /\ rowLock \in [Requests -> Workers \cup {Nobody}]
          /\ payout \in [Requests -> {"", "AUTHORIZED", "UNAVAILABLE", "FAILED"}]
          /\ sent \in [Requests -> Nat]

(* The money of a request leaves at most once, and never both ways: it is  *)
(* given back exactly when the request has failed or been rejected, and    *)
(* the gateway is told to pay out only a completed one, once.              *)
PaidOutOrGivenBack ==
    \A w \in Requests :
        /\ Cardinality(RowsOf("refund", w)) =
               IF req[w].status \in REVERSAL_STATUSES THEN 1 ELSE 0
        /\ sent[w] <= (IF req[w].status = "completed" THEN 1 ELSE 0)

(* Requests, sales and decisions together keep the abstract account.       *)
NetOf == [i \in Items |-> LineTotal[i] - Fee(LineTotal[i])]

HoldState(status) == CASE status = "none" -> "none"
                       [] status \in {"pending", "processing"} -> "held"
                       [] status = "completed" -> "spent"
                       [] OTHER -> "returned"

Acc == INSTANCE Account WITH
           Withdrawals <- Requests,
           available   <- balance,
           credited    <- {i \in Items : FeeCharged(i)},
           hold        <- [w \in Requests |->
                             [state  |-> HoldState(req[w].status),
                              user   |-> IF req[w].status = "none" THEN "nobody" ELSE req[w].user,
                              amount |-> req[w].amount]]

KeepsAccount == Acc!Spec

-----------------------------------------------------------------------------
(***************************************************************************)
(* What the documentation says and the code does not keep.                 *)
(***************************************************************************)

(* services.py: "balance_summary.total_withdrawn (sum of COMPLETED         *)
(* WITHDRAWAL rows) reflects successfully-confirmed payouts".              *)
TotalWithdrawnIsConfirmed ==
    \A w \in Requests : RowsOf("withdrawal", w) # {} => req[w].status = "completed"

(* payout.py: "The outcome is always recorded on the request."             *)
PayoutIsRecorded ==
    \A w \in Requests : req[w].status = "completed" ~> payout[w] # ""

(* services.py: "a failed/rejected withdrawal can never leave the balance  *)
(* inconsistent".                                                          *)
ReversedIsRefunded ==
    \A w \in Requests : req[w].status \in REVERSAL_STATUSES => RowsOf("refund", w) # {}
=============================================================================
