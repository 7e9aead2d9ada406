------------------------------ MODULE Payments ------------------------------
(***************************************************************************)
(* Paying for one order through the ClickPesa gateway.                     *)
(*                                                                         *)
(* Five parties write the same rows: the request threads that serve        *)
(* /payments/initiate/ and /payments/<id>/verify/, the webhook, the        *)
(* reconcile_payments command, the buyer who cancels, and the              *)
(* administrator.  A step of this module is what one database transaction  *)
(* (or one autocommitted save) makes visible; what a thread read before    *)
(* that step is kept in its own record and may be stale by then.           *)
(*                                                                         *)
(* Orders do not share payment rows, so one order is enough.  Its attempts *)
(* are numbered in the order they are created (Payment.created_at).        *)
(*                                                                         *)
(* An operator whose name starts with Mut is a seeded fault: a variant of  *)
(* the definition after it that some property has to tell from the code.   *)
(***************************************************************************)
EXTENDS Naturals, OrderStateMachine

CONSTANTS Requests,     \* HTTP request threads that may serve this order
          Cron,         \* the reconcile_payments process
          MaxAttempts   \* bound: payment attempts the buyer starts

ASSUME PaymentsAssumption == /\ MaxAttempts \in Nat \ {0}
                             /\ Cron \notin Requests

VARIABLES order,     \* Order.status
          pays,      \* Payment.status of each attempt, "none" before it exists
          attempts,  \* number of Payment rows of the order
          gateway,   \* what ClickPesa knows of each attempt
          thread,    \* the local state of each request thread and of cron
          paidBy     \* history: what moved the order to PAID

vars == <<order, pays, attempts, gateway, thread, paidBy>>

Attempts == 1..MaxAttempts
Threads  == Requests \cup {Cron}

PaymentStatus == {"pending", "successful", "failed", "expired"}

(***************************************************************************)
(* The gateway.  "short" is a collection of less than the order's total.   *)
(* A settled attempt stays settled.                                        *)
(***************************************************************************)
Settlement   == {"collected", "short", "failed", "cancelled"}
GatewayState == {"unknown", "pending"} \cup Settlement
Reply        == {"norecord", "pending"} \cup Settlement

Funds(g)    == g \in {"collected", "short"}
Declines(g) == g \in {"failed", "cancelled"}

PC == {"idle", "checked", "calling", "awaiting", "replied",
       "verifying", "queried", "listed", "polled", "markpaid", "failorder"}

Via == {"initiate", "verify", "reconcile"}

Begin(pc, via, att) == [pc |-> pc, via |-> via, att |-> att, reply |-> "pending"]

Idle == Begin("idle", "verify", 0)

ThreadState == [pc : PC, via : Via, att : 0..MaxAttempts, reply : Reply]

TypeOK == /\ order \in OrderStatus
          /\ pays \in [Attempts -> PaymentStatus \cup {"none"}]
          /\ attempts \in 0..MaxAttempts
          /\ gateway \in [Attempts -> GatewayState]
          /\ thread \in [Threads -> ThreadState]
          /\ paidBy \in Via \cup {"nobody", "webhook", "admin"}

Init == /\ order = "pending_payment"
        /\ pays = [a \in Attempts |-> "none"]
        /\ attempts = 0
        /\ gateway = [a \in Attempts |-> "unknown"]
        /\ thread = [t \in Threads |-> Idle]
        /\ paidBy = "nobody"

-----------------------------------------------------------------------------
(***************************************************************************)
(* Helpers.                                                                *)
(***************************************************************************)

(* The status a reply folds onto: interpret_remote_status over             *)
(* normalize_payment_status; what it does not recognise is PENDING.        *)
MutInterpretProcessing(reply) == IF Declines(reply) THEN "failed" ELSE "successful"
Interpret(reply) == IF Funds(reply) THEN "successful"
                    ELSE IF Declines(reply) THEN "failed" ELSE "pending"

(* As Interpret, with the amount check of the webhook, of verify and of    *)
(* reconcile: less than the total is a failure.                            *)
InterpretChecked(reply) == IF reply = "short" THEN "failed" ELSE Interpret(reply)

(* What a status query may answer: a gateway without the reference says so *)
(* in a 200 reply (an HTTP error or an empty list is the caller's error    *)
(* path).                                                                  *)
Report(g) == IF g = "unknown" THEN "norecord" ELSE g

Goto(t, pc)    == thread' = [thread EXCEPT ![t].pc = pc]
GoIdle(t)      == thread' = [thread EXCEPT ![t] = Idle]
SetPay(a, s)   == pays' = [pays EXCEPT ![a] = s]

(* _mark_paid_if_possible and _fail_order_if_possible: the transition is   *)
(* tried under the order's row lock, a refusal is swallowed.               *)
MutTryMarkPaid(how) == /\ order' = "paid"
                       /\ paidBy' = how
TryMarkPaid(how) == /\ order' \in TriedOrder(order, "mark_paid", "payment")
                    /\ paidBy' = IF order' = order THEN paidBy ELSE how

TryFailOrder == /\ order' \in TriedOrder(order, "fail_payment", "payment")
                /\ UNCHANGED paidBy

-----------------------------------------------------------------------------
(***************************************************************************)
(* initiate_payment                                                        *)
(***************************************************************************)

(* The order is read and its status checked before anything is locked.     *)
InitiateCheck(r) ==
    /\ thread[r].pc = "idle"
    /\ order \in {"pending_payment", "payment_failed"}
    /\ thread' = [thread EXCEPT ![r] = Begin("checked", "initiate", 0)]
    /\ UNCHANGED <<order, pays, attempts, gateway, paidBy>>

(* Under the order's lock: a failed order is reopened, older PENDING rows  *)
(* are expired, the new row is created.  The status is not checked again.  *)
MutInitiateCreate(r) ==
    /\ thread[r].pc = "checked"
    /\ attempts < MaxAttempts
    /\ order' = IF order = "payment_failed" THEN "pending_payment" ELSE order
    /\ pays' = [a \in Attempts |-> IF a = attempts + 1 \/ pays[a] = "pending"
                                   THEN "expired" ELSE pays[a]]
    /\ attempts' = attempts + 1
    /\ thread' = [thread EXCEPT ![r].pc = "calling", ![r].att = attempts + 1]
    /\ UNCHANGED <<gateway, paidBy>>
MutInitiateCreateOnly(r) ==
    /\ thread[r].pc = "checked"
    /\ attempts < MaxAttempts
    /\ order' = IF order = "payment_failed" THEN "pending_payment" ELSE order
    /\ SetPay(attempts + 1, "pending")
    /\ attempts' = attempts + 1
    /\ thread' = [thread EXCEPT ![r].pc = "calling", ![r].att = attempts + 1]
    /\ UNCHANGED <<gateway, paidBy>>
InitiateCreate(r) ==
    /\ thread[r].pc = "checked"
    /\ attempts < MaxAttempts
    /\ order' \in IF order = "payment_failed"
                  THEN OrderTargets(order, "retry_payment", "payment") ELSE {order}
    /\ pays' = [a \in Attempts |-> IF a = attempts + 1 THEN "pending"
                                   ELSE IF pays[a] = "pending" THEN "expired"
                                   ELSE pays[a]]
    /\ attempts' = attempts + 1
    /\ thread' = [thread EXCEPT ![r].pc = "calling", ![r].att = attempts + 1]
    /\ UNCHANGED <<gateway, paidBy>>

(* The preview or the push is refused: the row is stored as FAILED from    *)
(* the copy the thread holds, the order is left alone.                     *)
InitiateRefused(r) ==
    /\ thread[r].pc = "calling"
    /\ SetPay(thread[r].att, "failed")
    /\ GoIdle(r)
    /\ UNCHANGED <<order, attempts, gateway, paidBy>>

(* The push reaches the gateway. *)
InitiateAccepted(r) ==
    /\ thread[r].pc = "calling"
    /\ gateway[thread[r].att] = "unknown"
    /\ gateway' = [gateway EXCEPT ![thread[r].att] = "pending"]
    /\ Goto(r, "awaiting")
    /\ UNCHANGED <<order, pays, attempts, paidBy>>

(* ... but what comes back is an HTTP error (a proxy's 502 or 504): the    *)
(* row is stored as FAILED although the customer has been prompted.        *)
InitiateError(r) ==
    /\ thread[r].pc = "awaiting"
    /\ SetPay(thread[r].att, "failed")
    /\ GoIdle(r)
    /\ UNCHANGED <<order, attempts, gateway, paidBy>>

(* ... or the gateway's reply, true when it was sent. *)
InitiateReply(r) ==
    /\ thread[r].pc = "awaiting"
    /\ thread' = [thread EXCEPT ![r].pc = "replied",
                                ![r].reply = Report(gateway[thread[r].att])]
    /\ UNCHANGED <<order, pays, attempts, gateway, paidBy>>

(* _apply_remote_status saves the row outside any transaction, whatever    *)
(* its status has become, and without looking at the amount.               *)
InitiateApply(r) ==
    LET status == Interpret(thread[r].reply) IN
    /\ thread[r].pc = "replied"
    /\ SetPay(thread[r].att, status)
    /\ \/ status = "successful" /\ Goto(r, "markpaid")
       \/ status = "failed" /\ Goto(r, "failorder")
       \/ status = "pending" /\ GoIdle(r)
    /\ UNCHANGED <<order, attempts, gateway, paidBy>>

-----------------------------------------------------------------------------
(***************************************************************************)
(* verify_payment_status                                                   *)
(***************************************************************************)

(* The newest attempt is read; a SUCCESSFUL one is returned as it is.      *)
VerifyRead(r) ==
    /\ thread[r].pc = "idle"
    /\ attempts > 0
    /\ pays[attempts] # "successful"
    /\ thread' = [thread EXCEPT ![r] = Begin("verifying", "verify", attempts)]
    /\ UNCHANGED <<order, pays, attempts, gateway, paidBy>>

(* The row is locked, tested again and the gateway asked; then the lock is *)
(* released with the transaction.  While it is held nobody else writes the *)
(* row, so test and answer are one step.                                   *)
VerifyQuery(r) ==
    /\ thread[r].pc = "verifying"
    /\ \/ /\ pays[thread[r].att] # "successful"
          /\ thread' = [thread EXCEPT ![r].pc = "queried",
                                      ![r].reply = Report(gateway[thread[r].att])]
       \/ GoIdle(r)     \* already SUCCESSFUL, no answer, or an empty one
    /\ UNCHANGED <<order, pays, attempts, gateway, paidBy>>

(* The answer is saved after the lock is gone, whatever the row has become *)
(* in between.                                                             *)
VerifyApply(r) ==
    LET status == InterpretChecked(thread[r].reply) IN
    /\ thread[r].pc = "queried"
    /\ SetPay(thread[r].att, status)
    /\ \/ status = "successful" /\ Goto(r, "markpaid")
       \/ /\ status = "failed"
          /\ IF thread[r].reply = "short" THEN GoIdle(r) ELSE Goto(r, "failorder")
       \/ status = "pending" /\ GoIdle(r)
    /\ UNCHANGED <<order, attempts, gateway, paidBy>>

-----------------------------------------------------------------------------
(***************************************************************************)
(* The order transition that follows, in a transaction of its own.         *)
(***************************************************************************)
MarkPaid(r) ==
    /\ thread[r].pc = "markpaid"
    /\ TryMarkPaid(thread[r].via)
    /\ GoIdle(r)
    /\ UNCHANGED <<pays, attempts, gateway>>

FailOrder(r) ==
    /\ thread[r].pc = "failorder"
    /\ TryFailOrder
    /\ GoIdle(r)
    /\ UNCHANGED <<pays, attempts, gateway>>

(* A process dies, or an exception nobody catches ends the request: a read *)
(* timeout of the push, a deadlock abort of the order transition.          *)
Crash(t) ==
    /\ thread[t].pc # "idle"
    /\ GoIdle(t)
    /\ UNCHANGED <<order, pays, attempts, gateway, paidBy>>

-----------------------------------------------------------------------------
(***************************************************************************)
(* reconcile_payments: list, ask, then lock, test and apply in one         *)
(* transaction.  One attempt of the list is followed at a time.            *)
(***************************************************************************)
ReconcileList(a) ==
    /\ thread[Cron].pc = "idle"
    /\ pays[a] = "pending"
    /\ thread' = [thread EXCEPT ![Cron] = Begin("listed", "reconcile", a)]
    /\ UNCHANGED <<order, pays, attempts, gateway, paidBy>>

ReconcileQuery(a) ==
    /\ thread[Cron].pc = "listed"
    /\ thread[Cron].att = a
    /\ thread' = [thread EXCEPT ![Cron].pc = "polled", ![Cron].reply = Report(gateway[a])]
    /\ UNCHANGED <<order, pays, attempts, gateway, paidBy>>

(* Only "completed" and "failed" are applied; "cancelled" is not among     *)
(* them.                                                                   *)
MutReconcileApply(a) ==
    LET reply == thread[Cron].reply IN
    /\ thread[Cron].pc = "polled"
    /\ thread[Cron].att = a
    /\ IF pays[a] = "pending" /\ reply \in {"collected", "short"}
       THEN /\ SetPay(a, InterpretChecked(reply))
            /\ IF reply = "collected" THEN TryMarkPaid("reconcile")
                                      ELSE UNCHANGED <<order, paidBy>>
       ELSE UNCHANGED <<order, pays, paidBy>>
    /\ GoIdle(Cron)
    /\ UNCHANGED <<attempts, gateway>>
ReconcileApply(a) ==
    LET reply == thread[Cron].reply IN
    /\ thread[Cron].pc = "polled"
    /\ thread[Cron].att = a
    /\ IF pays[a] = "pending" /\ reply \in {"collected", "short", "failed"}
       THEN /\ SetPay(a, InterpretChecked(reply))
            /\ \/ reply = "collected" /\ TryMarkPaid("reconcile")
               \/ reply = "failed" /\ TryFailOrder
               \/ reply = "short" /\ UNCHANGED <<order, paidBy>>
       ELSE UNCHANGED <<order, pays, paidBy>>
    /\ GoIdle(Cron)
    /\ UNCHANGED <<attempts, gateway>>

(***************************************************************************)
(* handle_webhook: the gateway reports a settlement, once, again, late or  *)
(* never.  Payment and order are locked together and change together; a    *)
(* row that is not PENDING makes it a no-op.                               *)
(***************************************************************************)
MutWebhook(a) ==
    /\ gateway[a] \in Settlement
    /\ pays[a] # "successful"
    /\ SetPay(a, InterpretChecked(gateway[a]))
    /\ \/ gateway[a] = "collected" /\ TryMarkPaid("webhook")
       \/ Declines(gateway[a]) /\ TryFailOrder
       \/ gateway[a] = "short" /\ UNCHANGED <<order, paidBy>>
    /\ UNCHANGED <<attempts, gateway, thread>>
Webhook(a) ==
    /\ gateway[a] \in Settlement
    /\ pays[a] = "pending"
    /\ SetPay(a, InterpretChecked(gateway[a]))
    /\ \/ gateway[a] = "collected" /\ TryMarkPaid("webhook")
       \/ Declines(gateway[a]) /\ TryFailOrder
       \/ gateway[a] = "short" /\ UNCHANGED <<order, paidBy>>
    /\ UNCHANGED <<attempts, gateway, thread>>

(* The customer answers the prompt, or lets it lapse. *)
GatewaySettle(a) ==
    /\ gateway[a] = "pending"
    /\ \E s \in Settlement : gateway' = [gateway EXCEPT ![a] = s]
    /\ UNCHANGED <<order, pays, attempts, thread, paidBy>>

-----------------------------------------------------------------------------
(***************************************************************************)
(* The order-level actions that do not go through a payment: the buyer's   *)
(* cancel, the administrator's mark-paid, refund and force-cancel, and the *)
(* completion that the last item's completion brings.                      *)
(***************************************************************************)
BuyerCancel ==
    /\ order' \in OrderTargets(order, "cancel", "buyer")
    /\ UNCHANGED <<pays, attempts, gateway, thread, paidBy>>

AdminMarkPaid ==
    /\ order' \in OrderTargets(order, "mark_paid", "admin")
    /\ paidBy' = "admin"
    /\ UNCHANGED <<pays, attempts, gateway, thread>>

AdminEnd ==
    /\ order' \in OrderTargets(order, "refund", "admin")
                  \cup OrderTargets(order, "force_cancel", "admin")
    /\ UNCHANGED <<pays, attempts, gateway, thread, paidBy>>

CompleteOrder ==
    /\ order = "paid"
    /\ order' = "completed"
    /\ UNCHANGED <<pays, attempts, gateway, thread, paidBy>>

-----------------------------------------------------------------------------
RequestStep(r) == \/ InitiateCheck(r) \/ InitiateCreate(r) \/ InitiateRefused(r)
                  \/ InitiateAccepted(r) \/ InitiateError(r) \/ InitiateReply(r)
                  \/ InitiateApply(r)
                  \/ VerifyRead(r) \/ VerifyQuery(r) \/ VerifyApply(r)
                  \/ MarkPaid(r) \/ FailOrder(r)

AttemptStep(a) == \/ ReconcileList(a) \/ ReconcileQuery(a) \/ ReconcileApply(a)
                  \/ Webhook(a) \/ GatewaySettle(a)

OrderStep == BuyerCancel \/ AdminMarkPaid \/ AdminEnd \/ CompleteOrder

Next == \/ \E r \in Requests : RequestStep(r)
        \/ \E t \in Threads : Crash(t)
        \/ \E a \in Attempts : AttemptStep(a)
        \/ OrderStep

Spec == Init /\ [][Next]_vars

(* No request is cut short; only cron may die. *)
NextSerial == \/ \E r \in Requests : RequestStep(r)
              \/ Crash(Cron)
              \/ \E a \in Attempts : AttemptStep(a)
              \/ OrderStep

(***************************************************************************)
(* cron starts the command every few minutes, its passes come to every     *)
(* attempt that is still PENDING (Reconcile says when they do), and a      *)
(* gateway that is asked again and again answers now and then.  A run may  *)
(* die, but not every run.  Nothing is assumed of customers, buyers,       *)
(* webhooks or request threads.                                            *)
(***************************************************************************)
Fairness == \A a \in Attempts : /\ SF_vars(ReconcileList(a))
                                /\ SF_vars(ReconcileQuery(a))
                                /\ SF_vars(ReconcileApply(a))

SpecSerial == Init /\ [][NextSerial]_vars /\ Fairness

FairSpec == Spec /\ Fairness

-----------------------------------------------------------------------------
(***************************************************************************)
(* Properties                                                              *)
(***************************************************************************)

(* A row is stored as SUCCESSFUL only if ClickPesa really took money for   *)
(* that attempt, however late, stale or repeated the report that set it    *)
(* (payment_service: webhook, verify, initiate; reconcile_one).            *)
SuccessIsFunded == \A a \in Attempts : pays[a] = "successful" => Funds(gateway[a])

(* An EXPIRED attempt has been superseded: the newest attempt of an order, *)
(* the one that status polling and verify look at, is never EXPIRED.       *)
ExpiredIsSuperseded == \A a \in Attempts : pays[a] = "expired" => a < attempts

(* Where one request at a time is served and none dies, money that is on    *)
(* record reaches the order: no interleaving of webhook, cron, buyer and   *)
(* administrator with a single request thread leaves a SUCCESSFUL row on   *)
(* an order that still waits for payment, unless the thread is just about  *)
(* to move it.                                                             *)
SettledRowSettlesOrder ==
    (\E a \in Attempts : pays[a] = "successful")
        => \/ order \notin {"pending_payment", "payment_failed"}
           \/ \E r \in Requests : thread[r].pc = "markpaid"

(* The order follows the abstract promise: what is funded, declined and    *)
(* vouched for is read off the gateway and the history.                    *)
Promise == INSTANCE OrderPromise WITH
              status   <- order,
              funded   <- \E a \in Attempts : Funds(gateway[a]),
              declined <- \E a \in Attempts : Declines(gateway[a]),
              vouched  <- paidBy = "admin"

OrderKeepsPromise == Promise!Spec

(* reconcile_payments makes up for a lost webhook: an attempt that is      *)
(* PENDING here and collected or failed at the gateway does not stay       *)
(* PENDING.                                                                *)
LostWebhookIsMadeUpFor ==
    \A a \in Attempts :
        (pays[a] = "pending" /\ gateway[a] \in {"collected", "short", "failed"})
            ~> (pays[a] # "pending")

-----------------------------------------------------------------------------
(***************************************************************************)
(* What the documentation says and the code does not keep.                 *)
(***************************************************************************)

(* payments/models.py: of an order's attempts "at most one is PENDING at a *)
(* time".  SpecSerial keeps it - one request thread writes no answer into  *)
(* a row it has superseded itself, and cron and webhook write no row back  *)
(* to PENDING; with two request threads it fails.                          *)
OnePendingAttempt ==
    \A a, b \in Attempts : pays[a] = "pending" /\ pays[b] = "pending" => a = b

(* verify_payment_status: "Idempotent - once a payment is SUCCESSFUL it is *)
(* returned as-is": verify takes no row out of SUCCESSFUL.                 *)
SuccessfulIsFinal ==
    [][\A r \in Requests, a \in Attempts :
           VerifyApply(r) /\ pays[a] = "successful" => pays'[a] = "successful"]_vars

(* _mark_paid_if_possible swallows a refused transition as "already PAID   *)
(* (e.g., another attempt won the race)".                                  *)
RefusedMeansAlreadyPaid ==
    [][\A r \in Requests : MarkPaid(r) /\ order' = order => paidBy # "nobody"]_vars

(* reconcile_payments: "a dropped webhook can't strand a completed         *)
(* payment": collected money does not leave the order waiting to be paid.  *)
CollectedMoneyIsNotStranded ==
    \A a \in Attempts :
        gateway[a] = "collected" ~> order \notin {"pending_payment", "payment_failed"}

(* reconcile_payments: "A terminal status from the gateway is applied      *)
(* exactly as the webhook would have applied it"; the webhook fails the    *)
(* row of a cancelled attempt.                                             *)
CancelledAttemptIsResolved ==
    \A a \in Attempts :
        (pays[a] = "pending" /\ gateway[a] = "cancelled") ~> (pays[a] # "pending")

(* CLICKPESA_INTEGRATION.md: "The order can only reach PAID through a      *)
(* verified PAYMENT RECEIVED webhook or a manual verify against            *)
(* ClickPesa".  The administrator's action is left out of the question.    *)
PaidByWebhookOrVerify == paidBy \in {"nobody", "webhook", "verify", "admin"}
=============================================================================
