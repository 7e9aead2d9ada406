---------------------------- MODULE Announcements ----------------------------
(***************************************************************************)
(* Who is told that a payment was resolved: the audit rows and in-app      *)
(* notifications that handle_webhook, verify_payment_status and            *)
(* reconcile_one write after they have moved the payment and its order.    *)
(*                                                                         *)
(* Both services swallow whatever goes wrong with an insert.  The webhook  *)
(* and the reconciler write inside a transaction, and there a failed       *)
(* insert marks the transaction for rollback: later queries raise, and     *)
(* leaving the block rolls back, silently if nothing raised.  verify runs  *)
(* in autocommit mode.  One payment is resolved, call after call; how      *)
(* calls interleave is the subject of Payments.                            *)
(***************************************************************************)
EXTENDS Naturals, Sequences, SequencesExt

CONSTANTS Sellers,    \* the sellers of the order's items
          MaxCalls    \* bound: calls that resolve the payment

VARIABLES outcome,    \* what the gateway has to say of the payment
          db,         \* the committed rows
          call,       \* the call under way: what it has written, what it has yet to tell
          calls,      \* number of calls so far
          answer,     \* the answer of the last call
          moved,      \* history: the order was moved by a committed call
          hushed      \* history: an announcement was lost in autocommit mode

vars == <<outcome, db, call, calls, answer, moved, hushed>>

Callers == {"webhook", "reconcile", "verify"}
InTransaction(by) == by # "verify"

People == Sellers \cup {"buyer"}
Log == "log"

(* A row to be written; reads says that a query outside the services' try  *)
(* comes before it (order.buyer, the order's sellers).                     *)
Note(to, reads) == [to |-> to, reads |-> reads]

Idle == [pc |-> "idle", by |-> "verify", rows |-> 0, broken |-> FALSE, notes |-> <<>>]

Fresh(status) == [payment |-> "pending", order |-> status, told |-> [p \in People |-> 0],
                  logged |-> 0]

Init == /\ outcome \in {"completed", "failed", "mismatch"}
        /\ \E status \in {"pending_payment", "paid"} : db = Fresh(status)
        /\ call = Idle
        /\ calls = 0
        /\ answer = "none"
        /\ moved = FALSE /\ hushed = FALSE

-----------------------------------------------------------------------------
(***************************************************************************)
(* The announcements, in their order.                                      *)
(***************************************************************************)
SellerNotes == LET seller == SetToSeq(Sellers)
               IN  [n \in DOMAIN seller |-> Note(seller[n], n = 1)]

(* AuditLogService.log and _notify_order_change, after transition_order. *)
OrderNotes == <<Note(Log, FALSE), Note("buyer", TRUE)>>
                  \o IF outcome = "completed" THEN SellerNotes ELSE <<>>

(* _notify_payment and _audit_payment_event. *)
PaymentNotes(by) ==
    (IF outcome = "mismatch" \/ (outcome = "failed" /\ by = "webhook")
     THEN <<Note("buyer", TRUE)>> ELSE <<>>)
    \o IF by # "reconcile" THEN <<Note(Log, FALSE)>> ELSE <<>>

-----------------------------------------------------------------------------
(* The rows the call sees; in autocommit mode a write is a commit. *)
Rows == IF InTransaction(call.by) THEN call.rows ELSE db

Write(rows, next) == IF InTransaction(call.by)
                     THEN call' = [next EXCEPT !.rows = rows] /\ UNCHANGED db
                     ELSE call' = next /\ db' = rows

(* Webhook and reconciler leave a settled payment alone, verify only a     *)
(* successful one.                                                         *)
Begin(by) ==
    /\ call.pc = "idle" /\ calls < MaxCalls
    /\ calls' = calls + 1
    /\ IF db.payment = "pending" \/ (by = "verify" /\ db.payment = "failed")
       THEN /\ call' = [Idle EXCEPT !.pc = "settle", !.by = by,
                                    !.rows = IF InTransaction(by) THEN db ELSE 0]
            /\ answer' = "none"
       ELSE call' = Idle /\ answer' = "ok"
    /\ UNCHANGED <<outcome, db, moved, hushed>>

Settle ==
    /\ call.pc = "settle"
    /\ Write([Rows EXCEPT !.payment = IF outcome = "completed" THEN "successful" ELSE "failed"],
             IF outcome = "mismatch"
             THEN [call EXCEPT !.pc = "notes", !.notes = PaymentNotes(call.by)]
             ELSE [call EXCEPT !.pc = "move"])
    /\ UNCHANGED <<outcome, calls, answer, moved, hushed>>

(* _mark_paid_if_possible, _fail_order_if_possible: a transaction of its   *)
(* own, or a savepoint of the caller's.  A refusal is not announced.       *)
Move ==
    /\ call.pc = "move"
    /\ IF Rows.order = "pending_payment"
       THEN /\ Write([Rows EXCEPT !.order = IF outcome = "completed" THEN "paid"
                                            ELSE "payment_failed"],
                     [call EXCEPT !.pc = "notes", !.notes = OrderNotes \o PaymentNotes(call.by)])
            /\ moved' = (moved \/ ~ InTransaction(call.by))
       ELSE /\ call' = [call EXCEPT !.pc = "notes", !.notes = PaymentNotes(call.by)]
            /\ UNCHANGED <<db, moved>>
    /\ UNCHANGED <<outcome, calls, answer, hushed>>

Told(rows, to) == IF to = Log THEN [rows EXCEPT !.logged = @ + 1]
                  ELSE [rows EXCEPT !.told[to] = @ + 1]

MutAnnounce ==
    /\ call.pc = "notes" /\ call.notes # <<>> /\ ~ call.broken
    /\ db' = Told(db, Head(call.notes).to)
    /\ call' = [call EXCEPT !.notes = Tail(@)]
    /\ UNCHANGED <<outcome, calls, answer, moved, hushed>>
Announce ==
    /\ call.pc = "notes" /\ call.notes # <<>> /\ ~ call.broken
    /\ Write(Told(Rows, Head(call.notes).to), [call EXCEPT !.notes = Tail(@)])
    /\ UNCHANGED <<outcome, calls, answer, moved, hushed>>

AnnounceFails ==
    /\ call.pc = "notes" /\ call.notes # <<>> /\ ~ call.broken
    /\ call' = [call EXCEPT !.notes = Tail(@), !.broken = InTransaction(call.by)]
    /\ hushed' = (hushed \/ ~ InTransaction(call.by))
    /\ UNCHANGED <<outcome, db, calls, answer, moved>>

(* In a broken transaction an insert fails unseen, a query raises. *)
Stumble ==
    /\ call.pc = "notes" /\ call.notes # <<>> /\ call.broken
    /\ IF Head(call.notes).reads
       THEN call' = Idle /\ answer' = "error"
       ELSE call' = [call EXCEPT !.notes = Tail(@)] /\ UNCHANGED answer
    /\ UNCHANGED <<outcome, db, calls, moved, hushed>>

(* The end of the block commits, or rolls back without a word. *)
Finish ==
    /\ call.pc = "notes" /\ call.notes = <<>>
    /\ IF InTransaction(call.by) /\ ~ call.broken
       THEN db' = call.rows /\ moved' = (moved \/ call.rows.order # db.order)
       ELSE UNCHANGED <<db, moved>>
    /\ call' = Idle
    /\ answer' = "ok"
    /\ UNCHANGED <<outcome, calls, hushed>>

Crash == /\ call.pc # "idle"
         /\ call' = Idle
         /\ answer' = "error"
         /\ hushed' = (hushed \/ ~ InTransaction(call.by))
         /\ UNCHANGED <<outcome, db, calls, moved>>

Next == \/ \E by \in Callers : Begin(by)
        \/ Settle \/ Move \/ Announce \/ AnnounceFails \/ Stumble \/ Finish \/ Crash

Spec == Init /\ [][Next]_vars

-----------------------------------------------------------------------------
RowsOK(rows) == /\ rows.payment \in {"pending", "successful", "failed"}
                /\ rows.order \in {"pending_payment", "paid", "payment_failed"}
                /\ rows.told \in [People -> Nat] /\ rows.logged \in Nat

TypeOK == /\ RowsOK(db)
          /\ call.pc \in {"idle", "settle", "move", "notes"}
          /\ call.by \in Callers
          /\ InTransaction(call.by) => RowsOK(call.rows)
          /\ calls \in 0..MaxCalls
          /\ answer \in {"none", "ok", "error"}

(* Whoever should know of a settled payment does: the buyer of every       *)
(* settlement that moved the order or found a wrong amount, the sellers of *)
(* every sale - even if inserts fail and processes die, unless it was      *)
(* verify_payment_status, in autocommit mode, that lost the announcement.  *)
Due == IF outcome = "completed" THEN (IF moved THEN People ELSE {})
       ELSE IF moved \/ outcome = "mismatch" THEN {"buyer"} ELSE {}

SettledIsAnnounced ==
    call.pc = "idle" /\ db.payment # "pending" /\ ~ hushed => \A p \in Due : db.told[p] > 0

(* ... and nobody is told of a payment that is then rolled back. *)
AnnouncedIffSettled ==
    /\ SettledIsAnnounced
    /\ db.payment = "pending" => db.logged = 0 /\ \A p \in People : db.told[p] = 0

-----------------------------------------------------------------------------
(***************************************************************************)
(* What the documentation says and the code does not keep.                 *)
(***************************************************************************)
(* auditlog/services.py: "logging must never break the business action it  *)
(* records"; notifications/services.py: "a lifecycle transition must not   *)
(* fail because a notification could not be written".                      *)
AnsweredIsSettled == call.pc = "idle" /\ answer = "ok" => db.payment # "pending"

(* ARCHITECTURE.md: "the mark_paid/fail_payment notifications above        *)
(* already surface as payment_result; no duplicate hook".                  *)
BuyerIsToldOnce == calls <= 1 => db.told["buyer"] <= 1
=============================================================================
