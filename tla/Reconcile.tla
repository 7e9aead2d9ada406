----------------------------- MODULE Reconcile -----------------------------
(***************************************************************************)
(* The reconcile_payments command over the payments of many orders: which  *)
(* of them a pass takes up and in which order.  Payments follows what one  *)
(* attempt goes through; here an attempt is only pending or resolved, and  *)
(* the question is whether a pass ever comes to it.                        *)
(*                                                                         *)
(* A pass fetches the oldest PENDING attempts that are past the window, at *)
(* most --max of them, and works through that list: each attempt is asked  *)
(* about, locked, tested again and resolved.  Meanwhile the webhook, the   *)
(* buyer's verify and initiate_payment write the same rows.  The last two  *)
(* save an answer they got earlier, whatever the row says by then, so that *)
(* an attempt that was resolved can be PENDING again and come back with    *)
(* its old place in the list.                                              *)
(*                                                                         *)
(* An operator whose name starts with Mut is a seeded fault: a variant of  *)
(* the definition after it that some property has to tell from the code.   *)
(***************************************************************************)
EXTENDS Naturals, FiniteSets, SequencesExt

CONSTANTS Attempts,   \* bound: how many attempts are made
          max_count   \* --max: the most attempts a pass takes up

ASSUME ReconcileAssumption == Attempts \in Nat \ {0} /\ max_count \in Nat \ {0}

VARIABLES created,    \* attempts made so far, numbered by created_at
          due,        \* how many of them are older than the window
          pays,       \* Payment.status of each attempt
          gateway,    \* what ClickPesa knows of it
          calls,      \* requests that are about to save what they know of it
          list,       \* what the pass has still to do
          answer,     \* the gateway's answer about the head of the list
          running     \* a pass is under way

vars == <<created, due, pays, gateway, calls, list, answer, running>>

(* What a pass of the command keeps.                                       *)
pass == <<list, answer, running>>

Ids == 1..Attempts

(* "gone": ClickPesa has no record, or the customer cancelled.             *)
GatewayState == {"waiting", "completed", "failed", "gone"}

Init == /\ created = 0
        /\ due = 0
        /\ pays = [a \in Ids |-> "none"]
        /\ gateway = [a \in Ids |-> "waiting"]
        /\ calls = [a \in Ids |-> {}]
        /\ list = << >>
        /\ answer = "none"
        /\ running = FALSE

Pending == {a \in Ids : pays[a] = "pending"}

-----------------------------------------------------------------------------
(***************************************************************************)
(* The rest of the system.                                                 *)
(***************************************************************************)

(* initiate_payment creates the row and goes on to push it.                *)
Create == /\ created < Attempts
          /\ created' = created + 1
          /\ pays' = [pays EXCEPT ![created + 1] = "pending"]
          /\ calls' = [calls EXCEPT ![created + 1] = {"push"}]
          /\ UNCHANGED <<due, gateway, pass>>

(* The push is answered: "processing" (_apply_remote_status saves PENDING) *)
(* or an error, though the customer may have been asked (FAILED).          *)
PushEnds(a) ==
    /\ "push" \in calls[a]
    /\ calls' = [calls EXCEPT ![a] = @ \ {"push"}]
    /\ \E s \in {"pending", "failed"} : pays' = [pays EXCEPT ![a] = s]
    /\ UNCHANGED <<created, due, gateway, pass>>

(* Time passes: the oldest attempt inside the window leaves it.            *)
Age == /\ due < created
       /\ due' = due + 1
       /\ UNCHANGED <<created, pays, gateway, calls, pass>>

GatewaySettle(a) ==
    /\ a <= created
    /\ gateway[a] = "waiting"
    /\ \E g \in GatewayState \ {"waiting"} : gateway' = [gateway EXCEPT ![a] = g]
    /\ UNCHANGED <<created, due, pays, calls, pass>>

(* handle_webhook, which also fails a cancelled attempt.                   *)
Webhook(a) ==
    /\ pays[a] = "pending"
    /\ gateway[a] # "waiting"
    /\ pays' = [pays EXCEPT ![a] = IF gateway[a] = "completed" THEN "successful" ELSE "failed"]
    /\ UNCHANGED <<created, due, gateway, calls, pass>>

(* verify_payment_status takes any row that is not SUCCESSFUL and saves    *)
(* what the gateway says: its final word, FAILED for a cancelled attempt,  *)
(* PENDING for one it does not know, nothing if the reply is empty.        *)
Verify(a) ==
    /\ a <= created
    /\ pays[a] # "successful"
    /\ gateway[a] # "waiting"
    /\ \E s \in CASE gateway[a] = "completed" -> {"successful"}
                  [] gateway[a] = "failed"    -> {"failed"}
                  [] gateway[a] = "gone"      -> {"failed", "pending"} :
            pays' = [pays EXCEPT ![a] = s]
    /\ UNCHANGED <<created, due, gateway, calls, pass>>

(* It asks while the gateway is still processing, and gives up the row's   *)
(* lock with that answer in hand ...                                       *)
VerifyAsks(a) ==
    /\ a <= created
    /\ gateway[a] = "waiting"
    /\ calls' = [calls EXCEPT ![a] = @ \cup {"verify"}]
    /\ UNCHANGED <<created, due, pays, gateway, pass>>

(* ... and saves PENDING, whatever the row has become.                     *)
VerifyEnds(a) ==
    /\ "verify" \in calls[a]
    /\ calls' = [calls EXCEPT ![a] = @ \ {"verify"}]
    /\ pays' = [pays EXCEPT ![a] = "pending"]
    /\ UNCHANGED <<created, due, gateway, pass>>

(* The buyer starts over: initiate_payment expires the older attempt.      *)
Supersede(a) ==
    /\ pays[a] = "pending"
    /\ pays' = [pays EXCEPT ![a] = "expired"]
    /\ UNCHANGED <<created, due, gateway, calls, pass>>

-----------------------------------------------------------------------------
(***************************************************************************)
(* Command.handle                                                          *)
(***************************************************************************)

(* filter(PENDING, created_at < cutoff).order_by("created_at")[:max]       *)
MutBatch == LET all == SetToSortSeq({a \in Pending : a <= due}, LAMBDA a, b : a > b)
            IN  SubSeq(all, 1, IF Len(all) < max_count THEN Len(all) ELSE max_count)
Batch == LET all == SetToSortSeq({a \in Pending : a <= due}, LAMBDA a, b : a < b)
         IN  SubSeq(all, 1, IF Len(all) < max_count THEN Len(all) ELSE max_count)

PassBegin == /\ ~ running
             /\ running' = TRUE
             /\ list' = Batch
             /\ UNCHANGED <<created, due, pays, gateway, calls, answer>>

PassEnd == /\ running
           /\ list = << >>
           /\ running' = FALSE
           /\ UNCHANGED <<created, due, pays, gateway, calls, list, answer>>

(* reconcile_one asks; an error skips the attempt.                         *)
Query == /\ list # << >>
         /\ answer = "none"
         /\ answer' = gateway[Head(list)]
         /\ UNCHANGED <<created, due, pays, gateway, calls, list, running>>

QueryError == /\ list # << >>
              /\ answer = "none"
              /\ list' = Tail(list)
              /\ UNCHANGED <<created, due, pays, gateway, calls, answer, running>>

(* ... and applies "completed" and "failed" to a row that is still         *)
(* PENDING under its lock; nothing else is terminal.                       *)
Apply == LET a == Head(list) IN
         /\ answer # "none"
         /\ pays' = IF pays[a] = "pending" /\ answer \in {"completed", "failed"}
                    THEN [pays EXCEPT ![a] = IF answer = "completed" THEN "successful"
                                                                     ELSE "failed"]
                    ELSE pays
         /\ list' = Tail(list)
         /\ answer' = "none"
         /\ UNCHANGED <<created, due, gateway, calls, running>>

(* The command dies; cron starts another one.                              *)
Crash == /\ running
         /\ running' = FALSE
         /\ list' = << >>
         /\ answer' = "none"
         /\ UNCHANGED <<created, due, pays, gateway, calls>>

-----------------------------------------------------------------------------
Pass == PassBegin \/ PassEnd \/ Query \/ Apply

Next == \/ Create \/ Age
        \/ \E a \in Ids : \/ GatewaySettle(a) \/ Webhook(a) \/ Supersede(a)
                          \/ PushEnds(a) \/ Verify(a) \/ VerifyAsks(a) \/ VerifyEnds(a)
        \/ Pass \/ QueryError \/ Crash

Spec == Init /\ [][Next]_vars

(* Time passes and cron keeps starting the command.  A question about an   *)
(* attempt that is asked in pass after pass is answered some day, and the  *)
(* command does not die each time right after the answer.  Webhooks may    *)
(* all be lost.                                                            *)
Fairness == /\ WF_vars(Age)
            /\ WF_vars(PassBegin) /\ WF_vars(PassEnd)
            /\ \A a \in Ids : /\ SF_vars(list # << >> /\ Head(list) = a /\ Query)
                              /\ SF_vars(list # << >> /\ Head(list) = a /\ Apply)
            /\ WF_vars(Query \/ QueryError)

FairSpec == Spec /\ Fairness

-----------------------------------------------------------------------------
PaymentStatus == {"pending", "successful", "failed", "expired"}

TypeOK == /\ created \in 0..Attempts
          /\ due \in 0..created
          /\ pays \in [Ids -> PaymentStatus \cup {"none"}]
          /\ gateway \in [Ids -> GatewayState]
          /\ calls \in [Ids -> SUBSET {"push", "verify"}]
          /\ list \in Seq(Ids) /\ Len(list) <= max_count
          /\ answer \in GatewayState \cup {"none"}
          /\ running \in BOOLEAN

(* The safety net within its reach: an attempt that is settled at the      *)
(* gateway stays PENDING only if, again and again, --max older attempts of *)
(* which the gateway says nothing final are PENDING as well.  Older ones   *)
(* that are settled do not keep it out for ever, though a late answer can  *)
(* put each of them back into the list; lost webhooks do not matter.       *)
ReachedIsResolved ==
    \A a \in Ids :
        (pays[a] = "pending" /\ gateway[a] \in {"completed", "failed"})
            ~> \/ pays[a] # "pending"
               \/ Cardinality({b \in Pending : b < a /\ gateway[b] \in {"waiting", "gone"}})
                      >= max_count

-----------------------------------------------------------------------------
(***************************************************************************)
(* What the documentation says and the code does not keep.                 *)
(***************************************************************************)

(* reconcile_payments.py: the command "queries ClickPesa's own             *)
(* transaction-status API directly for any Payment still in pending past a *)
(* short window ... so a dropped webhook can't strand a completed payment".*)
EverySettledIsResolved ==
    \A a \in Ids : (pays[a] = "pending" /\ gateway[a] \in {"completed", "failed"})
                       ~> pays[a] # "pending"
=============================================================================
