------------------------------- MODULE Reviews -------------------------------
(***************************************************************************)
(* Reviews of the items of one order (reviews/serializers.py).  The        *)
(* serializer reads the item, unlocked, and refuses a review of one that   *)
(* is not completed or has been reviewed; the row is inserted later, and   *)
(* the order may have moved on (Fulfilment).                               *)
(***************************************************************************)
EXTENDS Fulfilment, Naturals

CONSTANTS Requests,
          NoItem     \* the request is idle

ASSUME ReviewsAssumption == NoItem \notin Items

VARIABLES reviews,    \* how many reviews each item has
          req         \* the item each request is about to review

reviewVars == <<vars, reviews, req>>

ReviewInit ==
        /\ Init
        /\ reviews = [i \in Items |-> 0]
        /\ req = [r \in Requests |-> NoItem]

(* ReviewCreateSerializer.validate, for the buyer and for anybody else. *)
MutMayReview(user, i) == user = "buyer" /\ reviews[i] = 0
MayReview(user, i) == user = "buyer" /\ item[i] = "completed" /\ reviews[i] = 0

Validate(r, user, i) == /\ req[r] = NoItem
                        /\ MayReview(user, i)
                        /\ req' = [req EXCEPT ![r] = i]
                        /\ UNCHANGED <<vars, reviews>>

(* create; the unique constraint on order_item refuses a second row. *)
Create(r) == /\ req[r] # NoItem
             /\ req' = [req EXCEPT ![r] = NoItem]
             /\ reviews' = [reviews EXCEPT ![req[r]] = 1]
             /\ UNCHANGED vars

ReviewNext ==
        \/ Next /\ UNCHANGED <<reviews, req>>
        \/ \E r \in Requests : \/ \E user \in {"buyer", "other"}, i \in Items : Validate(r, user, i)
                               \/ Create(r)

ReviewSpec == ReviewInit /\ [][ReviewNext]_reviewVars

-----------------------------------------------------------------------------
ReviewTypeOK ==
          /\ TypeOK
          /\ reviews \in [Items -> Nat]
          /\ req \in [Requests -> Items \cup {NoItem}]

(* A seller's rating counts bought things only, each once: a reviewed item *)
(* was paid for, whatever the order went through before and after the      *)
(* serializer looked, and no two requests have reviewed the same item.     *)
ReviewedWasBought ==
    \A i \in Items : reviews[i] > 0 => i \in credited /\ reviews[i] = 1

-----------------------------------------------------------------------------
(***************************************************************************)
(* What the documentation says and the code does not keep.                 *)
(***************************************************************************)
(* "A review is tied to a specific completed order item": a refund that    *)
(* cancels the item, before the row is written or after, keeps the review. *)
ReviewedIsCompleted == \A i \in Items : reviews[i] > 0 => item[i] = "completed"
=============================================================================
