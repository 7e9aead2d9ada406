----------------------------- MODULE MCServices -----------------------------
(***************************************************************************)
(* Eight services on small instances: an order and the reviews of its      *)
(* items (Fulfilment, Reviews), who may move an order (OrderViews, on an   *)
(* order of its own), the pictures of a product (Gallery), the carts       *)
(* before an order (CartLines), the chat (Conversations), the gateway's    *)
(* client (Gateway) and what is told of a payment (Announcements).  No two *)
(* of them share a row that moves, so one run checks them side by side:    *)
(* Init chooses which one moves, the others stay in their initial states.  *)
(***************************************************************************)
EXTENDS Reviews, Sequences, FiniteSets, TLC

CONSTANTS Products, MAX_QUANTITY, MaxRows, MaxChosen,   \* CartLines
          Contexts, Openers, MaxThreads, MaxMessages,   \* Conversations
          MaxImages,                                    \* Gallery
          MaxCalls, Sellers,                            \* Gateway, Announcements
          Viewers, SaleLines,                           \* OrderViews
          Lines, Nobody                                 \* PaymentLocks

(* A cart has room for so many pieces of each of finitely many products;   *)
(* the server's log is no seller; an order has an item; the items of an    *)
(* order are a sequence and nobody is no worker.                           *)
ASSUME CartAssumption == IsFiniteSet(Products) /\ MAX_QUANTITY \in Nat
ASSUME AnnounceAssumption == IsFiniteSet(Sellers) /\ "log" \notin Sellers
ASSUME ViewAssumption == SaleLines # {}
ASSUME LockAssumption ==
    /\ \A o \in DOMAIN Lines : /\ Len(Lines[o]) \in Nat
                              /\ DOMAIN Lines[o] = 1..Len(Lines[o])
    /\ Nobody \notin Requests

VARIABLES part,    \* which of the eight moves
          own, visitor, line, rows, cartReq, chosen, ordered, overlapped, capped,
          threads, messages, notices, chatReq, crossed, unsaid,
          image, disk, stored, imageReq, listed, lost, misread, diskLost, disturbed,
          token, valid, gatewayCall, gatewayCalls, done, sent, result,
          outcome, db, call, calls, answer, moved, hushed,
          sale, saleLine, saleCredited, parties, page, stale, misled, hand,
          status, attempt, rowLock, tx

Cart    == INSTANCE CartLines WITH req <- cartReq, crossed <- overlapped
Chat    == INSTANCE Conversations WITH req <- chatReq
Picture == INSTANCE Gallery WITH req <- imageReq
Client  == INSTANCE Gateway WITH call <- gatewayCall, calls <- gatewayCalls
Payment == INSTANCE Announcements
View    == INSTANCE OrderViews WITH Items <- SaleLines, Users <- Viewers, order <- sale,
                                    item <- saleLine, credited <- saleCredited

Locks   == INSTANCE PaymentLocks WITH Workers <- Requests, order <- status,
                                      lock <- rowLock

cartVars == <<own, visitor, line, rows, cartReq, chosen, ordered, overlapped, capped>>
chatVars == <<threads, messages, notices, chatReq, crossed, unsaid>>
pictureVars == <<image, disk, stored, imageReq, listed, lost, misread, diskLost, disturbed>>
clientVars == <<token, valid, gatewayCall, gatewayCalls, done, sent, result>>
paymentVars == <<outcome, db, call, calls, answer, moved, hushed>>
saleVars == <<sale, saleLine, saleCredited, parties, page, stale, misled, hand>>
lockVars == <<status, attempt, rowLock, tx>>
allVars == <<part, lockVars, saleVars, reviewVars, cartVars, chatVars, pictureVars,
             clientVars, paymentVars>>

Parts == {"order", "view", "picture", "cart", "chat", "client", "payment", "locks"}

(* What the customer sells matters to a cart; what the gateway will say,   *)
(* and the order's status, to a payment.                                   *)
MCInit == /\ part \in Parts
          /\ ReviewInit /\ Cart!Init /\ Chat!Init /\ Picture!Init /\ Client!Init /\ Payment!Init
          /\ View!ViewInit /\ Locks!Init
          /\ part # "cart" => own = {}
          /\ part # "payment" => outcome = "completed" /\ db.order = "paid"
          /\ part # "view" => parties = CHOOSE x \in View!Parties : TRUE

MCNext ==
    \/ /\ part = "order" /\ ReviewNext
       /\ UNCHANGED <<part, lockVars, saleVars, pictureVars, cartVars, chatVars, clientVars,
                      paymentVars>>
    \/ /\ part = "view" /\ View!ViewNext
       /\ UNCHANGED <<part, lockVars, reviewVars, pictureVars, cartVars, chatVars, clientVars,
                      paymentVars>>
    \/ /\ part = "picture" /\ Picture!Next
       /\ UNCHANGED <<part, lockVars, saleVars, reviewVars, cartVars, chatVars, clientVars,
                      paymentVars>>
    \/ /\ part = "cart" /\ Cart!Next
       /\ UNCHANGED <<part, lockVars, saleVars, reviewVars, pictureVars, chatVars, clientVars,
                      paymentVars>>
    \/ /\ part = "chat" /\ Chat!Next
       /\ UNCHANGED <<part, lockVars, saleVars, reviewVars, pictureVars, cartVars, clientVars,
                      paymentVars>>
    \/ /\ part = "client" /\ Client!Next
       /\ UNCHANGED <<part, lockVars, saleVars, reviewVars, pictureVars, cartVars, chatVars,
                      paymentVars>>
    \/ /\ part = "payment" /\ Payment!Next
       /\ UNCHANGED <<part, lockVars, saleVars, reviewVars, pictureVars, cartVars, chatVars,
                      clientVars>>
    \/ /\ part = "locks" /\ Locks!Next
       /\ UNCHANGED <<part, saleVars, reviewVars, pictureVars, cartVars, chatVars, clientVars,
                      paymentVars>>

MCSpec == MCInit /\ [][MCNext]_allVars

MCTypeOK == /\ part \in Parts
            /\ ReviewTypeOK /\ Cart!TypeOK /\ Chat!TypeOK /\ Picture!TypeOK
            /\ Client!TypeOK /\ Payment!TypeOK /\ View!ViewTypeOK /\ Locks!TypeOK

(* The properties of the others, for the configurations. *)
ChosenIsHeldOnce == Cart!ChosenIsHeldOnce
OneThreadUnlessCrossed == Chat!OneThreadUnlessCrossed
RecipientIsTold == Chat!RecipientIsTold
OnePrimaryAtRest == Picture!OnePrimaryAtRest
PictureIsKept == Picture!PictureIsKept
RetryIsHarmless == Client!RetryIsHarmless
AnnouncedIffSettled == Payment!AnnouncedIffSettled
OfferedIsAccepted == View!OfferedIsAccepted
EachMovesHisOwn == View!EachMovesHisOwn
DeadlockNeedsCrossing == Locks!DeadlockNeedsCrossing

(* A product is asked about by its buyer; a direct chat, opened by both. *)
MCOpeners == [c \in Contexts |-> IF c = "product" THEN {"buyer"} ELSE {"buyer", "seller"}]

(* A seller's products p1 and p2, another seller's p3.  o1 and o2 lock the *)
(* rows they share in the same order, o1 and o3 in opposite orders.        *)
Row(p, s) == [product |-> p, seller |-> s]
MCLines == [o1 |-> <<Row("p1", "s1"), Row("p2", "s1")>>,
            o2 |-> <<Row("p1", "s1"), Row("p3", "s2")>>,
            o3 |-> <<Row("p2", "s1")>>]

RequestSymmetry == Permutations(Requests)
=============================================================================
