--------------------------- MODULE PaymentsProof ---------------------------
(***************************************************************************)
(* Proofs about Payments, for any set of request threads and any number of *)
(* attempts.                                                               *)
(*                                                                         *)
(* First the edges of the transition tables, one lemma for each call the   *)
(* payments make.  Then what holds however the threads overlap and die.    *)
(* Last what one thread at a time, never cut short, adds (SpecSerial): it  *)
(* works on the newest attempt, so money on record reaches the order.      *)
(***************************************************************************)
EXTENDS Payments, TLAPS

(***************************************************************************)
(* What the transition table yields for each call the payments make, so    *)
(* that the proofs need not open it.                                       *)
(***************************************************************************)
LEMMA TargetMembership ==
    ASSUME NEW table, NEW s, NEW action, NEW actor, NEW x
    PROVE  x \in Targets(table, s, action, actor)
               <=> \E u \in table : /\ u.from = s
                                    /\ u.action = action
                                    /\ Permitted(u.actor, actor)
                                    /\ x = u.to
BY DEF Targets

(* An action that labels a single edge leads only there. *)
LEMMA OnlyEdge ==
    ASSUME NEW table, NEW edge \in table, NEW s, NEW actor,
           \A u \in table : u.action = edge.action =>
               u.from = edge.from /\ u.to = edge.to /\ u.actor = edge.actor
    PROVE  Targets(table, s, edge.action, actor) =
               IF s = edge.from /\ Permitted(edge.actor, actor) THEN {edge.to} ELSE {}
<1>1. ASSUME NEW x \in Targets(table, s, edge.action, actor)
      PROVE  s = edge.from /\ Permitted(edge.actor, actor) /\ x = edge.to
  BY TargetMembership
<1>2. ASSUME s = edge.from, Permitted(edge.actor, actor)
      PROVE  edge.to \in Targets(table, s, edge.action, actor)
  BY <1>2, TargetMembership
<1> QED
  BY <1>1, <1>2

-----------------------------------------------------------------------------
Edge(from, action, to, actor) ==
    [from |-> from, action |-> action, to |-> to, actor |-> actor]

LEMMA OrderEdges ==
    /\ Edge("pending_payment", "mark_paid", "paid", "payment") \in ORDER_TRANSITIONS
    /\ Edge("pending_payment", "fail_payment", "payment_failed", "payment") \in ORDER_TRANSITIONS
    /\ Edge("payment_failed", "retry_payment", "pending_payment", "payment") \in ORDER_TRANSITIONS
    /\ Edge("pending_payment", "cancel", "cancelled", "buyer") \in ORDER_TRANSITIONS
    /\ Edge("payment_failed", "cancel", "cancelled", "buyer") \in ORDER_TRANSITIONS
    /\ Edge("paid", "refund", "refunded", "admin") \in ORDER_TRANSITIONS
    /\ Edge("paid", "force_cancel", "cancelled", "admin") \in ORDER_TRANSITIONS
BY DEF ORDER_TRANSITIONS, Edge

LEMMA OrderEdgesByAction ==
    \A u \in ORDER_TRANSITIONS :
        /\ u.action = "mark_paid" =>
               u.from = "pending_payment" /\ u.to = "paid" /\ u.actor = "payment"
        /\ u.action = "fail_payment" =>
               u.from = "pending_payment" /\ u.to = "payment_failed" /\ u.actor = "payment"
        /\ u.action = "retry_payment" =>
               u.from = "payment_failed" /\ u.to = "pending_payment" /\ u.actor = "payment"
        /\ u.action = "cancel" =>
               /\ u.from \in {"pending_payment", "payment_failed"}
               /\ u.to = "cancelled" /\ u.actor = "buyer"
        /\ u.action = "refund" =>
               u.from = "paid" /\ u.to = "refunded" /\ u.actor = "admin"
        /\ u.action = "force_cancel" =>
               u.from = "paid" /\ u.to = "cancelled" /\ u.actor = "admin"
BY DEF ORDER_TRANSITIONS

LEMMA OrderActions ==
    \A u \in ORDER_TRANSITIONS :
        u.action \in {"mark_paid", "fail_payment", "retry_payment", "cancel",
                      "refund", "force_cancel"}
BY DEF ORDER_TRANSITIONS

LEMMA SingleOrderEdge ==
    ASSUME NEW from, NEW action, NEW to, NEW edgeActor, NEW s, NEW actor,
           Edge(from, action, to, edgeActor) \in ORDER_TRANSITIONS,
           \A u \in ORDER_TRANSITIONS : u.action = action =>
               u.from = from /\ u.to = to /\ u.actor = edgeActor
    PROVE  OrderTargets(s, action, actor) =
               IF s = from /\ Permitted(edgeActor, actor) THEN {to} ELSE {}
<1> DEFINE edge == Edge(from, action, to, edgeActor)
<1>1. /\ edge.from = from /\ edge.action = action
      /\ edge.to = to /\ edge.actor = edgeActor
  BY DEF Edge
<1> HIDE DEF edge
<1>2. edge \in ORDER_TRANSITIONS
  BY DEF edge
<1> QED
  BY <1>1, <1>2, OnlyEdge DEF OrderTargets

LEMMA MarkPaidTargets ==
    ASSUME NEW s, NEW actor \in {"payment", "admin"}
    PROVE  OrderTargets(s, "mark_paid", actor) =
               IF s = "pending_payment" THEN {"paid"} ELSE {}
BY SingleOrderEdge, OrderEdges, OrderEdgesByAction DEF Permitted

LEMMA FailPaymentTargets ==
    ASSUME NEW s
    PROVE  OrderTargets(s, "fail_payment", "payment") =
               IF s = "pending_payment" THEN {"payment_failed"} ELSE {}
BY SingleOrderEdge, OrderEdges, OrderEdgesByAction DEF Permitted

LEMMA RetryPaymentTargets ==
    ASSUME NEW s
    PROVE  OrderTargets(s, "retry_payment", "payment") =
               IF s = "payment_failed" THEN {"pending_payment"} ELSE {}
BY SingleOrderEdge, OrderEdges, OrderEdgesByAction DEF Permitted

LEMMA AdminEndTargets ==
    ASSUME NEW s
    PROVE  /\ OrderTargets(s, "refund", "admin") = IF s = "paid" THEN {"refunded"} ELSE {}
           /\ OrderTargets(s, "force_cancel", "admin") = IF s = "paid" THEN {"cancelled"} ELSE {}
BY SingleOrderEdge, OrderEdges, OrderEdgesByAction DEF Permitted

LEMMA CancelTargets ==
    ASSUME NEW s
    PROVE  OrderTargets(s, "cancel", "buyer") =
               IF s \in {"pending_payment", "payment_failed"} THEN {"cancelled"} ELSE {}
<1>1. ASSUME NEW x \in OrderTargets(s, "cancel", "buyer")
      PROVE  s \in {"pending_payment", "payment_failed"} /\ x = "cancelled"
  BY TargetMembership, OrderEdgesByAction DEF OrderTargets
<1>2. ASSUME s \in {"pending_payment", "payment_failed"}
      PROVE  "cancelled" \in OrderTargets(s, "cancel", "buyer")
  <2> DEFINE edge == Edge(s, "cancel", "cancelled", "buyer")
  <2>1. edge \in ORDER_TRANSITIONS
    BY <1>2, OrderEdges
  <2>2. /\ edge.from = s /\ edge.action = "cancel" /\ edge.to = "cancelled"
        /\ Permitted(edge.actor, "buyer")
    BY DEF Edge, Permitted
  <2> HIDE DEF edge
  <2> QED
    BY <2>1, <2>2, TargetMembership DEF OrderTargets
<1> QED
  BY <1>1, <1>2

-----------------------------------------------------------------------------

(***************************************************************************)
(* The inductive invariant.  The properties speak of rows; what makes them *)
(* true is what a thread may hold between two transactions: the attempt it *)
(* works on exists, a settlement it was told of is still the gateway's     *)
(* answer (a settled attempt stays settled), and it moves the order only   *)
(* because of such an answer.                                              *)
(***************************************************************************)
RowsAreAttempts == \A a \in Attempts : pays[a] = "none" <=> a > attempts

Busy == PC \ {"idle", "checked"}
Told == {"replied", "queried", "polled", "markpaid", "failorder"}

ThreadsHaveRows ==
    \A t \in Threads : thread[t].pc \in Busy => thread[t].att \in 1..attempts

RepliesAreTrue ==
    \A t \in Threads : thread[t].reply \in Settlement =>
                           /\ thread[t].pc \in Told
                           /\ thread[t].att \in Attempts
                           /\ gateway[thread[t].att] = thread[t].reply

OrderStepsAreDue ==
    \A t \in Threads : /\ thread[t].pc = "markpaid"  => Funds(thread[t].reply)
                       /\ thread[t].pc = "failorder" => Declines(thread[t].reply)

Inv == /\ TypeOK
       /\ RowsAreAttempts
       /\ ThreadsHaveRows
       /\ RepliesAreTrue
       /\ OrderStepsAreDue
       /\ SuccessIsFunded
       /\ ExpiredIsSuperseded

-----------------------------------------------------------------------------
LEMMA RowStatuses ==
    ASSUME NEW reply \in Reply
    PROVE  /\ Interpret(reply) \in {"pending", "successful", "failed"}
           /\ InterpretChecked(reply) \in {"pending", "successful", "failed"}
           /\ Interpret(reply) = "successful" <=> Funds(reply)
           /\ InterpretChecked(reply) = "successful" => Funds(reply)
           /\ Interpret(reply) = "failed" <=> Declines(reply)
           /\ InterpretChecked(reply) = "failed" <=> Declines(reply) \/ reply = "short"
BY DEF Interpret, InterpretChecked, Funds, Declines, Reply, Settlement

LEMMA TriedStatuses ==
    ASSUME NEW s \in OrderStatus
    PROVE  /\ TriedOrder(s, "mark_paid", "payment") =
                 IF s = "pending_payment" THEN {"paid"} ELSE {s}
           /\ TriedOrder(s, "fail_payment", "payment") =
                 IF s = "pending_payment" THEN {"payment_failed"} ELSE {s}
BY MarkPaidTargets, FailPaymentTargets DEF TriedOrder

LEMMA InitInv == Init => Inv
<1> SUFFICES ASSUME Init PROVE Inv
  OBVIOUS
<1>1. /\ Idle \in ThreadState /\ Idle.pc = "idle" /\ Idle.reply = "pending"
      /\ "idle" \notin Busy /\ "pending" \notin Settlement
      /\ 0 \in 0..MaxAttempts /\ \A a \in Attempts : a > 0
  BY PaymentsAssumption
     DEF Idle, Begin, ThreadState, PC, Via, Reply, Busy, Settlement, Attempts
<1>2. TypeOK
  BY <1>1 DEF Init, TypeOK, OrderStatus, PaymentStatus, GatewayState
<1>3. RowsAreAttempts /\ SuccessIsFunded /\ ExpiredIsSuperseded
  BY <1>1 DEF Init, RowsAreAttempts, SuccessIsFunded, ExpiredIsSuperseded
<1>4. ThreadsHaveRows /\ RepliesAreTrue /\ OrderStepsAreDue
  BY <1>1 DEF Init, ThreadsHaveRows, RepliesAreTrue, OrderStepsAreDue
<1> QED
  BY <1>2, <1>3, <1>4 DEF Inv

-----------------------------------------------------------------------------
(* The three ways a step writes a row: it is set to what a true reply says, *)
(* to FAILED, or it is left alone.                                          *)
LEMMA SetPayInv ==
    ASSUME Inv, NEW a \in 1..attempts, NEW s \in {"pending", "successful", "failed"},
           s = "successful" => Funds(gateway[a]),
           SetPay(a, s), UNCHANGED <<attempts, gateway>>
    PROVE  /\ pays' \in [Attempts -> PaymentStatus \cup {"none"}]
           /\ RowsAreAttempts'
           /\ SuccessIsFunded'
           /\ ExpiredIsSuperseded'
<1>1. a \in Attempts /\ attempts \in Nat
  BY PaymentsAssumption DEF Inv, TypeOK, Attempts
<1>2. pays' = [pays EXCEPT ![a] = s] /\ attempts' = attempts /\ gateway' = gateway
  BY DEF SetPay
<1>3. pays' \in [Attempts -> PaymentStatus \cup {"none"}]
  BY <1>1, <1>2 DEF Inv, TypeOK, PaymentStatus
<1>4. \A b \in Attempts : pays'[b] = IF b = a THEN s ELSE pays[b]
  BY <1>1, <1>2 DEF Inv, TypeOK
<1>5. ~ (a > attempts)
  BY <1>1
<1>6. RowsAreAttempts'
  BY <1>2, <1>4, <1>5 DEF Inv, RowsAreAttempts
<1>7. SuccessIsFunded'
  BY <1>2, <1>4 DEF Inv, SuccessIsFunded, Funds
<1>8. ExpiredIsSuperseded'
  BY <1>2, <1>4 DEF Inv, ExpiredIsSuperseded
<1> QED
  BY <1>3, <1>6, <1>7, <1>8

LEMMA TryInv ==
    ASSUME Inv, NEW how \in Via \cup {"webhook"}, TryMarkPaid(how) \/ TryFailOrder
    PROVE  order' \in OrderStatus /\ paidBy' \in Via \cup {"nobody", "webhook", "admin"}
BY TriedStatuses DEF Inv, TypeOK, TryMarkPaid, TryFailOrder, OrderStatus

LEMMA SameRows ==
    ASSUME Inv, UNCHANGED <<pays, attempts, gateway>>
    PROVE  RowsAreAttempts' /\ SuccessIsFunded' /\ ExpiredIsSuperseded'
BY DEF Inv, RowsAreAttempts, SuccessIsFunded, ExpiredIsSuperseded, Funds

(* A thread that begins or stops remembers nothing; one that moves on with *)
(* the same attempt and reply keeps what is known of both.                 *)
LEMMA BeginInv ==
    ASSUME Inv, NEW t \in Threads, NEW pc \in PC \ {"markpaid", "failorder"},
           NEW via \in Via, NEW att \in 0..MaxAttempts,
           pc \in Busy => att \in 1..attempts,
           thread' = [thread EXCEPT ![t] = Begin(pc, via, att)],
           UNCHANGED <<attempts, gateway>>
    PROVE  /\ thread' \in [Threads -> ThreadState]
           /\ ThreadsHaveRows'
           /\ RepliesAreTrue'
           /\ OrderStepsAreDue'
<1> DEFINE new == Begin(pc, via, att)
<1>1. new \in ThreadState /\ new.pc = pc /\ new.att = att /\ new.reply = "pending"
  BY PaymentsAssumption DEF Begin, ThreadState, Reply
<1> HIDE DEF new
<1>2. thread' = [thread EXCEPT ![t] = new]
  BY DEF new
<1>3. thread' \in [Threads -> ThreadState]
  BY <1>1, <1>2 DEF Inv, TypeOK
<1>4. \A u \in Threads : thread'[u] = IF u = t THEN new ELSE thread[u]
  BY <1>2 DEF Inv, TypeOK
<1>5. ThreadsHaveRows'
  BY <1>1, <1>4 DEF Inv, ThreadsHaveRows
<1>6. RepliesAreTrue'
  BY <1>1, <1>4 DEF Inv, RepliesAreTrue, Settlement
<1>7. OrderStepsAreDue'
  BY <1>1, <1>4 DEF Inv, OrderStepsAreDue, Funds, Declines
<1> QED
  BY <1>3, <1>5, <1>6, <1>7

LEMMA GoIdleInv ==
    ASSUME Inv, NEW t \in Threads, GoIdle(t), UNCHANGED <<attempts, gateway>>
    PROVE  /\ thread' \in [Threads -> ThreadState]
           /\ ThreadsHaveRows'
           /\ RepliesAreTrue'
           /\ OrderStepsAreDue'
<1>1. /\ "idle" \in PC \ {"markpaid", "failorder"} /\ "idle" \notin Busy
      /\ "verify" \in Via /\ 0 \in 0..MaxAttempts
  BY PaymentsAssumption DEF PC, Busy, Via
<1> QED
  BY <1>1, BeginInv DEF GoIdle, Idle

(* A thread that is told the gateway's state of its attempt. *)
LEMMA ToldInv ==
    ASSUME Inv, NEW t \in Threads, thread[t].pc \in Busy,
           NEW pc \in {"replied", "queried", "polled"},
           thread' = [thread EXCEPT ![t].pc = pc,
                                    ![t].reply = Report(gateway[thread[t].att])],
           UNCHANGED <<attempts, gateway>>
    PROVE  /\ thread' \in [Threads -> ThreadState]
           /\ ThreadsHaveRows'
           /\ RepliesAreTrue'
           /\ OrderStepsAreDue'
<1> DEFINE reply == Report(gateway[thread[t].att])
           new == [thread[t] EXCEPT !.pc = pc, !.reply = reply]
<1>0. thread[t] \in ThreadState /\ thread[t].att \in 1..attempts /\ thread[t].att \in Attempts
  BY PaymentsAssumption DEF Inv, TypeOK, ThreadsHaveRows, Attempts
<1>1. /\ reply \in Reply
      /\ reply \in Settlement => reply = gateway[thread[t].att]
  BY <1>0 DEF Report, Reply, Inv, TypeOK, GatewayState, Settlement
<1> HIDE DEF reply
<1>2. /\ new \in ThreadState /\ new.pc = pc /\ new.reply = reply
      /\ new.att = thread[t].att
  BY <1>0, <1>1 DEF ThreadState, PC
<1> HIDE DEF new
<1>3. thread' = [thread EXCEPT ![t] = new]
  BY DEF new, reply, Inv, TypeOK
<1>4. thread' \in [Threads -> ThreadState]
  BY <1>2, <1>3 DEF Inv, TypeOK
<1>5. \A u \in Threads : thread'[u] = IF u = t THEN new ELSE thread[u]
  BY <1>3 DEF Inv, TypeOK
<1>6. ThreadsHaveRows'
  BY <1>0, <1>2, <1>5 DEF Inv, ThreadsHaveRows
<1>7. RepliesAreTrue'
  <2> SUFFICES ASSUME NEW u \in Threads, thread'[u].reply \in Settlement
               PROVE  /\ thread'[u].pc \in Told
                      /\ thread'[u].att \in Attempts
                      /\ gateway[thread'[u].att] = thread'[u].reply
    BY DEF RepliesAreTrue
  <2>1. CASE u = t
    BY <1>0, <1>1, <1>2, <1>5, <2>1 DEF Told
  <2>2. CASE u # t
    BY <1>5, <2>2 DEF Inv, RepliesAreTrue
  <2> QED
    BY <2>1, <2>2
<1>8. OrderStepsAreDue'
  BY <1>2, <1>5 DEF Inv, OrderStepsAreDue, Funds, Declines
<1> QED
  BY <1>4, <1>6, <1>7, <1>8

LEMMA GotoInv ==
    ASSUME Inv, NEW t \in Threads, NEW pc \in Busy, thread[t].pc \in Busy,
           thread[t].pc \in Told => pc \in Told,
           pc = "markpaid" => Funds(thread[t].reply),
           pc = "failorder" => Declines(thread[t].reply),
           Goto(t, pc), UNCHANGED attempts,
           \A a \in Attempts : gateway[a] \in Settlement => gateway'[a] = gateway[a]
    PROVE  /\ thread' \in [Threads -> ThreadState]
           /\ ThreadsHaveRows'
           /\ RepliesAreTrue'
           /\ OrderStepsAreDue'
BY DEF Inv, TypeOK, Goto, ThreadState, Busy,
       ThreadsHaveRows, RepliesAreTrue, OrderStepsAreDue

(* Storing what a reply folds onto, and going on to the order. *)
LEMMA ApplyInv ==
    ASSUME Inv, NEW r \in Requests, thread[r].pc \in {"replied", "queried"},
           NEW status, status \in {Interpret(thread[r].reply), InterpretChecked(thread[r].reply)},
           SetPay(thread[r].att, status),
           \/ status = "successful" /\ Goto(r, "markpaid")
           \/ status = "failed" /\ Declines(thread[r].reply) /\ Goto(r, "failorder")
           \/ GoIdle(r),
           UNCHANGED <<order, attempts, gateway, paidBy>>
    PROVE  Inv'
<1>1. /\ r \in Threads /\ thread[r].reply \in Reply
      /\ thread[r].pc \in Busy /\ thread[r].att \in 1..attempts
      /\ {"markpaid", "failorder"} \subseteq Busy \cap Told
  BY PaymentsAssumption DEF Inv, TypeOK, Threads, ThreadState, ThreadsHaveRows, Busy, PC, Told
<1>2. /\ status \in {"pending", "successful", "failed"}
      /\ status = "successful" => Funds(thread[r].reply)
  BY <1>1, RowStatuses
<1>3. Funds(thread[r].reply) => Funds(gateway[thread[r].att])
  BY <1>1 DEF Inv, RepliesAreTrue, Funds, Settlement
<1>4. /\ pays' \in [Attempts -> PaymentStatus \cup {"none"}]
      /\ RowsAreAttempts' /\ SuccessIsFunded' /\ ExpiredIsSuperseded'
  BY <1>1, <1>2, <1>3, SetPayInv
<1>5. /\ thread' \in [Threads -> ThreadState]
      /\ ThreadsHaveRows' /\ RepliesAreTrue' /\ OrderStepsAreDue'
  <2>1. CASE status = "successful" /\ Goto(r, "markpaid")
    BY <1>1, <1>2, <2>1, GotoInv
  <2>2. CASE status = "failed" /\ Declines(thread[r].reply) /\ Goto(r, "failorder")
    BY <1>1, <2>2, GotoInv
  <2>3. CASE GoIdle(r)
    BY <1>1, <2>3, GoIdleInv
  <2> QED
    BY <2>1, <2>2, <2>3
<1> QED
  BY <1>4, <1>5 DEF Inv, TypeOK

-----------------------------------------------------------------------------
LEMMA InitiateInv ==
    ASSUME Inv, NEW r \in Requests,
           \/ InitiateCheck(r) \/ InitiateCreate(r) \/ InitiateRefused(r)
           \/ InitiateAccepted(r) \/ InitiateError(r) \/ InitiateReply(r)
           \/ InitiateApply(r)
    PROVE  Inv'
<1>0. /\ r \in Threads
      /\ thread[r] \in ThreadState
      /\ thread[r].pc \in Busy => /\ thread[r].att \in 1..attempts
                                  /\ thread[r].att \in Attempts
      /\ attempts \in 0..MaxAttempts
      /\ MaxAttempts \in Nat \ {0}
  BY PaymentsAssumption DEF Inv, TypeOK, Threads, ThreadsHaveRows, Attempts
<1>1. CASE InitiateCheck(r)
  <2>1. /\ "checked" \in PC \ {"markpaid", "failorder"} /\ "checked" \notin Busy
        /\ "initiate" \in Via /\ 0 \in 0..MaxAttempts
    BY <1>0 DEF PC, Busy, Via
  <2> QED
    BY <1>0, <1>1, <2>1, BeginInv, SameRows DEF InitiateCheck, Inv, TypeOK
<1>2. CASE InitiateCreate(r)
  <2> DEFINE new == [thread[r] EXCEPT !.pc = "calling", !.att = attempts + 1]
             row(a) == IF a = attempts + 1 THEN "pending"
                       ELSE IF pays[a] = "pending" THEN "expired" ELSE pays[a]
  <2>0. /\ attempts + 1 \in Attempts /\ attempts \in Nat
        /\ attempts + 1 \in 0..MaxAttempts
    BY <1>0, <1>2 DEF InitiateCreate, Attempts
  <2>1. /\ new \in ThreadState /\ new.pc = "calling"
        /\ new.att = attempts + 1 /\ new.reply = thread[r].reply
    BY <1>0, <2>0 DEF ThreadState, PC
  <2>2. /\ thread' = [thread EXCEPT ![r] = new]
        /\ attempts' = attempts + 1
        /\ pays' = [a \in Attempts |-> row(a)]
        /\ UNCHANGED <<gateway, paidBy>>
    BY <1>0, <1>2 DEF InitiateCreate, Inv, TypeOK
  <2>3. order' \in OrderStatus
    BY <1>2, RetryPaymentTargets DEF InitiateCreate, Inv, TypeOK, OrderStatus
  <2> HIDE DEF new
  <2>4. \A u \in Threads : thread'[u] = IF u = r THEN new ELSE thread[u]
    BY <2>2 DEF Inv, TypeOK
  <2>5. \A a \in Attempts : row(a) \in PaymentStatus \cup {"none"}
    BY DEF Inv, TypeOK, PaymentStatus
  <2>6. TypeOK'
    BY <2>0, <2>1, <2>2, <2>3, <2>5, <1>0 DEF Inv, TypeOK, Attempts
  <2>7. \A a \in Attempts : pays'[a] = row(a)
    BY <2>2
  <2>8. RowsAreAttempts'
    BY <2>0, <2>1, <2>2, <2>7 DEF Inv, RowsAreAttempts, Attempts
  <2>9. SuccessIsFunded'
    BY <2>2, <2>7 DEF Inv, SuccessIsFunded, Funds
  <2>10. ExpiredIsSuperseded'
    BY <2>0, <2>1, <2>2, <2>7 DEF Inv, ExpiredIsSuperseded, RowsAreAttempts, Attempts
  <2>11. ThreadsHaveRows'
    BY <2>0, <2>1, <2>2, <2>4 DEF Inv, ThreadsHaveRows
  <2>12. thread[r].pc = "checked"
    BY <1>2 DEF InitiateCreate
  <2>13. thread[r].reply \notin Settlement
    BY <2>12, <1>0 DEF Inv, RepliesAreTrue, Told
  <2>14. RepliesAreTrue' /\ OrderStepsAreDue'
    BY <2>1, <2>2, <2>4, <2>13 DEF Inv, RepliesAreTrue, OrderStepsAreDue, Funds, Declines
  <2> QED
    BY <2>6, <2>8, <2>9, <2>10, <2>11, <2>14 DEF Inv
<1>3. CASE InitiateRefused(r) \/ InitiateError(r)
  <2>1. thread[r].pc \in Busy
    BY <1>3 DEF InitiateRefused, InitiateError, Busy, PC
  <2>2. /\ SetPay(thread[r].att, "failed") /\ GoIdle(r)
        /\ UNCHANGED <<order, attempts, gateway, paidBy>>
    BY <1>3 DEF InitiateRefused, InitiateError
  <2> QED
    BY <1>0, <2>1, <2>2, SetPayInv, GoIdleInv DEF Inv, TypeOK
<1>4. CASE InitiateAccepted(r)
  <2>1. /\ thread[r].pc \in Busy /\ "awaiting" \in Busy /\ thread[r].pc \notin Told
        /\ gateway[thread[r].att] = "unknown"
        /\ gateway' = [gateway EXCEPT ![thread[r].att] = "pending"]
        /\ Goto(r, "awaiting")
        /\ UNCHANGED <<order, pays, attempts, paidBy>>
    BY <1>4 DEF InitiateAccepted, Busy, PC, Told
  <2>2. \A a \in Attempts : gateway[a] \in Settlement => gateway'[a] = gateway[a]
    BY <2>1 DEF Inv, TypeOK, Settlement
  <2>3. gateway' \in [Attempts -> GatewayState]
    BY <2>1 DEF Inv, TypeOK, GatewayState
  <2>4. RowsAreAttempts' /\ SuccessIsFunded' /\ ExpiredIsSuperseded'
    BY <2>1, <2>2
       DEF Inv, RowsAreAttempts, SuccessIsFunded, ExpiredIsSuperseded, Funds, Settlement
  <2> QED
    BY <1>0, <2>1, <2>2, <2>3, <2>4, GotoInv DEF Inv, TypeOK
<1>5. CASE InitiateReply(r)
  <2>1. thread[r].pc \in Busy
    BY <1>5 DEF InitiateReply, Busy, PC
  <2> QED
    BY <1>0, <1>5, <2>1, ToldInv, SameRows DEF InitiateReply, Inv, TypeOK
<1>6. CASE InitiateApply(r)
  <2> DEFINE status == Interpret(thread[r].reply)
  <2>1. /\ thread[r].pc = "replied" /\ SetPay(thread[r].att, status)
        /\ \/ status = "successful" /\ Goto(r, "markpaid")
           \/ status = "failed" /\ Goto(r, "failorder")
           \/ status = "pending" /\ GoIdle(r)
        /\ UNCHANGED <<order, attempts, gateway, paidBy>>
    BY <1>6 DEF InitiateApply
  <2> QED
    <3>1. status = "failed" => Declines(thread[r].reply)
      BY <1>0, RowStatuses DEF ThreadState
    <3> QED
      BY <2>1, <3>1, ApplyInv
<1> QED
  BY <1>1, <1>2, <1>3, <1>4, <1>5, <1>6

LEMMA VerifyInv ==
    ASSUME Inv, NEW r \in Requests,
           VerifyRead(r) \/ VerifyQuery(r) \/ VerifyApply(r)
    PROVE  Inv'
<1>0. /\ r \in Threads
      /\ thread[r] \in ThreadState
      /\ attempts \in 0..MaxAttempts
  BY DEF Inv, TypeOK, Threads
<1>1. CASE VerifyRead(r)
  <2>1. /\ "verifying" \in PC \ {"markpaid", "failorder"} /\ "verify" \in Via
        /\ attempts \in 1..attempts
    BY <1>0, <1>1 DEF VerifyRead, PC, Via
  <2> QED
    BY <1>0, <1>1, <2>1, BeginInv, SameRows DEF VerifyRead, Inv, TypeOK
<1>2. CASE VerifyQuery(r)
  <2>1. thread[r].pc \in Busy
    BY <1>2 DEF VerifyQuery, Busy, PC
  <2> QED
    BY <1>0, <1>2, <2>1, ToldInv, GoIdleInv, SameRows DEF VerifyQuery, Inv, TypeOK
<1>3. CASE VerifyApply(r)
  <2> DEFINE status == InterpretChecked(thread[r].reply)
  <2>1. /\ thread[r].pc = "queried" /\ SetPay(thread[r].att, status)
        /\ \/ status = "successful" /\ Goto(r, "markpaid")
           \/ /\ status = "failed"
              /\ IF thread[r].reply = "short" THEN GoIdle(r) ELSE Goto(r, "failorder")
           \/ status = "pending" /\ GoIdle(r)
        /\ UNCHANGED <<order, attempts, gateway, paidBy>>
    BY <1>3 DEF VerifyApply
  <2>2. status = "failed" => Declines(thread[r].reply) \/ thread[r].reply = "short"
    BY <1>0, RowStatuses DEF ThreadState
  <2> QED
    BY <2>1, <2>2, ApplyInv
<1> QED
  BY <1>1, <1>2, <1>3

(* Steps that touch only the order, or end a thread's work. *)
LEMMA OrderInv ==
    ASSUME Inv,
           \/ \E r \in Requests : MarkPaid(r) \/ FailOrder(r)
           \/ \E t \in Threads : Crash(t)
           \/ OrderStep
    PROVE  Inv'
<1>1. ASSUME NEW r \in Requests, MarkPaid(r) \/ FailOrder(r)
      PROVE  Inv'
  <2>1. r \in Threads /\ thread[r].via \in Via
    BY DEF Inv, TypeOK, Threads, ThreadState
  <2> QED
    BY <1>1, <2>1, TryInv, GoIdleInv, SameRows DEF MarkPaid, FailOrder, Inv, TypeOK
<1>2. ASSUME NEW t \in Threads, Crash(t)
      PROVE  Inv'
  BY <1>2, GoIdleInv, SameRows DEF Crash, Inv, TypeOK
<1>3. ASSUME OrderStep
      PROVE  Inv'
  <2>1. /\ order' \in OrderStatus
        /\ paidBy' \in Via \cup {"nobody", "webhook", "admin"}
    BY <1>3, CancelTargets, MarkPaidTargets, AdminEndTargets
       DEF OrderStep, BuyerCancel, AdminMarkPaid, AdminEnd, CompleteOrder,
           Inv, TypeOK, OrderStatus
  <2>2. UNCHANGED <<pays, attempts, gateway, thread>>
    BY <1>3 DEF OrderStep, BuyerCancel, AdminMarkPaid, AdminEnd, CompleteOrder
  <2> QED
    BY <2>1, <2>2, SameRows
       DEF Inv, TypeOK, ThreadsHaveRows, RepliesAreTrue, OrderStepsAreDue
<1> QED
  BY <1>1, <1>2, <1>3

LEMMA AttemptInv ==
    ASSUME Inv, NEW a \in Attempts, AttemptStep(a)
    PROVE  Inv'
<1>0. Cron \in Threads /\ thread[Cron] \in ThreadState
  BY DEF Inv, TypeOK, Threads
<1>1. CASE ReconcileList(a)
  <2>1. /\ "listed" \in PC \ {"markpaid", "failorder"} /\ "reconcile" \in Via
        /\ a \in 0..MaxAttempts
    BY PaymentsAssumption DEF PC, Via, Attempts
  <2>2. a \in 1..attempts
    BY <1>1, PaymentsAssumption DEF ReconcileList, Inv, TypeOK, RowsAreAttempts, Attempts
  <2> QED
    BY <1>0, <1>1, <2>1, <2>2, BeginInv, SameRows DEF ReconcileList, Inv, TypeOK
<1>2. CASE ReconcileQuery(a)
  <2>1. thread[Cron].pc \in Busy
    BY <1>2 DEF ReconcileQuery, Busy, PC
  <2> QED
    BY <1>0, <1>2, <2>1, ToldInv, SameRows DEF ReconcileQuery, Inv, TypeOK
<1>3. CASE ReconcileApply(a)
  <2> DEFINE reply == thread[Cron].reply
  <2>1. /\ GoIdle(Cron) /\ UNCHANGED <<attempts, gateway>>
        /\ thread[Cron].pc = "polled" /\ thread[Cron].att = a
    BY <1>3 DEF ReconcileApply
  <2>2. CASE UNCHANGED <<order, pays, paidBy>>
    BY <1>0, <2>1, <2>2, GoIdleInv, SameRows DEF Inv, TypeOK
  <2>3. CASE /\ SetPay(a, InterpretChecked(reply))
             /\ \/ TryMarkPaid("reconcile")
                \/ TryFailOrder
                \/ UNCHANGED <<order, paidBy>>
    <3>1. a \in 1..attempts
      BY <1>0, <2>1 DEF Inv, ThreadsHaveRows, Busy, PC
    <3>2. /\ InterpretChecked(reply) \in {"pending", "successful", "failed"}
          /\ InterpretChecked(reply) = "successful" => Funds(gateway[a])
      BY <1>0, <2>1, RowStatuses
         DEF ThreadState, Inv, RepliesAreTrue, Funds, Settlement
    <3>3. order' \in OrderStatus /\ paidBy' \in Via \cup {"nobody", "webhook", "admin"}
      BY <2>3, TryInv DEF Inv, TypeOK, Via
    <3> QED
      BY <1>0, <2>1, <2>3, <3>1, <3>2, <3>3, SetPayInv, GoIdleInv DEF Inv, TypeOK
  <2> QED
    BY <1>3, <2>2, <2>3 DEF ReconcileApply
<1>4. CASE Webhook(a)
  <2>1. a \in 1..attempts
    BY <1>4, PaymentsAssumption DEF Webhook, Inv, TypeOK, RowsAreAttempts, Attempts
  <2>2. /\ InterpretChecked(gateway[a]) \in {"pending", "successful", "failed"}
        /\ InterpretChecked(gateway[a]) = "successful" => Funds(gateway[a])
    BY <1>4, RowStatuses DEF Webhook, Settlement, Reply
  <2>3. order' \in OrderStatus /\ paidBy' \in Via \cup {"nobody", "webhook", "admin"}
    BY <1>4, TryInv DEF Webhook, Inv, TypeOK
  <2>4. SetPay(a, InterpretChecked(gateway[a])) /\ UNCHANGED <<attempts, gateway, thread>>
    BY <1>4 DEF Webhook
  <2> QED
    BY <2>1, <2>2, <2>3, <2>4, SetPayInv
       DEF Inv, TypeOK, ThreadsHaveRows, RepliesAreTrue, OrderStepsAreDue
<1>5. CASE GatewaySettle(a)
  <2>1. PICK s \in Settlement : gateway' = [gateway EXCEPT ![a] = s]
    BY <1>5 DEF GatewaySettle
  <2>2. gateway[a] = "pending" /\ UNCHANGED <<order, pays, attempts, thread, paidBy>>
    BY <1>5 DEF GatewaySettle
  <2>3. \A b \in Attempts : gateway[b] \in Settlement => gateway'[b] = gateway[b]
    BY <2>1, <2>2 DEF Inv, TypeOK, Settlement
  <2>4. gateway' \in [Attempts -> GatewayState]
    BY <2>1 DEF Inv, TypeOK, GatewayState
  <2>5. SuccessIsFunded'
    BY <2>2, <2>3 DEF Inv, SuccessIsFunded, Funds, Settlement
  <2>6. RepliesAreTrue'
    BY <2>2, <2>3 DEF Inv, RepliesAreTrue
  <2> QED
    BY <2>2, <2>4, <2>5, <2>6
       DEF Inv, TypeOK, RowsAreAttempts, ExpiredIsSuperseded, ThreadsHaveRows, OrderStepsAreDue
<1> QED
  BY <1>1, <1>2, <1>3, <1>4, <1>5 DEF AttemptStep

LEMMA NextInv == Inv /\ [Next]_vars => Inv'
<1> SUFFICES ASSUME Inv, [Next]_vars PROVE Inv'
  OBVIOUS
<1>1. CASE \E r \in Requests : RequestStep(r)
  BY <1>1, InitiateInv, VerifyInv, OrderInv DEF RequestStep
<1>2. CASE \E t \in Threads : Crash(t)
  BY <1>2, OrderInv
<1>3. CASE \E a \in Attempts : AttemptStep(a)
  BY <1>3, AttemptInv
<1>4. CASE OrderStep
  BY <1>4, OrderInv
<1>5. CASE UNCHANGED vars
  BY <1>5, SameRows
     DEF vars, Inv, TypeOK, ThreadsHaveRows, RepliesAreTrue, OrderStepsAreDue
<1> QED
  BY <1>1, <1>2, <1>3, <1>4, <1>5 DEF Next

(* No step leaves the declared statuses and bounds.                        *)
THEOREM PaymentsTypeCorrect == Spec => []TypeOK
<1>1. Inv => TypeOK
  BY DEF Inv
<1> QED
  BY InitInv, NextInv, <1>1, PTL DEF Spec

(* A row is SUCCESSFUL only if ClickPesa took money for that attempt.      *)
THEOREM PaidRowsAreFunded == Spec => []SuccessIsFunded
<1>1. Inv => SuccessIsFunded
  BY DEF Inv
<1> QED
  BY InitInv, NextInv, <1>1, PTL DEF Spec

(* The newest attempt of an order is never EXPIRED.                        *)
THEOREM NewestAttemptIsLive == Spec => []ExpiredIsSuperseded
<1>1. Inv => ExpiredIsSuperseded
  BY DEF Inv
<1> QED
  BY InitInv, NextInv, <1>1, PTL DEF Spec

-----------------------------------------------------------------------------
(***************************************************************************)
(* Payments implements OrderPromise.  A thread that moves the order does   *)
(* so on a true reply (Inv), hence on an order the gateway has funded or   *)
(* declined.                                                               *)
(***************************************************************************)
Funded == \E a \in Attempts : Funds(gateway[a])
Declined == \E a \in Attempts : Declines(gateway[a])

(* An order that waits for money was never paid: nothing leads back.       *)
WaitingIsUnpaid == order \in {"pending_payment", "payment_failed"} => paidBy = "nobody"

(* The moves an order makes, with the reason for each. *)
IsPaid    == /\ order = "pending_payment" /\ order' = "paid"
             /\ paidBy' \in Via \cup {"webhook"} /\ Funded
IsVouched == order = "pending_payment" /\ order' = "paid" /\ paidBy' = "admin"
Fails     == /\ order = "pending_payment" /\ order' = "payment_failed"
             /\ UNCHANGED paidBy /\ Declined
Retries   == order = "payment_failed" /\ order' = "pending_payment" /\ UNCHANGED paidBy
Cancels   == /\ order \in {"pending_payment", "payment_failed"} /\ order' = "cancelled"
             /\ UNCHANGED paidBy
Ends      == /\ order = "paid" /\ order' \in {"completed", "refunded", "cancelled"}
             /\ UNCHANGED paidBy
Stays     == UNCHANGED <<order, paidBy>>

OrderMove == IsPaid \/ IsVouched \/ Fails \/ Retries \/ Cancels \/ Ends \/ Stays

LEMMA OrderMoves ==
    ASSUME Inv, [Next]_vars
    PROVE  /\ OrderMove
           /\ \/ UNCHANGED gateway
              \/ Stays /\ \E a \in Attempts : GatewaySettle(a)
              \/ Stays /\ \E r \in Requests : InitiateAccepted(r)
<1>0. order \in OrderStatus
  BY DEF Inv, TypeOK
<1>1. ASSUME NEW how \in Via \cup {"webhook"}, TryMarkPaid(how), Funded
      PROVE  OrderMove
  BY <1>0, <1>1, TriedStatuses DEF TryMarkPaid, OrderMove, IsPaid, Stays
<1>2. ASSUME TryFailOrder, Declined
      PROVE  OrderMove
  BY <1>0, <1>2, TriedStatuses DEF TryFailOrder, OrderMove, Fails, Stays
<1>3. ASSUME NEW t \in Threads
      PROVE  /\ Funds(thread[t].reply) => Funded /\ Funds(gateway[thread[t].att])
             /\ Declines(thread[t].reply) => Declined
  BY DEF Inv, RepliesAreTrue, Funds, Declines, Settlement, Funded, Declined
<1>4. ASSUME NEW r \in Requests, RequestStep(r)
      PROVE  OrderMove
  <2>1. CASE MarkPaid(r) \/ FailOrder(r)
    <3>1. r \in Threads /\ thread[r].via \in Via
      BY DEF Inv, TypeOK, Threads, ThreadState
    <3>2. CASE MarkPaid(r)
      BY <1>1, <1>3, <3>1, <3>2 DEF MarkPaid, Inv, OrderStepsAreDue
    <3>3. CASE FailOrder(r)
      BY <1>2, <1>3, <3>1, <3>3 DEF FailOrder, Inv, OrderStepsAreDue
    <3> QED
      BY <2>1, <3>2, <3>3
  <2>2. CASE InitiateCreate(r)
    BY <2>2, RetryPaymentTargets DEF InitiateCreate, OrderMove, Retries, Stays
  <2>3. CASE Stays
    BY <2>3 DEF OrderMove
  <2> QED
    BY <1>4, <2>1, <2>2, <2>3
       DEF RequestStep, InitiateCheck, InitiateRefused, InitiateAccepted, InitiateError,
           InitiateReply, InitiateApply, VerifyRead, VerifyQuery, VerifyApply, Stays
<1>5. ASSUME NEW a \in Attempts, AttemptStep(a)
      PROVE  OrderMove
  <2>0. "reconcile" \in Via \cup {"webhook"} /\ "webhook" \in Via \cup {"webhook"}
    BY DEF Via
  <2>1. CASE ReconcileApply(a)
    <3>1. Cron \in Threads
      BY DEF Threads
    <3>2. /\ thread[Cron].reply = "collected" => Funded
          /\ thread[Cron].reply = "failed" => Declined
      BY <1>3, <3>1 DEF Funds, Declines
    <3> QED
      BY <1>1, <1>2, <2>0, <2>1, <3>2 DEF ReconcileApply, OrderMove, Stays
  <2>2. CASE Webhook(a)
    <3>1. (gateway[a] = "collected" => Funded) /\ (Declines(gateway[a]) => Declined)
      BY DEF Funded, Declined, Funds
    <3> QED
      BY <1>1, <1>2, <2>0, <2>2, <3>1 DEF Webhook, OrderMove, Stays
  <2> QED
    BY <1>5, <2>1, <2>2
       DEF AttemptStep, ReconcileList, ReconcileQuery, GatewaySettle, OrderMove, Stays
<1>6. ASSUME OrderStep
      PROVE  OrderMove
  BY <1>6, CancelTargets, MarkPaidTargets, AdminEndTargets
     DEF OrderStep, BuyerCancel, AdminMarkPaid, AdminEnd, CompleteOrder,
         OrderMove, IsVouched, Cancels, Ends
<1>7. ASSUME (\E t \in Threads : Crash(t)) \/ UNCHANGED vars
      PROVE  OrderMove
  BY <1>7 DEF Crash, vars, OrderMove, Stays
<1>8. OrderMove
  BY <1>4, <1>5, <1>6, <1>7 DEF Next
<1>9. \/ UNCHANGED gateway
      \/ Stays /\ \E a \in Attempts : GatewaySettle(a)
      \/ Stays /\ \E r \in Requests : InitiateAccepted(r)
  <2>1. CASE \E r \in Requests : RequestStep(r)
    BY <2>1 DEF RequestStep, InitiateCheck, InitiateCreate, InitiateRefused, InitiateAccepted,
         InitiateError, InitiateReply, InitiateApply, VerifyRead, VerifyQuery, VerifyApply,
         MarkPaid, FailOrder, Stays
  <2>2. CASE \E a \in Attempts : AttemptStep(a)
    BY <2>2 DEF AttemptStep, ReconcileList, ReconcileQuery, ReconcileApply, Webhook,
         GatewaySettle, Stays
  <2>3. CASE (\E t \in Threads : Crash(t)) \/ OrderStep \/ UNCHANGED vars
    BY <2>3 DEF Crash, OrderStep, BuyerCancel, AdminMarkPaid, AdminEnd, CompleteOrder, vars
  <2> QED
    BY <2>1, <2>2, <2>3 DEF Next
<1> QED
  BY <1>8, <1>9

LEMMA InitWaitingIsUnpaid == Init => WaitingIsUnpaid
BY DEF Init, WaitingIsUnpaid

LEMMA NextWaitingIsUnpaid ==
    Inv /\ WaitingIsUnpaid /\ [Next]_vars => WaitingIsUnpaid'
BY OrderMoves DEF OrderMove, IsPaid, IsVouched, Fails, Retries, Cancels, Ends, Stays,
                  WaitingIsUnpaid

-----------------------------------------------------------------------------
(* A step under which the gateway does not change is a move of the order.  *)
LEMMA MoveRefines ==
    ASSUME OrderMove, WaitingIsUnpaid, UNCHANGED gateway
    PROVE  [Promise!Next]_Promise!vars
<1>1. UNCHANGED <<Funded, Declined>>
  BY DEF Funded, Declined
<1>2. UNCHANGED paidBy => UNCHANGED (paidBy = "admin")
  OBVIOUS
<1>3. CASE IsPaid
  <2>1. ~ (paidBy = "admin") /\ ~ (paidBy = "admin")'
    BY <1>3 DEF IsPaid, WaitingIsUnpaid, Via
  <2>2. UNCHANGED (paidBy = "admin")
    BY <2>1
  <2>3. Promise!Pay
    BY <1>1, <1>3, <2>2 DEF Promise!Pay, IsPaid, Funded, Declined
  <2> QED
    BY <2>3 DEF Promise!Next
<1>4. CASE IsVouched
  <2>1. (paidBy = "admin")' = TRUE
    BY <1>4 DEF IsVouched
  <2>2. Promise!Vouch
    BY <1>1, <1>4, <2>1 DEF Promise!Vouch, IsVouched, Funded, Declined
  <2> QED
    BY <2>2 DEF Promise!Next
<1>5. CASE Fails
  BY <1>1, <1>2, <1>5 DEF Promise!Next, Promise!Fail, Fails, Funded, Declined
<1>6. CASE Retries
  BY <1>1, <1>2, <1>6 DEF Promise!Next, Promise!Retry, Retries, Funded, Declined
<1>7. CASE Cancels
  BY <1>1, <1>2, <1>7 DEF Promise!Next, Promise!Cancel, Cancels, Funded, Declined
<1>8. CASE Ends
  BY <1>1, <1>2, <1>8 DEF Promise!Next, Promise!End, Ends, Funded, Declined
<1>9. CASE Stays
  BY <1>1, <1>2, <1>9 DEF Promise!vars, Stays, Funded, Declined
<1> QED
  BY <1>3, <1>4, <1>5, <1>6, <1>7, <1>8, <1>9 DEF OrderMove

(* What the gateway learns by itself is Learn, or nothing. *)
LEMMA SettleRefines ==
    ASSUME Inv, Stays,
           \/ \E a \in Attempts : GatewaySettle(a)
           \/ \E r \in Requests : InitiateAccepted(r)
    PROVE  [Promise!Next]_Promise!vars
<1>0. UNCHANGED <<order, paidBy = "admin">>
  BY DEF Stays
<1>1. CASE \E a \in Attempts : GatewaySettle(a)
  <2>1. PICK a \in Attempts, s \in Settlement :
           gateway[a] = "pending" /\ gateway' = [gateway EXCEPT ![a] = s]
    BY <1>1 DEF GatewaySettle
  <2>2. \A b \in Attempts : gateway'[b] = IF b = a THEN s ELSE gateway[b]
    BY <2>1 DEF Inv, TypeOK
  <2>3. Funds(s) \/ Declines(s)
    BY DEF Settlement, Funds, Declines
  <2>4. CASE Funds(s)
    <3>1. Funded' = TRUE /\ UNCHANGED Declined
      BY <2>1, <2>2, <2>4 DEF Funded, Declined, Funds, Declines
    <3>2. Promise!Learn
      BY <1>0, <3>1 DEF Promise!Learn, Funded, Declined
    <3> QED
      BY <3>2 DEF Promise!Next
  <2>5. CASE Declines(s)
    <3>1. Declined' = TRUE /\ UNCHANGED Funded
      BY <2>1, <2>2, <2>5 DEF Funded, Declined, Funds, Declines
    <3>2. Promise!Learn
      BY <1>0, <3>1 DEF Promise!Learn, Funded, Declined
    <3> QED
      BY <3>2 DEF Promise!Next
  <2> QED
    BY <2>3, <2>4, <2>5
<1>2. CASE \E r \in Requests : InitiateAccepted(r)
  <2>1. PICK r \in Requests :
           /\ gateway[thread[r].att] = "unknown"
           /\ gateway' = [gateway EXCEPT ![thread[r].att] = "pending"]
    BY <1>2 DEF InitiateAccepted
  <2>2. \A b \in Attempts : /\ Funds(gateway'[b]) <=> Funds(gateway[b])
                            /\ Declines(gateway'[b]) <=> Declines(gateway[b])
    BY <2>1 DEF Inv, TypeOK, Funds, Declines
  <2>3. UNCHANGED <<Funded, Declined>>
    BY <2>2 DEF Funded, Declined, Funds, Declines
  <2> QED
    BY <1>0, <2>3 DEF Promise!vars, Funded, Declined
<1> QED
  BY <1>1, <1>2

(* The payment machinery keeps the abstract promise about the order: PAID  *)
(* only on a funded attempt or an administrator's word, failed only on a   *)
(* declined attempt, paid at most once and never back (webhook, verify,    *)
(* initiate, reconcile_payments, buyer and administrator together).        *)
THEOREM PaymentsKeepPromise == Spec => OrderKeepsPromise
<1>1. Init => Promise!Init
  <2> SUFFICES ASSUME Init PROVE Promise!Init
    OBVIOUS
  <2>1. (\E a \in Attempts : Funds(gateway[a])) = FALSE
    BY DEF Init, Funds
  <2>2. (\E a \in Attempts : Declines(gateway[a])) = FALSE
    BY DEF Init, Declines
  <2>3. (paidBy = "admin") = FALSE
    BY DEF Init
  <2> QED
    BY <2>1, <2>2, <2>3 DEF Init, Promise!Init
<1>2. Inv /\ WaitingIsUnpaid /\ [Next]_vars => [Promise!Next]_Promise!vars
  BY OrderMoves, MoveRefines, SettleRefines
<1> QED
  BY InitInv, NextInv, InitWaitingIsUnpaid, NextWaitingIsUnpaid, <1>1, <1>2, PTL
     DEF Spec, OrderKeepsPromise, Promise!Spec

-----------------------------------------------------------------------------
(***************************************************************************)
(* One request thread at a time, and none cut short (SpecSerial).  What    *)
(* makes the rows of an order agree with it then is that the thread works  *)
(* on the newest attempt: a row that is PENDING is the newest one, so an   *)
(* order fails only because of the newest attempt, and money stored by the *)
(* thread finds the order still able to be paid.                           *)
(***************************************************************************)
OneThread == \A q, r \in Requests : q = r

WorksOnNewest == \A r \in Requests : thread[r].pc \in Busy => thread[r].att = attempts

PendingIsNewest == \A a \in Attempts : pays[a] = "pending" => a = attempts

FailedIsDeclined ==
    order = "payment_failed" => attempts \in Attempts /\ Declines(gateway[attempts])

MarkingIsSettled ==
    \A r \in Requests : thread[r].pc = "markpaid" => pays[thread[r].att] = "successful"

SerialInv == /\ WorksOnNewest
             /\ PendingIsNewest
             /\ FailedIsDeclined
             /\ MarkingIsSettled
             /\ SettledRowSettlesOrder

Waiting == {"pending_payment", "payment_failed"}
HasSettled == \E a \in Attempts : pays[a] = "successful"

LEMMA InitSerial == Init => SerialInv
<1> SUFFICES ASSUME Init PROVE SerialInv
  OBVIOUS
<1>1. \A r \in Requests : thread[r].pc = "idle"
  BY DEF Init, Idle, Begin, Threads
<1>2. order = "pending_payment" /\ \A a \in Attempts : pays[a] = "none"
  BY DEF Init
<1> QED
  BY <1>1, <1>2 DEF SerialInv, WorksOnNewest, PendingIsNewest, FailedIsDeclined,
     MarkingIsSettled, SettledRowSettlesOrder, Busy

(* The rows a settled and a pending attempt leave open while the thread of *)
(* the one request is somewhere else than at "markpaid".                   *)
LEMMA SettledIsOver ==
    ASSUME SerialInv, OneThread, NEW r \in Requests, thread[r].pc # "markpaid", HasSettled
    PROVE  order \notin Waiting
BY DEF SerialInv, SettledRowSettlesOrder, OneThread, HasSettled, Waiting

(* While a row is PENDING no other settled row waits for the thread.       *)
LEMMA PendingIsOpen ==
    ASSUME Inv, SerialInv, NEW a \in Attempts, pays[a] = "pending", order \in Waiting
    PROVE  ~ HasSettled
<1> SUFFICES ASSUME HasSettled PROVE FALSE
  OBVIOUS
<1>1. PICK r \in Requests : thread[r].pc = "markpaid"
  BY DEF SerialInv, SettledRowSettlesOrder, HasSettled, Waiting
<1>2. thread[r].att = attempts /\ a = attempts
  BY <1>1 DEF SerialInv, WorksOnNewest, PendingIsNewest, Busy, PC
<1>3. pays[thread[r].att] = "successful"
  BY <1>1 DEF SerialInv, MarkingIsSettled
<1> QED
  BY <1>2, <1>3

(* A funded newest attempt never failed the order.                         *)
LEMMA FundedIsNotFailed ==
    ASSUME SerialInv, Funds(gateway[attempts])
    PROVE  order # "payment_failed"
BY DEF SerialInv, FailedIsDeclined, Funds, Declines

-----------------------------------------------------------------------------
(* A step of the request thread that leaves every row alone.               *)
LEMMA SerialThread ==
    ASSUME Inv, SerialInv, OneThread, NEW r \in Requests,
           thread[r].pc # "markpaid",
           thread'[r].pc \in Busy => thread'[r].att = attempts,
           thread'[r].pc # "markpaid",
           UNCHANGED <<order, pays, attempts>>,
           gateway' = gateway \/ \A a \in Attempts : Declines(gateway[a]) => gateway'[a] = gateway[a]
    PROVE  SerialInv'
<1>1. WorksOnNewest' /\ MarkingIsSettled'
  BY DEF OneThread, WorksOnNewest, MarkingIsSettled
<1>2. PendingIsNewest' /\ FailedIsDeclined'
  BY DEF SerialInv, PendingIsNewest, FailedIsDeclined, Declines
<1>3. SettledRowSettlesOrder'
  BY SettledIsOver DEF SettledRowSettlesOrder, HasSettled, Waiting
<1> QED
  BY <1>1, <1>2, <1>3 DEF SerialInv

(* The thread stores a status in its row, the newest, and goes on.         *)
LEMMA SerialStore ==
    ASSUME Inv, SerialInv, OneThread, NEW r \in Requests,
           thread[r].pc \in Busy \ {"markpaid"}, thread[r].att \in 1 .. attempts,
           NEW s \in {"pending", "successful", "failed"},
           SetPay(thread[r].att, s),
           \/ s = "successful" /\ Goto(r, "markpaid") /\ Funds(gateway[thread[r].att])
           \/ s # "successful" /\ Goto(r, "failorder")
           \/ s # "successful" /\ GoIdle(r),
           UNCHANGED <<order, attempts, gateway>>
    PROVE  SerialInv'
<1>0. r \in Threads /\ thread[r].att = attempts /\ attempts \in Attempts
  BY PaymentsAssumption DEF Threads, SerialInv, WorksOnNewest, Inv, TypeOK, Attempts
<1>1. \A a \in Attempts : pays'[a] = IF a = attempts THEN s ELSE pays[a]
  BY <1>0 DEF SetPay, Inv, TypeOK
<1>2. /\ thread'[r].pc \in Busy => thread'[r].att = attempts
      /\ thread'[r].pc = "markpaid" <=> s = "successful"
  BY <1>0 DEF Goto, GoIdle, Idle, Begin, Inv, TypeOK, ThreadState, Busy
<1>3. WorksOnNewest' /\ MarkingIsSettled'
  BY <1>0, <1>1, <1>2 DEF OneThread, WorksOnNewest, MarkingIsSettled, Busy, PC
<1>4. PendingIsNewest' /\ FailedIsDeclined'
  BY <1>1 DEF SerialInv, PendingIsNewest, FailedIsDeclined
<1>5. SettledRowSettlesOrder'
  <2>1. CASE s = "successful"
    BY <1>2, <2>1 DEF SettledRowSettlesOrder
  <2>2. CASE s # "successful"
    <3>1. HasSettled' => HasSettled
      BY <1>1, <2>2 DEF HasSettled
    <3> QED
      BY <3>1, SettledIsOver DEF SettledRowSettlesOrder, HasSettled, Waiting
  <2> QED
    BY <2>1, <2>2
<1> QED
  BY <1>3, <1>4, <1>5 DEF SerialInv

LEMMA SerialInitiate ==
    ASSUME Inv, SerialInv, OneThread, NEW r \in Requests,
           \/ InitiateCheck(r) \/ InitiateCreate(r) \/ InitiateRefused(r)
           \/ InitiateAccepted(r) \/ InitiateError(r) \/ InitiateReply(r)
           \/ InitiateApply(r)
    PROVE  SerialInv'
<1>0. /\ r \in Threads /\ thread[r] \in ThreadState
      /\ thread[r].pc \in Busy => /\ thread[r].att \in 1..attempts
                                  /\ thread[r].att = attempts /\ attempts \in Attempts
      /\ attempts \in Nat
  BY PaymentsAssumption
     DEF Inv, TypeOK, Threads, ThreadsHaveRows, Attempts, SerialInv, WorksOnNewest
<1>1. CASE InitiateCheck(r)
  <2>1. thread'[r].pc = "checked"
    BY <1>0, <1>1 DEF InitiateCheck, Begin, Inv, TypeOK
  <2> QED
    BY <1>1, <2>1, SerialThread DEF InitiateCheck, Busy
<1>2. CASE InitiateCreate(r)
  <2>1. /\ thread[r].pc = "checked" /\ attempts' = attempts + 1
        /\ attempts + 1 \in Attempts
    BY <1>0, <1>2, PaymentsAssumption DEF InitiateCreate, Attempts, Inv, TypeOK
  <2>2. thread'[r].pc = "calling" /\ thread'[r].att = attempts'
    BY <1>0, <1>2, <2>1 DEF InitiateCreate, Inv, TypeOK, ThreadState
  <2>3. /\ order' # "payment_failed"
        /\ order' \in Waiting => order \in Waiting
    BY <1>2, RetryPaymentTargets DEF InitiateCreate, Waiting
  <2>4. \A a \in Attempts : /\ pays'[a] = "pending" => a = attempts'
                            /\ pays'[a] = "successful" => pays[a] = "successful"
    BY <1>2, <2>1 DEF InitiateCreate
  <2>5. WorksOnNewest' /\ MarkingIsSettled'
    BY <2>2 DEF OneThread, WorksOnNewest, MarkingIsSettled
  <2>6. PendingIsNewest' /\ FailedIsDeclined'
    BY <2>3, <2>4 DEF PendingIsNewest, FailedIsDeclined
  <2>7. SettledRowSettlesOrder'
    BY <2>1, <2>3, <2>4, SettledIsOver DEF SettledRowSettlesOrder, HasSettled, Waiting
  <2> QED
    BY <2>5, <2>6, <2>7 DEF SerialInv
<1>3. CASE InitiateRefused(r) \/ InitiateError(r)
  <2>1. /\ thread[r].pc \in Busy \ {"markpaid"}
        /\ SetPay(thread[r].att, "failed") /\ GoIdle(r)
        /\ UNCHANGED <<order, attempts, gateway>>
    BY <1>3 DEF InitiateRefused, InitiateError, Busy, PC
  <2> QED
    BY <1>0, <2>1, SerialStore
<1>4. CASE InitiateAccepted(r)
  <2>1. /\ thread[r].pc = "calling" /\ thread'[r].pc = "awaiting"
        /\ thread'[r].att = thread[r].att /\ thread[r].pc \in Busy
    BY <1>0, <1>4 DEF InitiateAccepted, Goto, Inv, TypeOK, ThreadState, Busy, PC
  <2>2. \A a \in Attempts : Declines(gateway[a]) => gateway'[a] = gateway[a]
    BY <1>4 DEF InitiateAccepted, Declines, Inv, TypeOK
  <2> QED
    BY <1>0, <1>4, <2>1, <2>2, SerialThread DEF InitiateAccepted
<1>5. CASE InitiateReply(r)
  <2>1. /\ thread[r].pc = "awaiting" /\ thread'[r].pc = "replied"
        /\ thread'[r].att = thread[r].att /\ thread[r].pc \in Busy
    BY <1>0, <1>5 DEF InitiateReply, Inv, TypeOK, ThreadState, Busy, PC
  <2> QED
    BY <1>0, <1>5, <2>1, SerialThread DEF InitiateReply
<1>6. CASE InitiateApply(r)
  <2> DEFINE status == Interpret(thread[r].reply)
  <2>1. /\ thread[r].pc = "replied" /\ SetPay(thread[r].att, status)
        /\ \/ status = "successful" /\ Goto(r, "markpaid")
           \/ status = "failed" /\ Goto(r, "failorder")
           \/ status = "pending" /\ GoIdle(r)
        /\ UNCHANGED <<order, attempts, gateway>>
    BY <1>6 DEF InitiateApply
  <2>2. /\ thread[r].pc \in Busy \ {"markpaid"}
        /\ status \in {"pending", "successful", "failed"}
        /\ status = "successful" => Funds(thread[r].reply)
    BY <1>0, <2>1, RowStatuses DEF ThreadState, Busy, PC
  <2>3. Funds(thread[r].reply) => Funds(gateway[thread[r].att])
    BY <1>0 DEF Inv, RepliesAreTrue, Funds, Settlement
  <2> HIDE DEF status
  <2> QED
    BY <1>0, <2>1, <2>2, <2>3, SerialStore
<1> QED
  BY <1>1, <1>2, <1>3, <1>4, <1>5, <1>6

LEMMA SerialVerify ==
    ASSUME Inv, SerialInv, OneThread, NEW r \in Requests,
           VerifyRead(r) \/ VerifyQuery(r) \/ VerifyApply(r)
    PROVE  SerialInv'
<1>0. /\ r \in Threads /\ thread[r] \in ThreadState
      /\ thread[r].pc \in Busy => /\ thread[r].att \in 1..attempts
                                  /\ thread[r].att = attempts
  BY PaymentsAssumption
     DEF Inv, TypeOK, Threads, ThreadsHaveRows, SerialInv, WorksOnNewest
<1>1. CASE VerifyRead(r)
  <2>1. thread'[r].pc = "verifying" /\ thread'[r].att = attempts
    BY <1>0, <1>1 DEF VerifyRead, Begin, Inv, TypeOK
  <2> QED
    BY <1>1, <2>1, SerialThread DEF VerifyRead
<1>2. CASE VerifyQuery(r)
  <2>1. thread[r].pc = "verifying" /\ thread[r].pc \in Busy
    BY <1>2 DEF VerifyQuery, Busy, PC
  <2>2. \/ thread'[r].pc = "queried" /\ thread'[r].att = thread[r].att
        \/ thread'[r].pc = "idle"
    BY <1>0, <1>2 DEF VerifyQuery, GoIdle, Idle, Begin, Inv, TypeOK, ThreadState
  <2> QED
    BY <1>0, <1>2, <2>1, <2>2, SerialThread DEF VerifyQuery, Busy
<1>3. CASE VerifyApply(r)
  <2> DEFINE status == InterpretChecked(thread[r].reply)
  <2>1. /\ thread[r].pc = "queried" /\ SetPay(thread[r].att, status)
        /\ \/ status = "successful" /\ Goto(r, "markpaid")
           \/ /\ status = "failed"
              /\ IF thread[r].reply = "short" THEN GoIdle(r) ELSE Goto(r, "failorder")
           \/ status = "pending" /\ GoIdle(r)
        /\ UNCHANGED <<order, attempts, gateway>>
    BY <1>3 DEF VerifyApply
  <2>2. /\ thread[r].pc \in Busy \ {"markpaid"}
        /\ status \in {"pending", "successful", "failed"}
        /\ status = "successful" => Funds(thread[r].reply)
    BY <1>0, <2>1, RowStatuses DEF ThreadState, Busy, PC
  <2>3. Funds(thread[r].reply) => Funds(gateway[thread[r].att])
    BY <1>0 DEF Inv, RepliesAreTrue, Funds, Settlement
  <2> HIDE DEF status
  <2> QED
    BY <1>0, <2>1, <2>2, <2>3, SerialStore
<1> QED
  BY <1>1, <1>2, <1>3

(* The order's transition at the end of a request.                         *)
LEMMA SerialOrder ==
    ASSUME Inv, SerialInv, OneThread, NEW r \in Requests, MarkPaid(r) \/ FailOrder(r)
    PROVE  SerialInv'
<1>0. /\ r \in Threads /\ order \in OrderStatus
      /\ thread[r].pc \in Busy /\ thread[r].att = attempts /\ attempts \in Attempts
      /\ thread'[r].pc = "idle" /\ UNCHANGED <<pays, attempts, gateway>>
  <2>1. r \in Threads /\ order \in OrderStatus /\ thread[r].pc \in Busy
    BY DEF Inv, TypeOK, Threads, MarkPaid, FailOrder, Busy, PC
  <2>2. thread[r].att \in 1..attempts /\ thread[r].att = attempts /\ attempts \in Attempts
    BY <2>1, PaymentsAssumption
       DEF Inv, TypeOK, ThreadsHaveRows, Attempts, SerialInv, WorksOnNewest
  <2>3. thread'[r].pc = "idle"
    BY <2>1 DEF MarkPaid, FailOrder, GoIdle, Idle, Begin, Inv, TypeOK
  <2> QED
    BY <2>1, <2>2, <2>3 DEF MarkPaid, FailOrder
<1>1. WorksOnNewest' /\ MarkingIsSettled'
  BY <1>0 DEF OneThread, WorksOnNewest, MarkingIsSettled, Busy
<1>2. PendingIsNewest'
  BY <1>0 DEF SerialInv, PendingIsNewest
<1>3. CASE MarkPaid(r)
  <2>1. Funds(gateway[attempts])
    BY <1>0, <1>3 DEF MarkPaid, Inv, OrderStepsAreDue, RepliesAreTrue, Funds, Settlement
  <2>2. order # "payment_failed"
    BY <2>1, FundedIsNotFailed
  <2>3. order' = IF order = "pending_payment" THEN "paid" ELSE order
    BY <1>0, <1>3, TriedStatuses DEF MarkPaid, TryMarkPaid
  <2>4. order' \notin Waiting
    BY <2>2, <2>3 DEF Waiting
  <2> QED
    BY <1>1, <1>2, <2>4 DEF SerialInv, FailedIsDeclined, SettledRowSettlesOrder, Waiting
<1>4. CASE FailOrder(r)
  <2>1. Declines(gateway[attempts])
    BY <1>0, <1>4 DEF FailOrder, Inv, OrderStepsAreDue, RepliesAreTrue, Declines, Settlement
  <2>2. order' = IF order = "pending_payment" THEN "payment_failed" ELSE order
    BY <1>0, <1>4, TriedStatuses DEF FailOrder, TryFailOrder
  <2>3. HasSettled => order \notin Waiting
    BY <1>4, SettledIsOver DEF FailOrder
  <2>4. SettledRowSettlesOrder'
    BY <1>0, <2>2, <2>3 DEF SettledRowSettlesOrder, HasSettled, Waiting
  <2>5. FailedIsDeclined'
    BY <1>0, <2>1 DEF FailedIsDeclined
  <2> QED
    BY <1>1, <1>2, <2>4, <2>5 DEF SerialInv
<1> QED
  BY <1>3, <1>4

-----------------------------------------------------------------------------
(* The threads of requests are left alone; the PENDING row is settled and  *)
(* the order follows it.                                                   *)
LEMMA SerialSettle ==
    ASSUME Inv, SerialInv, NEW a \in Attempts, pays[a] = "pending",
           NEW s \in {"successful", "failed"}, SetPay(a, s),
           NEW how \in Via \cup {"webhook"},
           \/ s = "successful" /\ Funds(gateway[a]) /\ TryMarkPaid(how)
           \/ s = "failed" /\ Declines(gateway[a]) /\ TryFailOrder
           \/ s = "failed" /\ UNCHANGED <<order, paidBy>>,
           \A r \in Requests : thread'[r] = thread[r],
           UNCHANGED <<attempts, gateway>>
    PROVE  SerialInv'
<1>0. a = attempts /\ order \in OrderStatus
  BY DEF SerialInv, PendingIsNewest, Inv, TypeOK
<1>1. \A b \in Attempts : pays'[b] = IF b = a THEN s ELSE pays[b]
  BY DEF SetPay, Inv, TypeOK
<1>2. WorksOnNewest' /\ PendingIsNewest'
  BY <1>1 DEF SerialInv, WorksOnNewest, PendingIsNewest
<1>3. \A r \in Requests : thread[r].pc # "markpaid"
  <2> SUFFICES ASSUME NEW r \in Requests, thread[r].pc = "markpaid" PROVE FALSE
    OBVIOUS
  <2>1. thread[r].att = attempts
    BY DEF SerialInv, WorksOnNewest, Busy, PC
  <2> QED
    BY <1>0, <2>1 DEF SerialInv, MarkingIsSettled
<1>4. MarkingIsSettled'
  BY <1>3 DEF MarkingIsSettled
<1>5. CASE s = "successful" /\ Funds(gateway[a]) /\ TryMarkPaid(how)
  <2>1. order # "payment_failed"
    BY <1>0, <1>5, FundedIsNotFailed
  <2>2. order' \notin Waiting
    BY <1>0, <1>5, <2>1, TriedStatuses DEF TryMarkPaid, Waiting
  <2> QED
    BY <1>2, <1>4, <2>2 DEF SerialInv, FailedIsDeclined, SettledRowSettlesOrder, Waiting
<1>6. CASE s = "failed" /\ ((Declines(gateway[a]) /\ TryFailOrder) \/ UNCHANGED <<order, paidBy>>)
  <2>1. order' \in Waiting => order \in Waiting
    BY <1>0, <1>6, TriedStatuses DEF TryFailOrder, Waiting
  <2>2. HasSettled' => HasSettled
    BY <1>1, <1>6 DEF HasSettled
  <2>3. SettledRowSettlesOrder'
    BY <2>1, <2>2, PendingIsOpen DEF SettledRowSettlesOrder, HasSettled, Waiting
  <2>4. FailedIsDeclined'
    BY <1>0, <1>6, TriedStatuses DEF SerialInv, FailedIsDeclined, TryFailOrder
  <2> QED
    BY <1>2, <1>4, <2>3, <2>4 DEF SerialInv
<1> QED
  BY <1>5, <1>6

(* Nothing the invariant speaks of changes, except that a gateway answers. *)
LEMMA SerialQuiet ==
    ASSUME Inv, SerialInv, UNCHANGED <<order, pays, attempts>>,
           \A r \in Requests : thread'[r] = thread[r],
           \A a \in Attempts : Declines(gateway[a]) => gateway'[a] = gateway[a]
    PROVE  SerialInv'
BY DEF SerialInv, WorksOnNewest, PendingIsNewest, FailedIsDeclined, MarkingIsSettled,
       SettledRowSettlesOrder, Declines

(* cron is not a request thread.                                           *)
LEMMA CronApart ==
    ASSUME Inv, NEW new, thread' = [thread EXCEPT ![Cron] = new]
    PROVE  \A r \in Requests : thread'[r] = thread[r]
BY PaymentsAssumption DEF Inv, TypeOK, Threads

LEMMA SerialAttempt ==
    ASSUME Inv, SerialInv, NEW a \in Attempts, AttemptStep(a)
    PROVE  SerialInv'
<1>1. CASE ReconcileList(a) \/ ReconcileQuery(a)
  <2>1. \A r \in Requests : thread'[r] = thread[r]
    BY <1>1, PaymentsAssumption DEF ReconcileList, ReconcileQuery, Inv, TypeOK, Threads
  <2> QED
    BY <1>1, <2>1, SerialQuiet DEF ReconcileList, ReconcileQuery
<1>2. CASE ReconcileApply(a)
  <2>1. \A r \in Requests : thread'[r] = thread[r]
    BY <1>2, CronApart DEF ReconcileApply, GoIdle
  <2>2. CASE UNCHANGED <<order, pays, paidBy>>
    BY <1>2, <2>1, <2>2, SerialQuiet DEF ReconcileApply
  <2>3. CASE /\ pays[a] = "pending" /\ thread[Cron].reply \in {"collected", "short", "failed"}
             /\ SetPay(a, InterpretChecked(thread[Cron].reply))
             /\ \/ thread[Cron].reply = "collected" /\ TryMarkPaid("reconcile")
                \/ thread[Cron].reply = "failed" /\ TryFailOrder
                \/ thread[Cron].reply = "short" /\ UNCHANGED <<order, paidBy>>
    <3>1. gateway[a] = thread[Cron].reply
      BY <1>2, <2>3 DEF ReconcileApply, Inv, RepliesAreTrue, Threads, Settlement
    <3>2. "reconcile" \in Via \cup {"webhook"} /\ UNCHANGED <<attempts, gateway>>
      BY <1>2 DEF Via, ReconcileApply
    <3>3. /\ InterpretChecked("collected") = "successful"
          /\ InterpretChecked("short") = "failed" /\ InterpretChecked("failed") = "failed"
          /\ Funds("collected") /\ Declines("failed")
      BY DEF InterpretChecked, Interpret, Funds, Declines
    <3> QED
      BY <2>1, <2>3, <3>1, <3>2, <3>3, SerialSettle
  <2> QED
    BY <1>2, <2>2, <2>3 DEF ReconcileApply
<1>3. CASE Webhook(a)
  <2>1. /\ InterpretChecked(gateway[a]) = "successful" <=> gateway[a] = "collected"
        /\ InterpretChecked(gateway[a]) \in {"successful", "failed"}
        /\ gateway[a] = "collected" => Funds(gateway[a])
    BY <1>3 DEF Webhook, InterpretChecked, Interpret, Funds, Declines, Settlement
  <2>2. Declines(gateway[a]) \/ gateway[a] = "short" => gateway[a] # "collected"
    BY DEF Declines
  <2>3. /\ pays[a] = "pending" /\ SetPay(a, InterpretChecked(gateway[a]))
        /\ \/ gateway[a] = "collected" /\ TryMarkPaid("webhook")
           \/ Declines(gateway[a]) /\ TryFailOrder
           \/ gateway[a] = "short" /\ UNCHANGED <<order, paidBy>>
        /\ UNCHANGED <<attempts, gateway, thread>>
    BY <1>3 DEF Webhook
  <2> QED
    BY <2>1, <2>2, <2>3, SerialSettle
<1>4. CASE GatewaySettle(a)
  <2>1. \A b \in Attempts : Declines(gateway[b]) => gateway'[b] = gateway[b]
    BY <1>4 DEF GatewaySettle, Declines, Inv, TypeOK
  <2> QED
    BY <1>4, <2>1, SerialQuiet DEF GatewaySettle
<1> QED
  BY <1>1, <1>2, <1>3, <1>4 DEF AttemptStep

LEMMA SerialOthers ==
    ASSUME Inv, SerialInv, OrderStep \/ Crash(Cron) \/ UNCHANGED vars
    PROVE  SerialInv'
<1>1. CASE OrderStep
  <2>1. UNCHANGED <<pays, attempts, gateway, thread>>
    BY <1>1 DEF OrderStep, BuyerCancel, AdminMarkPaid, AdminEnd, CompleteOrder
  <2>2. order' \notin Waiting
    BY <1>1, CancelTargets, MarkPaidTargets, AdminEndTargets
       DEF OrderStep, BuyerCancel, AdminMarkPaid, AdminEnd, CompleteOrder, Waiting,
           Inv, TypeOK
  <2> QED
    BY <2>1, <2>2 DEF SerialInv, WorksOnNewest, PendingIsNewest, FailedIsDeclined,
       MarkingIsSettled, SettledRowSettlesOrder, Waiting
<1>2. CASE Crash(Cron)
  BY <1>2, CronApart, SerialQuiet DEF Crash, GoIdle
<1>3. CASE UNCHANGED vars
  BY <1>3, SerialQuiet DEF vars
<1> QED
  BY <1>1, <1>2, <1>3

LEMMA SerialIsNext == NextSerial => Next
BY DEF NextSerial, Next, Threads

LEMMA NextSerialInv ==
    ASSUME OneThread
    PROVE  Inv /\ SerialInv /\ [NextSerial]_vars => SerialInv'
<1> SUFFICES ASSUME Inv, SerialInv, [NextSerial]_vars PROVE SerialInv'
  OBVIOUS
<1>1. ASSUME NEW r \in Requests, RequestStep(r) PROVE SerialInv'
  BY <1>1, SerialInitiate, SerialVerify, SerialOrder DEF RequestStep
<1> QED
  BY <1>1, SerialAttempt, SerialOthers DEF NextSerial

(* While requests of an order are served one at a time and none is cut     *)
(* short, money on record reaches the order, whatever webhook, cron, buyer *)
(* and administrator do meanwhile (payment_service, reconcile_one).        *)
THEOREM MoneyOnRecordArrives ==
    ASSUME OneThread
    PROVE  SpecSerial => []SettledRowSettlesOrder
<1>1. SerialInv => SettledRowSettlesOrder
  BY DEF SerialInv
<1>2. Inv /\ SerialInv /\ [NextSerial]_vars => SerialInv'
  BY NextSerialInv
<1> QED
  BY <1>1, <1>2, InitInv, InitSerial, NextInv, SerialIsNext, PTL DEF SpecSerial

(* And then an order has at most one PENDING attempt, as payments/models.py *)
(* says (initiate_payment, _apply_remote_status).                           *)
THEOREM OnlyNewestIsPending ==
    ASSUME OneThread
    PROVE  SpecSerial => []OnePendingAttempt
<1>1. SerialInv => OnePendingAttempt
  BY DEF SerialInv, PendingIsNewest, OnePendingAttempt
<1>2. Inv /\ SerialInv /\ [NextSerial]_vars => SerialInv'
  BY NextSerialInv
<1> QED
  BY <1>1, <1>2, InitInv, InitSerial, NextInv, SerialIsNext, PTL DEF SpecSerial
=============================================================================
