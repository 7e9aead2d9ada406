---------------------------- MODULE PaymentScreen ----------------------------
(***************************************************************************)
(* The payment screen of the app (screens/payment/PaymentScreen.tsx): it   *)
(* loads, polls, starts, resends and verifies, and every reply sets the    *)
(* screen, in whatever order replies come.  Of the server it is told the   *)
(* newest attempt's status and the order's; how they come about is the     *)
(* subject of Payments, here they move as that module lets them.           *)
(***************************************************************************)
EXTENDS Naturals

CONSTANTS Calls,         \* identities of calls under way
          MaxAttempts    \* bound: payment attempts

VARIABLES server,    \* the newest attempt's status, the order's status
          attempts,  \* number of attempts
          call,      \* the calls under way
          screen,    \* the ScreenState
          poller,    \* the polling effect: no chain, its timer set, its call sent
          mounted,
          timers,    \* timers that will go back, 2 standing for more
          settled,   \* history: an attempt was SUCCESSFUL or the order PAID
          strays     \* history: a timer went back from another screen

vars == <<server, attempts, call, screen, poller, mounted, timers, settled, strays>>

Kinds == {"load", "poll", "start", "resend", "verify"}

NoReply == [pay |-> "none", order |-> "pending_payment"]
NoCall  == [kind |-> "none", pc |-> "idle", cancelled |-> FALSE, reply |-> NoReply]

(* The screen may be opened in any state of the order. *)
Init == /\ server \in {[pay |-> "none", order |-> "pending_payment"],
                       [pay |-> "pending", order |-> "pending_payment"],
                       [pay |-> "failed", order |-> "payment_failed"]}
        /\ attempts = IF server.pay = "none" THEN 0 ELSE 1
        /\ \E c \in Calls : call = [d \in Calls |->
               IF d = c THEN [NoCall EXCEPT !.kind = "load", !.pc = "sent"] ELSE NoCall]
        /\ screen = "loading" /\ poller = "off"
        /\ mounted = TRUE /\ timers = 0
        /\ settled = FALSE /\ strays = FALSE

client == <<attempts, call, screen, poller, mounted, timers, strays>>

-----------------------------------------------------------------------------
(***************************************************************************)
(* The server, by itself.                                                  *)
(***************************************************************************)
Payable == server.order \in {"pending_payment", "payment_failed"}

AttemptSettles ==
    /\ \/ /\ server.pay \in {"pending", "failed"}
          /\ server' = [server EXCEPT !.pay = "successful"]
       \/ /\ server.pay = "pending"
          /\ server' = [server EXCEPT !.pay = "failed"]
    /\ settled' = (settled \/ server'.pay = "successful")
    /\ UNCHANGED client

(* Paid by whichever attempt or by an administrator, failed, or over. *)
OrderMoves ==
    /\ \E order \in {"paid", "payment_failed", "over"} :
          /\ order # "over" => Payable
          /\ order = "payment_failed" => server.order = "pending_payment"
          /\ server' = [server EXCEPT !.order = order]
    /\ server'.order # server.order
    /\ settled' = (settled \/ server'.order = "paid")
    /\ UNCHANGED client

(***************************************************************************)
(* The server, asked.  initiate makes a new attempt, then replies with its *)
(* own copy of that row and a fresh one of the order.                      *)
(***************************************************************************)
Initiates(c) == call[c].kind \in {"start", "resend"}

Initiate(c) ==
    /\ call[c].pc = "sent" /\ Initiates(c)
    /\ Payable /\ attempts < MaxAttempts
    /\ attempts' = attempts + 1
    /\ server' = [pay |-> "pending", order |-> "pending_payment"]
    /\ call' = [call EXCEPT ![c].pc = "created", ![c].reply = server']
    /\ UNCHANGED <<screen, poller, mounted, timers, settled, strays>>

Respond(c) ==
    /\ \/ /\ call[c].pc = "sent" /\ ~ Initiates(c)
          /\ call' = [call EXCEPT ![c].pc = "reply", ![c].reply = server]
       \/ /\ call[c].pc = "created"
          /\ call' = [call EXCEPT ![c].pc = "reply", ![c].reply.order = server.order]
    /\ UNCHANGED <<server, attempts, screen, poller, mounted, timers, settled, strays>>

-----------------------------------------------------------------------------
(***************************************************************************)
(* The screen.  The polling effect starts a chain when the screen becomes  *)
(* pending and cancels it, and its call, when the screen leaves pending.   *)
(***************************************************************************)
Outcome(x) == IF x.pay = "successful" \/ x.order = "paid" THEN "success"
              ELSE IF x.pay = "none" THEN "idle" ELSE x.pay

Dropped(calls) == [d \in Calls |-> IF calls[d].kind = "poll"
                                   THEN [calls[d] EXCEPT !.cancelled = TRUE] ELSE calls[d]]

(* setScreen, and the effect it brings about; polls is what becomes of the *)
(* chain if the screen stays pending.                                      *)
Show(new, calls, polls) ==
    /\ screen' = new
    /\ poller' = IF new # "pending" \/ ~ mounted THEN "off"
                 ELSE IF screen # "pending" THEN "timer" ELSE polls
    /\ call' = IF new # "pending" THEN Dropped(calls) ELSE calls

Without(c) == [call EXCEPT ![c] = NoCall]

(* applyState: success also sets a timer that goes back. *)
ApplyState(c, polls) ==
    LET new == Outcome(call[c].reply) IN
    /\ Show(new, Without(c), polls)
    /\ timers' = IF new = "success" /\ timers < 2 THEN timers + 1 ELSE timers

Send(c) == /\ mounted /\ call[c] = NoCall
           /\ UNCHANGED <<server, attempts, mounted, timers, settled, strays>>

Sent(c, kind) == [call EXCEPT ![c] = [NoCall EXCEPT !.kind = kind, !.pc = "sent"]]

HandleStart(c) == /\ Send(c) /\ screen = "idle"
                  /\ Show("starting", Sent(c, "start"), poller)

HandleResend(c) == /\ Send(c) /\ screen \in {"pending", "failed"}
                   /\ \A d \in Calls : call[d].kind # "resend"
                   /\ call' = Sent(c, "resend")
                   /\ UNCHANGED <<screen, poller>>

HandleVerify(c) == /\ Send(c) /\ screen \in {"pending", "failed"}
                   /\ call' = Sent(c, "verify")
                   /\ UNCHANGED <<screen, poller>>

Poll(c) == /\ Send(c) /\ poller = "timer"
           /\ poller' = "asked"
           /\ call' = Sent(c, "poll")
           /\ UNCHANGED screen

HandleRetry == /\ mounted /\ screen = "failed"
               /\ Show("idle", call, poller)
               /\ UNCHANGED <<server, attempts, mounted, timers, settled, strays>>

Leave == /\ mounted
         /\ mounted' = FALSE /\ poller' = "off"
         /\ call' = [d \in Calls |-> IF call[d].kind \in {"poll", "load"}
                                     THEN [call[d] EXCEPT !.cancelled = TRUE] ELSE call[d]]
         /\ UNCHANGED <<server, attempts, screen, timers, settled, strays>>

(* navigation.goBack(), from wherever the user is by now. *)
GoBack == /\ timers > 0
          /\ timers' = timers - 1
          /\ mounted' = FALSE /\ poller' = "off"
          /\ strays' = (strays \/ ~ mounted)
          /\ call' = Dropped(call)
          /\ UNCHANGED <<server, attempts, screen, settled>>

-----------------------------------------------------------------------------
(* A reply; a poll goes on unless it is told of the end. *)
Reply(c) ==
    /\ call[c].pc = "reply"
    /\ IF call[c].cancelled
       THEN call' = Without(c) /\ UNCHANGED <<screen, poller, timers>>
       ELSE IF call[c].kind = "poll" /\ Outcome(call[c].reply) \notin {"success", "failed"}
       THEN call' = Without(c) /\ poller' = "timer" /\ UNCHANGED <<screen, timers>>
       ELSE ApplyState(c, poller)
    /\ UNCHANGED <<server, attempts, mounted, settled, strays>>

(* An error, wherever it happens; an initiate that the server refuses.     *)
MutFail(c) ==
    /\ call[c] # NoCall
    /\ IF call[c].kind \in {"load", "start"} /\ ~ call[c].cancelled
       THEN Show("idle", Without(c), poller)
       ELSE call' = Without(c) /\ UNCHANGED <<screen, poller>>
    /\ UNCHANGED <<server, attempts, mounted, timers, settled, strays>>
Fail(c) ==
    /\ call[c] # NoCall
    /\ IF call[c].kind \in {"load", "start"} /\ ~ call[c].cancelled
       THEN Show("idle", Without(c), poller)
       ELSE /\ call' = Without(c)
            /\ poller' = IF call[c].kind = "poll" /\ ~ call[c].cancelled THEN "timer" ELSE poller
            /\ UNCHANGED screen
    /\ UNCHANGED <<server, attempts, mounted, timers, settled, strays>>

Next == \/ AttemptSettles \/ OrderMoves
        \/ HandleRetry \/ Leave \/ GoBack
        \/ \E c \in Calls : \/ Initiate(c) \/ Respond(c) \/ Reply(c) \/ Fail(c)
                            \/ HandleStart(c) \/ HandleResend(c) \/ HandleVerify(c) \/ Poll(c)

Spec == Init /\ [][Next]_vars

-----------------------------------------------------------------------------
Told == [pay : {"none", "pending", "successful", "failed"},
         order : {"pending_payment", "payment_failed", "paid", "over"}]

TypeOK == /\ server \in Told /\ attempts \in 0..MaxAttempts
          /\ call \in [Calls -> [kind : Kinds \cup {"none"}, cancelled : BOOLEAN, reply : Told,
                                 pc : {"idle", "sent", "created", "reply"}]]
          /\ screen \in {"loading", "idle", "starting", "pending", "success", "failed"}
          /\ poller \in {"off", "timer", "asked"}
          /\ timers \in 0..2
          /\ {mounted, settled, strays} \subseteq BOOLEAN

(* A screen that shows a pending payment goes on asking: whatever other    *)
(* calls are answered or fail meanwhile, there is one chain of polls, and  *)
(* it is not the one of an earlier wait.  A screen that shows success has  *)
(* been told of it.                                                        *)
Polling == {c \in Calls : call[c].kind = "poll" /\ ~ call[c].cancelled}

PendingIsPolled ==
    mounted => /\ screen = "pending" <=> poller # "off"
               /\ poller = "asked" <=> Polling # {}
               /\ \A c, d \in Polling : c = d
               /\ screen = "success" => settled

-----------------------------------------------------------------------------
(***************************************************************************)
(* What the comments say and the code does not keep.                       *)
(***************************************************************************)
(* "Works whether the current state is PENDING or FAILED (... creates a    *)
(* fresh one automatically)": if the resend's answer is lost, or one that  *)
(* was given before comes after it, the screen still shows a failure and   *)
(* does not poll.                                                          *)
FailedIsTheNewest ==
    mounted /\ screen = "failed" /\ server.pay = "pending"
        => \E c \in Calls : call[c].kind # "none"

(* "2.5-second success modal -> back to order": once for every reply that  *)
(* tells of the success, and even after the user has left.                 *)
GoesBackOnce == ~ strays
=============================================================================
