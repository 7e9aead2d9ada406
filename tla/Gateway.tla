------------------------------- MODULE Gateway -------------------------------
(***************************************************************************)
(* ClickPesaService, the HTTP client of the payment gateway: one object,   *)
(* which authenticates when it has no token, and again, once, when the     *)
(* gateway answers 401.                                                    *)
(*                                                                         *)
(* A request may be lost, carried out without an answer, or answered with  *)
(* an error after it was carried out.  An object serves one thread; it is  *)
(* shared only by the queries of one reconcile pass.  The gateway carries  *)
(* out nothing that it answers with 401.                                   *)
(***************************************************************************)
EXTENDS Naturals

CONSTANT MaxCalls     \* bound: calls of one object

VARIABLES token,      \* _token: held, or not
          valid,      \* whether the gateway still takes that token
          call,       \* the _request under way
          calls,      \* number of calls so far
          done,       \* how often the gateway has carried the request out
          sent,       \* HTTP requests of this call, generate-token included
          result      \* what the last call returned or raised

vars == <<token, valid, call, calls, done, sent, result>>

(* Returned; ClickPesaError with and without an HTTP status; anything else *)
(* that urlopen, read or json.loads raise.                                 *)
Results == {"none", "ok", "http_error", "unreachable", "other_error"}

-----------------------------------------------------------------------------
Idle == [pc |-> "idle", retried |-> FALSE]

Init == /\ token = "none" /\ valid = FALSE
        /\ call = Idle /\ calls = 0
        /\ done = 0 /\ sent = 0
        /\ result = "none"

(* _request; with no token, _get_token authenticates first. *)
Begin ==
    /\ call.pc = "idle" /\ calls < MaxCalls
    /\ calls' = calls + 1
    /\ call' = [pc |-> IF token = "none" THEN "authenticate" ELSE "open",
                retried |-> FALSE]
    /\ done' = 0 /\ sent' = 0
    /\ result' = "none"
    /\ UNCHANGED <<token, valid>>

Return(r) == call' = Idle /\ result' = r

Authenticated == /\ call.pc = "authenticate"
                 /\ token' = "held" /\ valid' = TRUE
                 /\ call' = [call EXCEPT !.pc = "open"]
                 /\ sent' = sent + 1
                 /\ UNCHANGED <<calls, done, result>>

(* Refused, without a token, unreachable, or an answer that cannot be read. *)
NotAuthenticated == /\ call.pc = "authenticate"
                    /\ \E r \in Results \ {"none", "ok"} : Return(r)
                    /\ sent' = sent + 1
                    /\ UNCHANGED <<token, valid, calls, done>>

(* The token's hour is over, or the gateway forgets it. *)
Expire == /\ valid
          /\ valid' = FALSE
          /\ UNCHANGED <<token, call, calls, done, sent, result>>

-----------------------------------------------------------------------------
(***************************************************************************)
(* _open                                                                   *)
(***************************************************************************)
Answered == /\ call.pc = "open" /\ valid
            /\ done' = done + 1
            /\ Return("ok")
            /\ sent' = sent + 1
            /\ UNCHANGED <<token, valid, calls>>

(* URLError: the request did not get through. *)
Unreachable == /\ call.pc = "open"
               /\ Return("unreachable")
               /\ sent' = sent + 1
               /\ UNCHANGED <<token, valid, calls, done>>

(* A timeout while reading, a dropped connection or a body that is not     *)
(* JSON: the gateway may have carried the request out.                     *)
AnswerLost == /\ call.pc = "open"
              /\ done' \in {done} \cup (IF valid THEN {done + 1} ELSE {})
              /\ Return("other_error")
              /\ sent' = sent + 1
              /\ UNCHANGED <<token, valid, calls>>

(* An HTTP error that is not a 401: the same. *)
MutFailed == /\ call.pc = "open"
             /\ done' \in {done} \cup (IF valid THEN {done + 1} ELSE {})
             /\ IF call.retried THEN Return("http_error")
                ELSE call' = [call EXCEPT !.retried = TRUE] /\ UNCHANGED result
             /\ sent' = sent + 1
             /\ UNCHANGED <<token, valid, calls>>
Failed == /\ call.pc = "open"
          /\ done' \in {done} \cup (IF valid THEN {done + 1} ELSE {})
          /\ Return("http_error")
          /\ sent' = sent + 1
          /\ UNCHANGED <<token, valid, calls>>

(* 401: the token is dropped, a new one is fetched and the request sent    *)
(* once more.                                                              *)
Unauthorized == /\ call.pc = "open"
                /\ IF call.retried
                   THEN Return("http_error") /\ UNCHANGED <<token, valid>>
                   ELSE /\ token' = "none" /\ valid' = FALSE
                        /\ call' = [call EXCEPT !.pc = "authenticate", !.retried = TRUE]
                        /\ UNCHANGED result
                /\ sent' = sent + 1
                /\ UNCHANGED <<calls, done>>

Next == \/ Begin \/ Authenticated \/ NotAuthenticated \/ Expire
        \/ Answered \/ Unreachable \/ AnswerLost \/ Failed \/ Unauthorized

Spec == Init /\ [][Next]_vars

-----------------------------------------------------------------------------
TypeOK == /\ token \in {"none", "held"} /\ valid \in BOOLEAN
          /\ call \in [pc : {"idle", "authenticate", "open"}, retried : BOOLEAN]
          /\ calls \in 0..MaxCalls /\ done \in Nat /\ sent \in Nat
          /\ result \in Results

(* The retry never makes the gateway collect or pay out twice: whatever is *)
(* lost, one call of initiate_ussd_push or disburse has at most one        *)
(* effect, exactly one if it returns, none if the gateway was out of       *)
(* reach.  And a gateway that keeps answering 401 is not asked for ever:   *)
(* no call takes more than two tokens and two attempts.                    *)
CarriedOutOnce == /\ done <= 1
                  /\ result = "ok" => done = 1
                  /\ result = "unreachable" => done = 0

RetryIsHarmless == CarriedOutOnce /\ sent <= 4

-----------------------------------------------------------------------------
(***************************************************************************)
(* What the documentation says and the code does not keep.                 *)
(***************************************************************************)
(* A ClickPesaError means that the call has failed (the class's docstring, *)
(* and what PaymentService makes of it): the gateway may have acted on it. *)
ErrorMeansNotDone == result \in {"http_error", "unreachable"} => done = 0
=============================================================================
