---------------------------- MODULE PasswordReset ----------------------------
(***************************************************************************)
(* The reset codes of one user (accounts/models.py, PasswordResetCode) and *)
(* the two endpoints that work on them: password/forgot issues a code,     *)
(* password/reset consumes one.  Neither opens a transaction: every        *)
(* statement commits on its own, requests of the same user interleave      *)
(* between statements, and a worker may die between any two.               *)
(***************************************************************************)
EXTENDS Naturals, Sequences, FiniteSets

CONSTANTS Requests,              \* concurrent requests of the user
          MaxCodes,              \* bound on the codes issued
          MAX_VERIFY_ATTEMPTS    \* wrong entries a code takes

ASSUME ResetAssumption == /\ MAX_VERIFY_ATTEMPTS \in Nat /\ MaxCodes \in Nat
                          /\ IsFiniteSet(Requests)

VARIABLES code,       \* the user's rows, in the order of created_at
          req,        \* what each request is doing
          wrong,      \* history: the wrong entries made against each code
          used,       \* history: the passwords set with each code
          disturbed,  \* history: codes two requests held at once, or one died on
          closed      \* history: how many codes existed at the last completed reset

vars == <<code, req, wrong, used, disturbed, closed>>

Index == 1..MaxCodes

(* after: how many codes there were when this one's issuer retired them.   *)
Code == [expired : BOOLEAN, used : BOOLEAN, attempts : 0..MAX_VERIFY_ATTEMPTS,
         after : 0..MaxCodes]

Fresh(n) == [expired |-> FALSE, used |-> FALSE, attempts |-> 0, after |-> n]

(* What a request has read and may hold when it is stale: the row it works *)
(* on (for an issuer, how many rows it retired) and that row's attempts.   *)
Request == [pc : {"idle", "create", "count", "password", "used_at", "others"},
            i : 0..MaxCodes, seen : 0..MAX_VERIFY_ATTEMPTS]

Idle == [pc |-> "idle", i |-> 0, seen |-> 0]

Init == /\ code = <<>>
        /\ req = [r \in Requests |-> Idle]
        /\ wrong = [i \in Index |-> 0]
        /\ used = [i \in Index |-> 0]
        /\ disturbed = {}
        /\ closed = 0

IsExhausted(c) == c.attempts >= MAX_VERIFY_ATTEMPTS

(* A code that password/reset would still accept. *)
Live(i) == /\ i \in DOMAIN code
           /\ ~code[i].used
           /\ ~code[i].expired

(* .filter(used_at__isnull=True).update(expires_at=now) *)
ExpireUnused(codes) ==
    [i \in DOMAIN codes |-> IF codes[i].used THEN codes[i]
                            ELSE [codes[i] EXCEPT !.expired = TRUE]]

(* .order_by("-created_at").first() of the unused codes; 0 if there is none. *)
MutNewestUnused == Len(code)
NewestUnused ==
    LET unused == {i \in DOMAIN code : ~code[i].used}
    IN  IF unused = {} THEN 0 ELSE CHOOSE i \in unused : \A j \in unused : j <= i

(* The histories count one past what the properties allow, and stop there. *)
UpTo(bound, n) == IF n > bound THEN bound ELSE n

Holders(i) == {r \in Requests : req[r].pc \notin {"idle", "create"} /\ req[r].i = i}

-----------------------------------------------------------------------------
(***************************************************************************)
(* PasswordForgotView: PasswordResetCode.issue in two statements.          *)
(***************************************************************************)
MutIssueExpire(r) ==
    /\ req[r].pc = "idle"
    /\ Len(code) + Cardinality({s \in Requests : req[s].pc = "create"}) < MaxCodes
    /\ req' = [req EXCEPT ![r] = [Idle EXCEPT !.pc = "create", !.i = Len(code)]]
    /\ UNCHANGED <<code, wrong, used, disturbed, closed>>
IssueExpire(r) ==
    /\ req[r].pc = "idle"
    /\ Len(code) + Cardinality({s \in Requests : req[s].pc = "create"}) < MaxCodes
    /\ code' = ExpireUnused(code)
    /\ req' = [req EXCEPT ![r] = [Idle EXCEPT !.pc = "create", !.i = Len(code)]]
    /\ UNCHANGED <<wrong, used, disturbed, closed>>

IssueCreate(r) ==
    /\ req[r].pc = "create"
    /\ code' = Append(code, Fresh(req[r].i))
    /\ req' = [req EXCEPT ![r] = Idle]
    /\ UNCHANGED <<wrong, used, disturbed, closed>>

-----------------------------------------------------------------------------
(***************************************************************************)
(* PasswordResetSerializer.validate: the newest unused row is read and the *)
(* code that was typed compared with it.  typed is the row whose code was  *)
(* typed, 0 for a mistyped one.  A refusal counts only if the row is alive.*)
(***************************************************************************)
ResetRead(r, typed) ==
    LET i == NewestUnused
    IN  /\ req[r].pc = "idle"
        /\ i # 0
        /\ ~code[i].expired /\ ~IsExhausted(code[i])
        /\ req' = [req EXCEPT ![r] = [pc |-> IF typed = i THEN "password" ELSE "count",
                                      i |-> i, seen |-> code[i].attempts]]
        /\ disturbed' = IF Holders(i) # {} THEN disturbed \cup {i} ELSE disturbed
        /\ UNCHANGED <<code, wrong, used, closed>>

(* reset_code.attempts += 1; save(update_fields=["attempts"]): the count   *)
(* is the one read before, not the row's.                                  *)
CountAttempt(r) ==
    /\ req[r].pc = "count"
    /\ code' = [code EXCEPT ![req[r].i].attempts = req[r].seen + 1]
    /\ wrong' = [wrong EXCEPT ![req[r].i] = UpTo(MAX_VERIFY_ATTEMPTS + 1, @ + 1)]
    /\ req' = [req EXCEPT ![r] = Idle]
    /\ UNCHANGED <<used, disturbed, closed>>

(***************************************************************************)
(* PasswordResetSerializer.save: the password, the code's used_at, the     *)
(* user's other codes, one statement each.                                 *)
(***************************************************************************)
SetPassword(r) ==
    /\ req[r].pc = "password"
    /\ used' = [used EXCEPT ![req[r].i] = UpTo(2, @ + 1)]
    /\ req' = [req EXCEPT ![r].pc = "used_at"]
    /\ UNCHANGED <<code, wrong, disturbed, closed>>

MarkUsed(r) ==
    /\ req[r].pc = "used_at"
    /\ code' = [code EXCEPT ![req[r].i].used = TRUE]
    /\ req' = [req EXCEPT ![r].pc = "others"]
    /\ UNCHANGED <<wrong, used, disturbed, closed>>

ExpireOthers(r) ==
    /\ req[r].pc = "others"
    /\ code' = ExpireUnused(code)
    /\ closed' = Len(code)
    /\ req' = [req EXCEPT ![r] = Idle]
    /\ UNCHANGED <<wrong, used, disturbed>>

-----------------------------------------------------------------------------
(* CODE_TTL_MINUTES pass. *)
Expire(i) == /\ Live(i)
             /\ code' = [code EXCEPT ![i].expired = TRUE]
             /\ UNCHANGED <<req, wrong, used, disturbed, closed>>

(* The worker dies: what its statements committed stays. *)
Crash(r) == /\ req[r].pc # "idle"
            /\ disturbed' = disturbed \cup {i \in Index : r \in Holders(i)}
            /\ req' = [req EXCEPT ![r] = Idle]
            /\ UNCHANGED <<code, wrong, used, closed>>

Next == \/ \E r \in Requests : \/ IssueExpire(r) \/ IssueCreate(r)
                               \/ \E typed \in 0..MaxCodes : ResetRead(r, typed)
                               \/ CountAttempt(r)
                               \/ SetPassword(r) \/ MarkUsed(r) \/ ExpireOthers(r)
                               \/ Crash(r)
        \/ \E i \in Index : Expire(i)

Spec == Init /\ [][Next]_vars

-----------------------------------------------------------------------------
TypeOK == /\ code \in Seq(Code) /\ Len(code) <= MaxCodes
          /\ req \in [Requests -> Request]
          /\ wrong \in [Index -> 0..MAX_VERIFY_ATTEMPTS + 1] /\ used \in [Index -> 0..2]
          /\ disturbed \subseteq Index
          /\ closed \in 0..MaxCodes

(* Issuing retires what was there: a code is never accepted once a code    *)
(* has been created by a request that began after it.  And a completed     *)
(* reset leaves nothing behind that sets a second password: every code     *)
(* that existed when it ended is dead.  Whichever requests overlap, crash  *)
(* or write stale counts back (PasswordResetCode.issue,                    *)
(* PasswordResetSerializer.save).                                          *)
ClosedCodesStayDead ==
    /\ \A j \in DOMAIN code : \A i \in 1..code[j].after : ~Live(i)
    /\ \A i \in 1..closed : ~Live(i)

(* A code is single-use and takes at most MAX_VERIFY_ATTEMPTS wrong        *)
(* entries, as its docstring says - as long as no two requests hold it at  *)
(* once and none dies holding it.                                          *)
UndisturbedCodeIsSingleUse ==
    \A i \in Index \ disturbed : used[i] <= 1 /\ wrong[i] <= MAX_VERIFY_ATTEMPTS

-----------------------------------------------------------------------------
(***************************************************************************)
(* What the documentation says and the code does not keep.                 *)
(***************************************************************************)

(* accounts/models.py: a code is "Single-use". *)
CodeIsSingleUse == \A i \in Index : used[i] <= 1

(* accounts/models.py: "each user only ever has one live code". *)
OneLiveCode == Cardinality({i \in Index : Live(i)}) <= 1

(* MAX_VERIFY_ATTEMPTS: an exhausted code never takes another entry. *)
ExhaustedStaysExhausted ==
    [][\A i \in DOMAIN code : IsExhausted(code[i]) => IsExhausted(code'[i])]_vars
=============================================================================
