----------------------------- MODULE MobileProof -----------------------------
(***************************************************************************)
(* Proofs about the mobile app, for any number of calls, messages, pages,  *)
(* payments and restarts: the session first, then the four screens of      *)
(* MCScreens, each with its own calls, whose replies come late, out of     *)
(* order or not at all.                                                    *)
(*                                                                         *)
(* Session.  As long as nothing has ended it (~ excused) it is alive: both *)
(* stored tokens are those of one pair, whose refresh token the backend    *)
(* takes, except in the middle of a refresh or a sign-in; no sign-out runs *)
(* and no call has expired; and what runs is what the status allows.       *)
(***************************************************************************)
EXTENDS MobileSession, MCScreens, Sequences, TLAPS

Runs(c) == call[c].pc # "idle"

OnlyMe == ~ Runs("refetch") /\ ~ Runs("other")

(* The boot call, the sign-in's and the sign-out's run when they should. *)
Matched ==
    /\ Runs("me") <=> status = "loading" \/ signIn.pc = "asked"
    /\ Runs("logout") <=> signOut.pc = "logout"
    /\ status \in {"mounting", "loading"} => OnlyMe /\ signOut.pc = "none" /\ signIn.pc = "none"

(* Calls that wait have a refresh to wake them, and every refresh a call   *)
(* that waits for it.                                                      *)
Awaited == (refresh.pc # "none") <=> (\E c \in Calls : call[c].pc = "waiting")

Orderly ==
    /\ signOut.pc = "none"
    /\ \A c \in Calls : call[c].pc \in {"idle", "sent", "waiting"}
    /\ status = "unauthenticated" => OnlyMe
    /\ status = "authenticated" => signIn.pc = "none"

(* A pair is on its way to the store, half of it may have arrived. *)
Saving(flow) == flow.pc \in {"answered", "half"}

OnePair ==
    /\ refresh.pc # "half" /\ signIn.pc # "half" => store.access = store.refresh
    /\ refresh.pc = "half" => store.access = refresh.pair
    /\ signIn.pc = "half" => store.access = signIn.pair
    /\ \/ status \in {"loading", "authenticated"}
       \/ signIn.pc \in {"saved", "asked"}
       => store.access # None /\ store.refresh # None

Taken(p) == p \in Pairs /\ token[p] = "valid"

PairTaken ==
    /\ refresh.pc # "failed"
    /\ refresh.pc = "posted" => refresh.pair = store.refresh
    /\ Saving(refresh) => Taken(refresh.pair)
    /\ Saving(signIn) => Taken(signIn.pair)
    /\ ~ Saving(refresh) /\ store.refresh # None => Taken(store.refresh)

Alive == Orderly /\ OnePair /\ PairTaken

(* What is needed besides: nothing is left that saves tokens. *)
ClearedIsQuiet == cleared => /\ SignedOutStaysEmpty
                             /\ signIn.pc = "none" /\ refresh.pc \in {"none", "read"}

MobileInv == /\ TypeOK /\ Matched /\ Awaited /\ ClearedIsQuiet
             /\ ~ excused => Alive

-----------------------------------------------------------------------------
(***************************************************************************)
(* Types.                                                                  *)
(***************************************************************************)
RefreshFlow == Flow({"read", "posted", "answered", "half", "failed"})
SignOutFlow == Flow({"read", "logout", "clear"})
SignInFlow  == Flow({"posted", "answered", "half", "saved", "asked"})
Stores      == [access : Maybe, refresh : Maybe]
Statuses    == {"mounting", "loading", "authenticated", "unauthenticated"}

BackendOK == token \in [Pairs -> {"valid", "dead"}] /\ fresh \subseteq Pairs

DeviceOK == /\ store \in Stores /\ status \in Statuses
            /\ call \in [Calls -> Call]
            /\ refresh \in RefreshFlow /\ signOut \in SignOutFlow /\ signIn \in SignInFlow

HistoryOK == faults \in 0..MaxFaults /\ excused \in BOOLEAN /\ cleared \in BOOLEAN

LEMMA TypeIs == TypeOK <=> BackendOK /\ DeviceOK /\ HistoryOK
BY DEF TypeOK, BackendOK, DeviceOK, HistoryOK, RefreshFlow, SignOutFlow, SignInFlow, Stores,
       Statuses

LEMMA AFlow ==
    ASSUME NEW pcs, NEW pc \in {"none"} \cup pcs, NEW pair \in Maybe
    PROVE  At(pc, pair) \in Flow(pcs) /\ At(pc, pair).pc = pc /\ At(pc, pair).pair = pair
BY DEF At, Flow

LEMMA Flows ==
    ASSUME NEW pair \in Maybe
    PROVE  /\ \A pc \in {"read", "posted", "answered", "half", "failed"} :
                  At(pc, pair) \in RefreshFlow
           /\ \A pc \in {"read", "logout", "clear"} : At(pc, pair) \in SignOutFlow
           /\ \A pc \in {"posted", "answered", "half", "saved", "asked"} :
                  At(pc, pair) \in SignInFlow
           /\ \A pc : At(pc, pair).pc = pc /\ At(pc, pair).pair = pair
BY DEF At, Flow, RefreshFlow, SignOutFlow, SignInFlow

LEMMA Nothing ==
    /\ None \in Maybe /\ Empty \in Stores /\ NoCall \in Call
    /\ Empty.access = None /\ Empty.refresh = None
    /\ NoCall.pc = "idle" /\ NoFlow.pc = "none" /\ NoFlow.pair = None
    /\ NoFlow \in RefreshFlow /\ NoFlow \in SignOutFlow /\ NoFlow \in SignInFlow
BY DEF Maybe, Empty, Stores, NoCall, Call, NoFlow, Flow, RefreshFlow, SignOutFlow, SignInFlow

LEMMA InitType == Init => TypeOK
<1> SUFFICES ASSUME Init PROVE TypeOK
  OBVIOUS
<1>1. BackendOK
  BY DEF Init, BackendOK
<1>2. DeviceOK
  <2>1. call \in [Calls -> Call]
    BY Nothing DEF Init
  <2>2. status \in Statuses
    BY DEF Init, Statuses
  <2> QED
    BY <2>1, <2>2, Nothing DEF Init, DeviceOK
<1>3. HistoryOK
  <2>1. 0 \in 0..MaxFaults
    BY MobileAssumption
  <2> QED
    BY <2>1, Zenon DEF Init, HistoryOK
<1> QED
  BY <1>1, <1>2, <1>3, TypeIs

LEMMA BackendType ==
    ASSUME NEW tokens, NEW accepted, tokens \in [Pairs -> {"valid", "dead"}],
           accepted \subseteq Pairs, Backend(tokens, accepted)
    PROVE  BackendOK'
BY DEF Backend, BackendOK

LEMMA SentType == ASSUME DeviceOK PROVE Sent \in Call /\ Sent.pc = "sent"
BY DEF DeviceOK, Sent, Call, Stores

(* One call's record is replaced. *)
LEMMA OneCall ==
    ASSUME call \in [Calls -> Call], NEW c \in Calls, NEW x \in Call,
           call' = [call EXCEPT ![c] = x]
    PROVE  /\ call' \in [Calls -> Call] /\ call'[c] = x
           /\ \A d \in Calls : d # c => call'[d] = call[d]
OBVIOUS

LEMMA ReturnType ==
    ASSUME DeviceOK, NEW c \in Calls, NEW ok \in BOOLEAN, Return(c, ok), refresh' = refresh
    PROVE  DeviceOK'
<1>1. call' \in [Calls -> Call]
  BY Nothing DEF Return, DeviceOK
<1>2. status' \in Statuses
  BY DEF Return, DeviceOK, Statuses
<1>3. store' \in Stores /\ signIn' \in SignInFlow
  BY Nothing DEF Return, DeviceOK
<1>4. signOut' \in SignOutFlow
  BY Nothing, AFlow DEF Return, DeviceOK, SignOutFlow
<1> QED
  BY <1>1, <1>2, <1>3, <1>4 DEF DeviceOK

LEMMA StartSignOutType ==
    signOut \in SignOutFlow => StartSignOut(signOut) \in SignOutFlow
BY Nothing, AFlow DEF StartSignOut, SignOutFlow

(* The calls after a refresh: those that waited are sent or expired.       *)
LEMMA FinishCalls ==
    ASSUME DeviceOK, NEW pair \in Maybe, Finish(pair)
    PROVE  /\ refresh' = NoFlow /\ refresh' \in RefreshFlow
           /\ call' \in [Calls -> Call]
           /\ \A c \in Calls :
                 IF call[c].pc # "waiting" THEN call'[c] = call[c]
                 ELSE call'[c].pc = IF pair = None THEN "expired" ELSE "sent"
<1> DEFINE x(c) == IF pair = None THEN [call[c] EXCEPT !.pc = "expired"]
                   ELSE [pc |-> "sent", retried |-> TRUE,
                         bearer |-> IF store.access = None THEN pair ELSE store.access]
<1>1. \A c \in Calls : x(c) \in Call /\ x(c).pc = IF pair = None THEN "expired" ELSE "sent"
  BY DEF DeviceOK, Call, Stores
<1>2. \A c \in Calls : call'[c] = IF call[c].pc # "waiting" THEN call[c] ELSE x(c)
  BY DEF Finish
<1>3. call' = [c \in Calls |-> call'[c]]
  BY DEF Finish
<1>4. \A c \in Calls : call'[c] \in Call
  BY <1>1, <1>2 DEF DeviceOK
<1>5. call' \in [Calls -> Call]
  BY <1>3, <1>4
<1> QED
  BY <1>1, <1>2, <1>5, Nothing DEF Finish

(***************************************************************************)
(* Every step keeps the types: the backend's, ...                          *)
(***************************************************************************)
LEMMA BackendStep == TypeOK /\ Next => BackendOK'
<1> SUFFICES ASSUME TypeOK, Next PROVE BackendOK'
  OBVIOUS
<1>1. BackendOK /\ DeviceOK
  BY TypeIs
<1>2. CASE UNCHANGED backend
  BY <1>1, <1>2 DEF backend, BackendOK
<1>3. CASE Backend(token, fresh)
  BY <1>1, <1>3, BackendType DEF BackendOK
<1>4. ASSUME NEW p \in Pairs, NEW old, Mints(p, old) PROVE BackendOK'
  BY <1>1, <1>4, BackendType DEF BackendOK, Mints
<1>5. ASSUME NEW p \in Pairs, AccessExpires(p) \/ SessionExpires(p) PROVE BackendOK'
  BY <1>1, <1>5 DEF BackendOK, AccessExpires, SessionExpires
<1>6. ASSUME NEW p, Backend([token EXCEPT ![p] = "dead"], fresh) PROVE BackendOK'
  <2>1. [token EXCEPT ![p] = "dead"] \in [Pairs -> {"valid", "dead"}]
    BY <1>1 DEF BackendOK
  <2> QED
    BY <1>1, <1>6, <2>1, BackendType DEF BackendOK
<1>7. CASE \E c \in Calls : Accepted(c) \/ Denied(c) \/ Expired(c) \/ Lose(c) \/ Ask(c)
  BY <1>2, <1>3, <1>6, <1>7 DEF Accepted, Denied, Expired, Lose, Ask
<1>8. CASE RefreshStep \/ RefreshLost
  BY <1>2, <1>3, <1>4, <1>8
     DEF RefreshStep, RefreshLost, RefreshRead, RefreshServe, RefreshSaveAccess,
         RefreshSaveRefresh, RefreshClear
<1>9. CASE SignOutStep \/ SignInStep
  BY <1>2, <1>3, <1>4, <1>9
     DEF SignOutStep, SignInStep, SignOutRead, LogoutAnswered, SignOutClear, LoginServe,
         SignInSaveAccess, SignInSaveRefresh, SignInAsk
<1>10. CASE Boot \/ UserSignsOut \/ UserSignsIn \/ Kill
  BY <1>2, <1>3, <1>10 DEF Boot, UserSignsOut, UserSignsIn, Kill
<1> QED
  BY <1>5, <1>7, <1>8, <1>9, <1>10 DEF Next, CallStep

(* ... the history's, ...                                                  *)
LEMMA HistoryStep == TypeOK /\ Next => HistoryOK'
<1> SUFFICES ASSUME TypeOK, Next PROVE HistoryOK'
  OBVIOUS
<1>1. HistoryOK /\ MaxFaults \in Nat
  BY TypeIs, MobileAssumption
<1>2. CASE UNCHANGED <<faults, history>>
  BY <1>1, <1>2 DEF history, HistoryOK
<1>3. CASE \E c \in Calls : Ask(c) \/ CallStep(c)
  BY <1>2, <1>3 DEF CallStep, Accepted, Denied, Expired, Ask
<1>4. ASSUME NEW c \in Calls, Lose(c) PROVE HistoryOK'
  BY <1>1, <1>4 DEF Lose, HistoryOK, history
<1>5. CASE RefreshStep
  BY <1>2, <1>5
     DEF RefreshStep, RefreshRead, RefreshServe, RefreshSaveAccess, RefreshSaveRefresh,
         RefreshClear
<1>6. CASE RefreshLost
  BY <1>1, <1>6 DEF RefreshLost, HistoryOK
<1>7. CASE UserSignsOut
  BY <1>1, <1>7 DEF UserSignsOut, HistoryOK
<1>8. CASE SignOutRead \/ LogoutAnswered
  BY <1>2, <1>8 DEF SignOutRead, LogoutAnswered
<1>9. CASE SignOutClear
  BY <1>1, <1>9 DEF SignOutClear, HistoryOK
<1>10. CASE UserSignsIn
  BY <1>1, <1>10 DEF UserSignsIn, HistoryOK
<1>11. CASE Boot \/ SignInStep
  BY <1>2, <1>11 DEF Boot, SignInStep, LoginServe, SignInSaveAccess, SignInSaveRefresh, SignInAsk
<1>12. ASSUME NEW p \in Pairs, AccessExpires(p) \/ SessionExpires(p) PROVE HistoryOK'
  BY <1>1, <1>12 DEF AccessExpires, SessionExpires, HistoryOK, history
<1>13. CASE Kill
  <2>1. faults' \in 0..MaxFaults
    BY <1>1, <1>13 DEF Kill, HistoryOK
  <2>2. excused' \in BOOLEAN /\ cleared' \in BOOLEAN
    BY <1>1, <1>13, Zenon DEF Kill, HistoryOK
  <2> QED
    BY <2>1, <2>2 DEF HistoryOK
<1> QED
  BY <1>3, <1>4, <1>5, <1>6, <1>7, <1>8, <1>9, <1>10, <1>11, <1>12, <1>13
     DEF Next, SignOutStep

(* ... and the device's.                                                   *)
LEMMA DeviceStep == TypeOK /\ Next => DeviceOK'
<1> SUFFICES ASSUME TypeOK, Next PROVE DeviceOK'
  OBVIOUS
<1>1. BackendOK /\ DeviceOK
  BY TypeIs
<1> USE <1>1, Nothing
<1>2. CASE Boot
  <2>1. "me" \in Calls
    BY DEF Calls
  <2>2. call' \in [Calls -> Call]
    BY <1>2, <2>1, SentType DEF Boot, DeviceOK
  <2>3. status' \in Statuses
    BY <1>2 DEF Boot, Statuses
  <2> QED
    BY <1>2, <2>2, <2>3 DEF Boot, DeviceOK
<1>3. ASSUME NEW c \in Calls, Ask(c) PROVE DeviceOK'
  <2>1. call' \in [Calls -> Call]
    BY <1>3, SentType DEF Ask, DeviceOK
  <2> QED
    BY <1>3, <2>1 DEF Ask, DeviceOK
<1>4. ASSUME NEW c \in Calls, Accepted(c) PROVE DeviceOK'
  <2>1. CASE c = "logout"
    <3>1. [NoCall EXCEPT !.pc = "answered"] \in Call
      BY DEF NoCall, Call
    <3>2. call' \in [Calls -> Call]
      BY <1>4, <2>1, <3>1 DEF Accepted, DeviceOK
    <3> QED
      BY <1>4, <2>1, <3>2 DEF Accepted, DeviceOK
  <2>2. CASE c # "logout"
    BY <1>4, <2>2, ReturnType DEF Accepted
  <2> QED
    BY <2>1, <2>2
<1>5. ASSUME NEW c \in Calls, Denied(c) PROVE DeviceOK'
  <2>1. CASE call[c].retried
    BY <1>5, <2>1, ReturnType DEF Denied
  <2>2. CASE ~ call[c].retried
    <3>1. [NoCall EXCEPT !.pc = "waiting"] \in Call
      BY DEF NoCall, Call
    <3>2. call' \in [Calls -> Call]
      BY <1>5, <2>2, <3>1 DEF Denied, DeviceOK
    <3>3. refresh' \in RefreshFlow
      BY <1>5, <2>2, Flows DEF Denied, DeviceOK, RefreshFlow
    <3> QED
      BY <1>5, <2>2, <3>2, <3>3 DEF Denied, DeviceOK
  <2> QED
    BY <2>1, <2>2
<1>6. ASSUME NEW c \in Calls, Expired(c) PROVE DeviceOK'
  <2>1. call' \in [Calls -> Call]
    BY <1>6 DEF Expired, DeviceOK
  <2>2. signOut' \in SignOutFlow
    BY <1>6, StartSignOutType, Flows DEF Expired, DeviceOK, SignOutFlow
  <2>3. status' \in Statuses
    BY <1>6 DEF Expired, DeviceOK, Statuses
  <2> QED
    BY <1>6, <2>1, <2>2, <2>3 DEF Expired, DeviceOK
<1>7. ASSUME NEW c \in Calls, Lose(c) PROVE DeviceOK'
  BY <1>7, ReturnType DEF Lose
<1>8. CASE RefreshRead
  <2>1. refresh' \in RefreshFlow /\ call' \in [Calls -> Call]
    BY <1>8, FinishCalls, Flows DEF RefreshRead, DeviceOK, RefreshFlow, Stores
  <2> QED
    BY <1>8, <2>1 DEF RefreshRead, DeviceOK
<1>9. CASE RefreshServe
  <2>1. refresh' \in RefreshFlow
    BY <1>9, Flows DEF RefreshServe, RefreshFlow, Maybe
  <2> QED
    BY <1>9, <2>1 DEF RefreshServe, DeviceOK
<1>10. CASE RefreshSaveAccess
  <2>1. refresh.pair \in Maybe
    BY DEF DeviceOK, RefreshFlow, Flow
  <2>2. refresh' \in RefreshFlow
    BY <1>10, <2>1, Flows DEF RefreshSaveAccess, RefreshFlow
  <2>3. store' \in Stores
    BY <1>10, <2>1 DEF RefreshSaveAccess, DeviceOK, Stores
  <2> QED
    BY <1>10, <2>2, <2>3 DEF RefreshSaveAccess, DeviceOK
<1>11. CASE RefreshSaveRefresh
  <2>1. refresh.pair \in Maybe
    BY DEF DeviceOK, RefreshFlow, Flow
  <2>2. refresh' \in RefreshFlow /\ call' \in [Calls -> Call]
    BY <1>11, <2>1, FinishCalls DEF RefreshSaveRefresh
  <2>3. store' \in Stores
    BY <1>11, <2>1 DEF RefreshSaveRefresh, DeviceOK, Stores
  <2> QED
    BY <1>11, <2>2, <2>3 DEF RefreshSaveRefresh, DeviceOK
<1>12. CASE RefreshClear
  BY <1>12, FinishCalls DEF RefreshClear, DeviceOK
<1>13. CASE RefreshLost
  <2>1. refresh' \in RefreshFlow
    BY <1>13, Flows DEF RefreshLost, RefreshFlow
  <2> QED
    BY <1>13, <2>1 DEF RefreshLost, DeviceOK
<1>14. CASE UserSignsOut
  BY <1>14, StartSignOutType DEF UserSignsOut, DeviceOK
<1>15. CASE SignOutRead
  <2>1. "logout" \in Calls
    BY DEF Calls
  <2>2. call' \in [Calls -> Call]
    BY <1>15, <2>1, SentType DEF SignOutRead, DeviceOK
  <2>3. signOut' \in SignOutFlow
    BY <1>15, Flows DEF SignOutRead, DeviceOK, SignOutFlow, Stores
  <2> QED
    BY <1>15, <2>2, <2>3 DEF SignOutRead, DeviceOK, Statuses
<1>16. CASE LogoutAnswered
  BY <1>16, ReturnType DEF LogoutAnswered, Calls
<1>17. CASE SignOutClear
  BY <1>17 DEF SignOutClear, DeviceOK
<1>18. CASE UserSignsIn
  <2>1. signIn' \in SignInFlow
    BY <1>18, Flows DEF UserSignsIn, SignInFlow
  <2> QED
    BY <1>18, <2>1 DEF UserSignsIn, DeviceOK
<1>19. CASE LoginServe
  <2>1. signIn' \in SignInFlow
    BY <1>19, Flows DEF LoginServe, SignInFlow, Maybe
  <2> QED
    BY <1>19, <2>1 DEF LoginServe, DeviceOK
<1>20. CASE SignInSaveAccess \/ SignInSaveRefresh
  <2>1. signIn.pair \in Maybe
    BY DEF DeviceOK, SignInFlow, Flow
  <2>2. signIn' \in SignInFlow
    BY <1>20, <2>1, Flows DEF SignInSaveAccess, SignInSaveRefresh, SignInFlow
  <2>3. store' \in Stores
    BY <1>20, <2>1 DEF SignInSaveAccess, SignInSaveRefresh, DeviceOK, Stores
  <2> QED
    BY <1>20, <2>2, <2>3 DEF SignInSaveAccess, SignInSaveRefresh, DeviceOK
<1>21. CASE SignInAsk
  <2>1. "me" \in Calls
    BY DEF Calls
  <2>2. call' \in [Calls -> Call]
    BY <1>21, <2>1, SentType DEF SignInAsk, DeviceOK
  <2>3. signIn' \in SignInFlow
    BY <1>21, Flows DEF SignInAsk, SignInFlow
  <2> QED
    BY <1>21, <2>2, <2>3 DEF SignInAsk, DeviceOK
<1>22. ASSUME NEW p \in Pairs, AccessExpires(p) \/ SessionExpires(p) PROVE DeviceOK'
  BY <1>22 DEF AccessExpires, SessionExpires, DeviceOK
<1>23. CASE Kill
  BY <1>23 DEF Kill, DeviceOK, Statuses
<1> QED
  BY <1>2, <1>3, <1>4, <1>5, <1>6, <1>7, <1>8, <1>9, <1>10, <1>11, <1>12, <1>13, <1>14, <1>15,
     <1>16, <1>17, <1>18, <1>19, <1>20, <1>21, <1>22, <1>23
     DEF Next, CallStep, RefreshStep, SignOutStep, SignInStep

LEMMA TypeStep == TypeOK /\ [Next]_vars => TypeOK'
<1>1. TypeOK /\ Next => TypeOK'
  BY TypeIs, BackendStep, HistoryStep, DeviceStep DEF BackendOK, DeviceOK, HistoryOK, TypeOK,
     RefreshFlow, SignOutFlow, SignInFlow, Stores, Statuses
<1>2. TypeOK /\ UNCHANGED vars => TypeOK'
  BY DEF TypeOK, vars, backend, history
<1> QED
  BY <1>1, <1>2

(***************************************************************************)
(* Every call that runs is somebody's.                                     *)
(***************************************************************************)
(* A call that nobody's state speaks of starts, ends or goes on.           *)
LEMMA MatchedStays ==
    ASSUME Matched, status' = status, signIn' = signIn, signOut' = signOut,
           \A c \in Calls : Runs(c)' <=> Runs(c)
    PROVE  Matched'
BY DEF Matched, OnlyMe, Calls

LEMMA MatchedReturn ==
    ASSUME DeviceOK, Matched, NEW c \in Calls, NEW ok \in BOOLEAN, Runs(c), Return(c, ok)
    PROVE  Matched'
<1>1. ~ Runs(c)' /\ \A d \in Calls : d # c => (Runs(d)' <=> Runs(d))
  BY Nothing, OneCall DEF Return, Runs, DeviceOK
<1>2. CASE c = "me"
  BY <1>1, <1>2, Nothing DEF Return, Matched, OnlyMe, Calls, DeviceOK, Statuses
<1>3. CASE c = "logout"
  BY <1>1, <1>3, Flows, Nothing DEF Return, Matched, OnlyMe, Calls
<1>4. CASE c = "refetch"
  BY <1>1, <1>4 DEF Return, Matched, OnlyMe, Calls
<1>5. CASE c = "other"
  BY <1>1, <1>5 DEF Return, Matched, OnlyMe, Calls
<1> QED
  BY <1>2, <1>3, <1>4, <1>5 DEF Calls

LEMMA MatchedFinish ==
    ASSUME DeviceOK, Matched, NEW pair \in Maybe, Finish(pair),
           status' = status, signIn' = signIn, signOut' = signOut
    PROVE  Matched'
<1>1. \A c \in Calls : Runs(c)' <=> Runs(c)
  BY FinishCalls DEF Runs
<1> QED
  BY <1>1, MatchedStays

LEMMA MatchedStep == TypeOK /\ Matched /\ [Next]_vars => Matched'
<1> SUFFICES ASSUME TypeOK, Matched, [Next]_vars PROVE Matched'
  OBVIOUS
<1>1. DeviceOK
  BY TypeIs
<1>2. call \in [Calls -> Call]
  BY <1>1 DEF DeviceOK
<1> USE <1>1, <1>2, Nothing
<1>3. CASE UNCHANGED <<call, status, signIn, signOut>>
  BY <1>3, MatchedStays DEF Runs
<1>5. CASE Boot
  <2>1. CASE status' = "unauthenticated" /\ UNCHANGED call
    <3>1. \A c : Runs(c)' <=> Runs(c)
      BY <2>1 DEF Runs
    <3> QED
      BY <1>5, <2>1, <3>1 DEF Boot, Matched, OnlyMe
  <2>2. CASE call' = [call EXCEPT !["me"] = Sent] /\ status' = "loading"
    <3>1. Runs("me")' /\ \A d \in Calls : d # "me" => (Runs(d)' <=> Runs(d))
      BY <2>2, SentType, OneCall DEF Runs, Calls
    <3> QED
      BY <1>5, <2>2, <3>1 DEF Boot, Matched, OnlyMe, Calls
  <2> QED
    BY <1>5, <2>1, <2>2 DEF Boot
<1>6. ASSUME NEW c \in Calls, Ask(c) PROVE Matched'
  <2>1. \A d \in Calls : d # c => (Runs(d)' <=> Runs(d))
    BY <1>6, SentType, OneCall DEF Ask, Runs
  <2> QED
    BY <1>6, <2>1 DEF Ask, Matched, OnlyMe, Calls
<1>7. ASSUME NEW c \in Calls, Accepted(c) PROVE Matched'
  <2>0. Runs(c)
    BY <1>7 DEF Accepted, Runs
  <2>1. CASE c = "logout"
    <3>1. PICK x : x = [NoCall EXCEPT !.pc = "answered"]
      OBVIOUS
    <3>2. x \in Call /\ x.pc = "answered"
      BY <3>1 DEF NoCall, Call
    <3>3. call' = [call EXCEPT ![c] = x]
      BY <1>7, <2>1, <3>1 DEF Accepted
    <3>4. \A d \in Calls : Runs(d)' <=> Runs(d)
      BY <2>0, <3>2, <3>3, OneCall DEF Runs
    <3> QED
      BY <1>7, <2>1, <3>4, MatchedStays DEF Accepted
  <2>2. CASE c # "logout"
    BY <1>7, <2>0, <2>2, MatchedReturn DEF Accepted
  <2> QED
    BY <2>1, <2>2
<1>8. ASSUME NEW c \in Calls, Denied(c) PROVE Matched'
  <2>0. Runs(c)
    BY <1>8 DEF Denied, Runs
  <2>1. CASE call[c].retried
    BY <1>8, <2>0, <2>1, MatchedReturn DEF Denied
  <2>2. CASE ~ call[c].retried
    <3>1. PICK x : x = [NoCall EXCEPT !.pc = "waiting"]
      OBVIOUS
    <3>2. x \in Call /\ x.pc = "waiting"
      BY <3>1 DEF NoCall, Call
    <3>3. call' = [call EXCEPT ![c] = x]
      BY <1>8, <2>2, <3>1 DEF Denied
    <3>4. \A d \in Calls : Runs(d)' <=> Runs(d)
      BY <2>0, <3>2, <3>3, OneCall DEF Runs
    <3> QED
      BY <1>8, <2>2, <3>4, MatchedStays DEF Denied
  <2> QED
    BY <2>1, <2>2
<1>9. ASSUME NEW c \in Calls, Expired(c) PROVE Matched'
  <2>1. Runs(c) /\ ~ Runs(c)' /\ \A d \in Calls : d # c => (Runs(d)' <=> Runs(d))
    BY <1>9, OneCall DEF Expired, Runs
  <2>2. CASE c = "logout"
    BY <1>9, <2>1, <2>2, Flows DEF Expired, Matched, OnlyMe, Calls
  <2>3. CASE c # "logout"
    <3>1. signOut'.pc = "logout" <=> signOut.pc = "logout"
      BY <1>9, <2>3, Flows DEF Expired, StartSignOut
    <3>2. CASE c = "me"
      BY <1>9, <2>1, <3>1, <3>2 DEF Expired, Matched, OnlyMe, Calls, DeviceOK, Statuses
    <3>3. CASE c # "me"
      BY <1>9, <2>1, <2>3, <3>1, <3>3 DEF Expired, Matched, OnlyMe, Calls
    <3> QED
      BY <3>2, <3>3
  <2> QED
    BY <2>2, <2>3
<1>10. ASSUME NEW c \in Calls, Lose(c) PROVE Matched'
  BY <1>10, MatchedReturn DEF Lose, Runs
<1>11. CASE RefreshRead
  BY <1>11, <1>3, MatchedFinish DEF RefreshRead
<1>12. CASE RefreshServe \/ RefreshSaveAccess \/ RefreshLost
  BY <1>12, <1>3 DEF RefreshServe, RefreshSaveAccess, RefreshLost
<1>14. CASE RefreshSaveRefresh
  <2>1. refresh.pair \in Maybe
    BY DEF DeviceOK, RefreshFlow, Flow
  <2> QED
    BY <1>14, <2>1, MatchedFinish DEF RefreshSaveRefresh
<1>15. CASE RefreshClear
  BY <1>15, MatchedFinish DEF RefreshClear
<1>16. CASE UserSignsOut
  <2>1. (signOut'.pc = "logout" <=> signOut.pc = "logout") /\ \A c : Runs(c)' <=> Runs(c)
    BY <1>16, Flows DEF UserSignsOut, StartSignOut, Runs
  <2> QED
    BY <1>16, <2>1 DEF UserSignsOut, Matched
<1>17. CASE SignOutRead
  <2>1. ~ Runs("logout") /\ status # "loading"
    BY <1>17 DEF SignOutRead, Matched
  <2>2. CASE UNCHANGED call /\ signOut' = At("clear", None)
    BY <1>17, <2>1, <2>2, Flows DEF SignOutRead, Matched, Runs
  <2>3. CASE call' = [call EXCEPT !["logout"] = Sent] /\ signOut' = At("logout", store.refresh)
    <3>1. Runs("logout")' /\ \A d \in Calls : d # "logout" => (Runs(d)' <=> Runs(d))
      BY <2>3, SentType, OneCall DEF Runs, Calls
    <3>2. signOut'.pc = "logout"
      BY <2>3, Flows DEF DeviceOK, Stores
    <3> QED
      BY <1>17, <2>1, <3>1, <3>2 DEF SignOutRead, Matched, Calls
  <2> QED
    BY <1>17, <2>2, <2>3 DEF SignOutRead
<1>18. CASE LogoutAnswered
  BY <1>18, MatchedReturn DEF LogoutAnswered, Calls, Runs
<1>19. CASE SignOutClear
  BY <1>19 DEF SignOutClear, Matched, OnlyMe, Runs
<1>20. CASE UserSignsIn
  BY <1>20, Flows DEF UserSignsIn, Matched, Runs
<1>21. CASE LoginServe \/ SignInSaveAccess \/ SignInSaveRefresh
  <2>1. /\ signIn.pc \notin {"none", "asked"} /\ signIn'.pc # "asked"
        /\ UNCHANGED <<status, signOut, call>>
    BY <1>21, Flows
       DEF LoginServe, SignInSaveAccess, SignInSaveRefresh, DeviceOK, SignInFlow, Flow, Maybe
  <2> QED
    BY <2>1 DEF Matched, Runs
<1>22. CASE SignInAsk
  <2>1. Runs("me")' /\ \A d \in Calls : d # "me" => (Runs(d)' <=> Runs(d))
    BY <1>22, SentType, OneCall DEF SignInAsk, Runs, Calls
  <2>2. signIn.pc = "saved" /\ signIn'.pc = "asked" /\ UNCHANGED <<status, signOut>>
    BY <1>22, Flows DEF SignInAsk
  <2> QED
    BY <2>1, <2>2 DEF Matched, Calls
<1>23. ASSUME NEW p \in Pairs, AccessExpires(p) \/ SessionExpires(p) PROVE Matched'
  BY <1>23, <1>3 DEF AccessExpires, SessionExpires
<1>24. CASE Kill
  BY <1>24 DEF Kill, Matched, OnlyMe, Runs, Calls
<1>25. CASE UNCHANGED vars
  BY <1>25, <1>3 DEF vars
<1> QED
  BY <1>5, <1>6, <1>7, <1>8, <1>9, <1>10, <1>11, <1>12, <1>14, <1>15, <1>16, <1>17, <1>18,
     <1>19, <1>20, <1>21, <1>22, <1>23, <1>24, <1>25
     DEF Next, CallStep, RefreshStep, SignOutStep, SignInStep

(***************************************************************************)
(* Calls and the refresh they wait for.                                    *)
(***************************************************************************)
(* A step leaves both sides alone, ...                                     *)
LEMMA AwaitedStays ==
    ASSUME Awaited, (refresh'.pc # "none") <=> (refresh.pc # "none"),
           \A c \in Calls : (call'[c].pc = "waiting") <=> (call[c].pc = "waiting")
    PROVE  Awaited'
BY DEF Awaited

(* ... or ends the refresh.                                                *)
LEMMA AwaitedEnds ==
    ASSUME DeviceOK, NEW pair \in Maybe, Finish(pair)
    PROVE  Awaited'
<1>1. refresh'.pc = "none"
  BY FinishCalls, Nothing
<1>2. \A c \in Calls : call'[c].pc # "waiting"
  BY FinishCalls
<1> QED
  BY <1>1, <1>2 DEF Awaited

(* One call, which did not wait, goes on.                                  *)
LEMMA OneCallAwaited ==
    ASSUME Awaited, call \in [Calls -> Call], NEW c \in Calls, NEW x \in Call,
           call[c].pc # "waiting", x.pc # "waiting",
           call' = [call EXCEPT ![c] = x],
           (refresh'.pc # "none") <=> (refresh.pc # "none")
    PROVE  Awaited'
BY OneCall, AwaitedStays

LEMMA AwaitedStep == TypeOK /\ Matched /\ Awaited /\ [Next]_vars => Awaited'
<1> SUFFICES ASSUME TypeOK, Matched, Awaited, [Next]_vars PROVE Awaited'
  OBVIOUS
<1>1. DeviceOK
  BY TypeIs
<1>2. call \in [Calls -> Call]
  BY <1>1 DEF DeviceOK
<1> USE <1>1, <1>2, Nothing
<1>3. CASE UNCHANGED <<refresh, call>>
  BY <1>3, AwaitedStays
<1>4. ASSUME NEW c \in Calls, NEW ok, call[c].pc # "waiting", Return(c, ok), refresh' = refresh
      PROVE  Awaited'
  BY <1>4, OneCallAwaited DEF Return
<1>5. CASE Boot
  <2>1. "me" \in Calls /\ call["me"].pc = "idle"
    BY <1>5 DEF Boot, Calls, Matched, Runs
  <2>2. refresh' = refresh
    BY <1>5 DEF Boot
  <2>3. CASE UNCHANGED call
    BY <2>2, <2>3, <1>3
  <2>4. CASE call' = [call EXCEPT !["me"] = Sent]
    BY <2>1, <2>2, <2>4, OneCallAwaited, SentType
  <2> QED
    BY <1>5, <2>3, <2>4 DEF Boot
<1>6. ASSUME NEW c \in Calls, Ask(c) PROVE Awaited'
  BY <1>6, OneCallAwaited, SentType DEF Ask
<1>7. ASSUME NEW c \in Calls, Accepted(c) PROVE Awaited'
  <2>1. CASE c = "logout"
    <3>1. PICK x : x = [NoCall EXCEPT !.pc = "answered"]
      OBVIOUS
    <3>2. x \in Call /\ x.pc = "answered"
      BY <3>1 DEF NoCall, Call
    <3>3. call' = [call EXCEPT ![c] = x] /\ refresh' = refresh /\ call[c].pc = "sent"
      BY <1>7, <2>1, <3>1 DEF Accepted
    <3> QED
      BY <3>2, <3>3, OneCallAwaited
  <2>2. CASE c # "logout"
    BY <1>7, <2>2, <1>4 DEF Accepted
  <2> QED
    BY <2>1, <2>2
<1>8. ASSUME NEW c \in Calls, Denied(c) PROVE Awaited'
  <2>1. CASE call[c].retried
    BY <1>8, <2>1, <1>4 DEF Denied
  <2>2. CASE ~ call[c].retried
    <3>1. PICK x : x = [NoCall EXCEPT !.pc = "waiting"]
      OBVIOUS
    <3>2. x.pc = "waiting"
      BY <3>1 DEF NoCall
    <3>3. call' = [call EXCEPT ![c] = x]
      BY <1>8, <2>2, <3>1 DEF Denied
    <3>4. refresh'.pc # "none"
      BY <1>8, <2>2, Flows DEF Denied
    <3> QED
      BY <3>2, <3>3, <3>4 DEF Awaited
  <2> QED
    BY <2>1, <2>2
<1>9. ASSUME NEW c \in Calls, Expired(c) PROVE Awaited'
  BY <1>9, OneCallAwaited DEF Expired
<1>10. ASSUME NEW c \in Calls, Lose(c) PROVE Awaited'
  BY <1>10, <1>4 DEF Lose
<1>11. CASE RefreshRead
  BY <1>11, AwaitedStays, AwaitedEnds, Flows DEF RefreshRead, DeviceOK, Stores
<1>12. CASE RefreshServe
  BY <1>12, AwaitedStays, Flows DEF RefreshServe, Maybe
<1>13. CASE RefreshSaveAccess
  <2>1. refresh.pair \in Maybe
    BY DEF DeviceOK, RefreshFlow, Flow
  <2> QED
    BY <1>13, <2>1, AwaitedStays, Flows DEF RefreshSaveAccess
<1>14. CASE RefreshSaveRefresh
  <2>1. refresh.pair \in Maybe
    BY DEF DeviceOK, RefreshFlow, Flow
  <2> QED
    BY <1>14, <2>1, AwaitedEnds DEF RefreshSaveRefresh
<1>15. CASE RefreshClear
  BY <1>15, AwaitedEnds DEF RefreshClear
<1>16. CASE RefreshLost
  BY <1>16, AwaitedStays, Flows DEF RefreshLost
<1>17. CASE SignOutRead
  <2>1. "logout" \in Calls
    BY DEF Calls
  <2>2. CASE UNCHANGED call
    BY <1>17, <2>2, <1>3 DEF SignOutRead
  <2>3. CASE call' = [call EXCEPT !["logout"] = Sent]
    <3>1. call["logout"].pc # "waiting"
      BY <1>17 DEF SignOutRead, Matched, Runs
    <3> QED
      BY <1>17, <2>1, <2>3, <3>1, OneCallAwaited, SentType DEF SignOutRead
  <2> QED
    BY <1>17, <2>2, <2>3 DEF SignOutRead
<1>18. CASE LogoutAnswered
  BY <1>18, <1>4 DEF LogoutAnswered, Calls
<1>19. CASE UserSignsOut \/ SignOutClear \/ UserSignsIn \/ LoginServe \/ SignInSaveAccess
            \/ SignInSaveRefresh
  BY <1>19, <1>3
     DEF UserSignsOut, SignOutClear, UserSignsIn, LoginServe, SignInSaveAccess, SignInSaveRefresh
<1>20. CASE SignInAsk
  <2>1. call["me"].pc # "waiting"
    BY <1>20 DEF SignInAsk, Matched, Runs
  <2> QED
    BY <1>20, <2>1, OneCallAwaited, SentType DEF SignInAsk, Calls
<1>21. ASSUME NEW p \in Pairs, AccessExpires(p) \/ SessionExpires(p) PROVE Awaited'
  BY <1>21, <1>3 DEF AccessExpires, SessionExpires
<1>22. CASE Kill
  BY <1>22 DEF Kill, Awaited
<1>23. CASE UNCHANGED vars
  BY <1>23, <1>3 DEF vars
<1> QED
  BY <1>5, <1>6, <1>7, <1>8, <1>9, <1>10, <1>11, <1>12, <1>13, <1>14, <1>15, <1>16, <1>17, <1>18,
     <1>19, <1>20, <1>21, <1>22, <1>23
     DEF Next, CallStep, RefreshStep, SignOutStep, SignInStep

(***************************************************************************)
(* After a sign-out has cleared the store, nothing is left that fills it.  *)
(***************************************************************************)
LEMMA ClearedStep == TypeOK /\ ClearedIsQuiet /\ [Next]_vars => ClearedIsQuiet'
<1> SUFFICES ASSUME TypeOK, ClearedIsQuiet, [Next]_vars, cleared' PROVE ClearedIsQuiet'
  BY DEF ClearedIsQuiet
<1> USE Nothing DEF ClearedIsQuiet, SignedOutStaysEmpty
<1>1. DeviceOK
  BY TypeIs
<1>2. CASE cleared' = cleared /\ UNCHANGED <<store, signIn, refresh>>
  BY <1>2
<1>3. ASSUME NEW c \in Calls, NEW ok, Return(c, ok), UNCHANGED <<refresh, cleared>>
      PROVE  ClearedIsQuiet'
  BY <1>3 DEF Return
<1>4. CASE Boot
  BY <1>2, <1>4 DEF Boot, history
<1>5. ASSUME NEW c \in Calls, Ask(c) \/ Accepted(c) \/ Lose(c) PROVE ClearedIsQuiet'
  BY <1>2, <1>3, <1>5 DEF Ask, Accepted, Lose, history
<1>6. ASSUME NEW c \in Calls, Denied(c) PROVE ClearedIsQuiet'
  <2>1. CASE call[c].retried
    BY <1>3, <1>6, <2>1 DEF Denied, history
  <2>2. CASE ~ call[c].retried
    BY <1>6, <2>2, Flows DEF Denied, history
  <2> QED
    BY <2>1, <2>2
<1>7. ASSUME NEW c \in Calls, Expired(c) PROVE ClearedIsQuiet'
  BY <1>7 DEF Expired, history
<1>8. CASE RefreshRead
  BY <1>8, Flows DEF RefreshRead, Finish, history
<1>9. CASE RefreshServe \/ RefreshLost \/ RefreshSaveAccess \/ RefreshSaveRefresh \/ RefreshClear
  BY <1>9
     DEF RefreshServe, RefreshLost, RefreshSaveAccess, RefreshSaveRefresh, RefreshClear, history
<1>10. CASE UserSignsOut \/ SignOutRead
  BY <1>2, <1>10 DEF UserSignsOut, SignOutRead, history
<1>11. CASE LogoutAnswered
  BY <1>3, <1>11 DEF LogoutAnswered, history, Calls
<1>12. CASE SignOutClear
  BY <1>12 DEF SignOutClear
<1>13. CASE UserSignsIn \/ Kill
  BY <1>13 DEF UserSignsIn, Kill
<1>14. CASE SignInStep
  BY <1>14
     DEF SignInStep, LoginServe, SignInSaveAccess, SignInSaveRefresh, SignInAsk, history
<1>15. ASSUME NEW p \in Pairs, AccessExpires(p) \/ SessionExpires(p) PROVE ClearedIsQuiet'
  BY <1>2, <1>15 DEF AccessExpires, SessionExpires, history
<1>16. CASE UNCHANGED vars
  BY <1>2, <1>16 DEF vars, history
<1> QED
  BY <1>4, <1>5, <1>6, <1>7, <1>8, <1>9, <1>10, <1>11, <1>12, <1>13, <1>14, <1>15, <1>16
     DEF Next, CallStep, RefreshStep, SignOutStep

(***************************************************************************)
(* A session that nothing has ended is alive.                              *)
(***************************************************************************)
Running == TypeOK /\ Matched /\ Awaited /\ Alive

LEMMA StoredPair ==
    ASSUME DeviceOK
    PROVE  /\ store.access \in Maybe /\ store.refresh \in Maybe
           /\ refresh.pair \in Maybe /\ signIn.pair \in Maybe
BY DEF DeviceOK, Stores, RefreshFlow, SignInFlow, Flow

(* Who waits for a refresh has both tokens, and no sign-in is saving.      *)
LEMMA WaitingHasPair ==
    ASSUME Running, refresh.pc # "none"
    PROVE  /\ store.access # None /\ store.refresh # None
           /\ signIn.pc \in {"none", "asked"}
<1>1. PICK c \in Calls : call[c].pc = "waiting"
  BY DEF Running, Awaited
<1>2. CASE c = "me"
  BY <1>1, <1>2 DEF Running, Alive, OnePair, Matched, Runs
<1>3. CASE c = "logout"
  BY <1>1, <1>3 DEF Running, Alive, Orderly, Matched, Runs
<1>4. CASE c \in {"refetch", "other"}
  <2>1. status = "authenticated"
    BY <1>1, <1>4, TypeIs
       DEF Running, Alive, Orderly, Matched, OnlyMe, Runs, DeviceOK, Statuses
  <2> QED
    BY <2>1 DEF Running, Alive, OnePair, Orderly
<1> QED
  BY <1>2, <1>3, <1>4 DEF Calls

(* What the backend takes it still takes, of what the device knows.        *)
LEMMA StillTaken ==
    ASSUME Backend(token, fresh), NEW p \in Pairs, Taken(p), p \in Known'
    PROVE  Taken(p)'
BY DEF Backend, Taken

LEMMA NewTaken ==
    ASSUME NEW p \in Pairs, NEW old, Mints(p, old), p \in Known'
    PROVE  Taken(p)'
BY DEF Mints, Backend, Taken

LEMMA OthersTaken ==
    ASSUME NEW p, NEW old, NEW q \in Pairs, Mints(p, old), q # old, Taken(q), q \in Known'
    PROVE  Taken(q)'
BY DEF Mints, Backend, Taken

LEMMA KnownAre == {store.access, store.refresh, refresh.pair, signIn.pair} \subseteq Known
BY DEF Known

(* The pair is not touched: nothing that is saved or posted changes.       *)
LEMMA PairStays ==
    ASSUME Running, UNCHANGED <<store, refresh, signIn>>,
           token' = token \/ Backend(token, fresh)
    PROVE  PairTaken'
<1>1. \A p \in {store.refresh, refresh.pair, signIn.pair} : Taken(p) => Taken(p)'
  <2>1. {store.refresh, refresh.pair, signIn.pair} \subseteq Known'
    BY KnownAre DEF Known
  <2> QED
    BY <2>1, StillTaken DEF Taken
<1> QED
  BY <1>1, Zenon DEF Running, Alive, PairTaken, Saving

(* A call returns.                                                         *)
LEMMA AliveReturn ==
    ASSUME Running, NEW c \in Calls, NEW ok \in BOOLEAN, call[c].pc = "sent", Return(c, ok),
           refresh' = refresh, Backend(token, fresh)
    PROVE  Alive'
<1> USE Nothing
<1>1. DeviceOK
  BY TypeIs DEF Running
<1>2. c # "logout"
  BY DEF Running, Alive, Orderly, Matched, Runs
<1>3. /\ ~ Runs(c)' /\ \A d \in Calls : d # c => (Runs(d)' <=> Runs(d))
      /\ \A d \in Calls : call'[d].pc \in {"idle", "sent", "waiting"}
      /\ signOut' = signOut
  BY <1>1, <1>2, OneCall DEF Return, Runs, DeviceOK, Running, Alive, Orderly
<1>4. CASE c = "me"
  <2>1. /\ signIn'.pc = "none" /\ OnlyMe
        /\ status' = "authenticated" \/ status' = "unauthenticated"
    <3>1. status = "loading" \/ signIn.pc = "asked"
      BY <1>4 DEF Running, Matched, Runs
    <3>2. status \in {"loading", "unauthenticated"}
      BY <1>1, <3>1 DEF Running, Alive, Orderly, Matched, DeviceOK, Statuses
    <3> QED
      BY <1>4, <3>2 DEF Return, Running, Alive, Orderly, Matched
  <2>2. refresh.pc = "none"
    <3>1. \A d \in Calls : call[d].pc # "waiting"
      BY <1>4, <2>1 DEF Running, Alive, Orderly, OnlyMe, Matched, Runs, Calls
    <3> QED
      BY <3>1 DEF Running, Awaited
  <2>3. status \in {"loading", "unauthenticated"} /\ (status = "unauthenticated" => signIn.pc = "asked")
    BY <1>1, <1>4 DEF Running, Alive, Orderly, Matched, Runs, DeviceOK, Statuses
  <2>4. Orderly'
    BY <1>3, <1>4, <2>1 DEF Orderly, OnlyMe, Calls, Running, Alive
  <2>5. store.access = store.refresh /\ store.refresh # None /\ Taken(store.refresh)
    BY <2>2, <2>3 DEF Running, Alive, OnePair, PairTaken, Saving, Matched
  <2>6. CASE store' = Empty
    <3>1. status' = "unauthenticated"
      BY <1>4, <2>3, <2>5, <2>6 DEF Return
    <3> QED
      BY <2>1, <2>2, <2>4, <2>6, <3>1 DEF Alive, OnePair, PairTaken, Saving
  <2>7. CASE store' = store
    <3>1. Taken(store.refresh)'
      BY <2>5, <2>7, StillTaken, StoredPair, <1>1 DEF Taken, Known
    <3> QED
      BY <2>1, <2>2, <2>4, <2>5, <2>7, <3>1 DEF Alive, OnePair, PairTaken, Saving
  <2> QED
    BY <2>6, <2>7 DEF Return
<1>5. CASE c \in {"refetch", "other"}
  <2>1. status = "authenticated" /\ status' = "authenticated"
    BY <1>1, <1>5
       DEF Return, Running, Alive, Orderly, Matched, OnlyMe, Runs, DeviceOK, Statuses
  <2>2. UNCHANGED <<store, refresh, signIn>>
    BY <1>5 DEF Return
  <2>3. PairTaken'
    BY <2>2, PairStays
  <2>4. Orderly'
    BY <1>3, <2>1, <2>2 DEF Orderly, Running, Alive
  <2> QED
    BY <2>1, <2>2, <2>3, <2>4 DEF Running, Alive, OnePair
<1> QED
  BY <1>2, <1>4, <1>5 DEF Calls

(* A call starts, or waits: nothing else changes.                          *)
LEMMA AliveGoesOn ==
    ASSUME Running, UNCHANGED <<store, status, signIn, signOut>>,
           \A c \in Calls : /\ call'[c].pc \in {"idle", "sent", "waiting"}
                            /\ status = "unauthenticated" /\ c \in {"refetch", "other"}
                                  => (Runs(c)' <=> Runs(c))
    PROVE  Orderly'
BY DEF Orderly, OnlyMe, Calls, Running, Alive

LEMMA AliveStep == Running /\ [Next]_vars /\ ~ excused /\ ~ excused' => Alive'
<1> SUFFICES ASSUME Running, [Next]_vars, ~ excused, ~ excused' PROVE Alive'
  OBVIOUS
<1> USE Nothing
<1>1. BackendOK /\ DeviceOK
  BY TypeIs DEF Running
<1>2. /\ call \in [Calls -> Call]
      /\ store.access \in Maybe /\ store.refresh \in Maybe
      /\ refresh.pair \in Maybe /\ signIn.pair \in Maybe
      /\ None \notin Pairs
  BY <1>1, StoredPair, MobileAssumption DEF DeviceOK
<1>3. ASSUME UNCHANGED <<store, status, call, refresh, signIn, signOut>>,
             token' = token \/ Backend(token, fresh)
      PROVE  Alive'
  BY <1>3, PairStays, Zenon DEF Running, Alive, Orderly, OnePair, OnlyMe, Runs
<1>4. CASE Boot
  <2>1. PairTaken'
    BY <1>4, PairStays DEF Boot, backend
  <2>2. CASE status' = "unauthenticated" /\ UNCHANGED call
    <3>1. Orderly'
      BY <1>4, <2>2 DEF Boot, Running, Matched, Alive, Orderly, OnlyMe, Runs
    <3>2. OnePair'
      BY <1>4, <2>2 DEF Boot, Running, Matched, Alive, OnePair
    <3> QED
      BY <2>1, <3>1, <3>2 DEF Alive
  <2>3. CASE call' = [call EXCEPT !["me"] = Sent] /\ status' = "loading" /\ store.access # None
    <3>1. Orderly'
      BY <1>1, <1>2, <1>4, <2>3, SentType, OneCall
         DEF Boot, Running, Alive, Orderly, OnlyMe, Calls
    <3>2. refresh.pc = "none"
      <4>1. \A c \in Calls : call[c].pc = "idle"
        BY <1>4 DEF Boot, Running, Matched, OnlyMe, Runs, Calls
      <4> QED
        BY <4>1 DEF Running, Awaited
    <3>3. store.access = store.refresh
      BY <1>4, <3>2 DEF Boot, Running, Alive, OnePair, Matched
    <3> QED
      BY <1>4, <2>1, <2>3, <3>1, <3>3 DEF Boot, Running, Alive, OnePair
  <2> QED
    BY <1>4, <2>2, <2>3 DEF Boot
<1>5. ASSUME NEW c \in Calls, Ask(c) PROVE Alive'
  <2>1. PairTaken'
    BY <1>5, PairStays DEF Ask, backend
  <2>2. Orderly'
    BY <1>1, <1>2, <1>5, AliveGoesOn, SentType, OneCall DEF Ask, Running, Alive, Orderly
  <2> QED
    BY <1>5, <2>1, <2>2 DEF Ask, Running, Alive, OnePair
<1>6. ASSUME NEW c \in Calls, Accepted(c) PROVE Alive'
  <2>1. c # "logout"
    BY <1>6 DEF Accepted, Running, Alive, Orderly, Matched, Runs
  <2> QED
    BY <1>6, <2>1, AliveReturn DEF Accepted
<1>7. ASSUME NEW c \in Calls, Lose(c) PROVE Alive'
  BY <1>7, AliveReturn DEF Lose
<1>8. ASSUME NEW c \in Calls, Denied(c) PROVE Alive'
  <2>1. CASE call[c].retried
    BY <1>8, <2>1, AliveReturn DEF Denied
  <2>2. CASE ~ call[c].retried
    <3>1. PICK x : x = [NoCall EXCEPT !.pc = "waiting"]
      OBVIOUS
    <3>2. x \in Call /\ x.pc = "waiting"
      BY <3>1 DEF NoCall, Call
    <3>3. /\ call' = [call EXCEPT ![c] = x] /\ call[c].pc = "sent"
          /\ UNCHANGED <<store, status, signOut, signIn>> /\ Backend(token, fresh)
          /\ refresh' = IF refresh.pc = "none" THEN At("read", None) ELSE refresh
      BY <1>8, <2>2, <3>1 DEF Denied
    <3>4. \A d \in Calls : /\ call'[d].pc \in {"idle", "sent", "waiting"}
                           /\ Runs(d)' <=> Runs(d)
      BY <1>2, <3>2, <3>3, OneCall DEF Runs, Running, Alive, Orderly
    <3>5. Orderly'
      BY <3>3, <3>4, AliveGoesOn
    <3>6. CASE refresh' = refresh
      BY <3>3, <3>5, <3>6, PairStays DEF Running, Alive, OnePair
    <3>7. CASE refresh.pc = "none" /\ refresh' = At("read", None)
      <4>1. refresh'.pc = "read"
        BY <3>7, Flows
      <4>2. \A p \in {store.refresh, signIn.pair} : Taken(p) => Taken(p)'
        <5>1. {store.refresh, signIn.pair} \subseteq Known'
          BY <3>3 DEF Known
        <5> QED
          BY <3>3, <5>1, StillTaken DEF Taken
      <4>3. PairTaken'
        BY <3>3, <3>7, <4>1, <4>2 DEF Running, Alive, PairTaken, Saving
      <4> QED
        BY <3>3, <3>5, <3>7, <4>1, <4>3 DEF Running, Alive, OnePair
    <3> QED
      BY <3>3, <3>6, <3>7
  <2> QED
    BY <2>1, <2>2
<1>9. ASSUME NEW c \in Calls, Expired(c) PROVE Alive'
  BY <1>9 DEF Expired, Running, Alive, Orderly
<1>10. CASE RefreshRead
  <2>1. store.refresh # None
    BY <1>10, WaitingHasPair DEF RefreshRead
  <2>2. /\ refresh'.pc = "posted" /\ refresh'.pair = store.refresh
        /\ UNCHANGED <<token, store, status, call, signIn, signOut>>
    BY <1>2, <1>10, <2>1, Flows DEF RefreshRead, backend
  <2>3. PairTaken'
    BY <1>10, <2>2 DEF RefreshRead, Running, Alive, PairTaken, Saving, Taken
  <2> QED
    BY <1>10, <2>2, <2>3 DEF RefreshRead, Running, Alive, Orderly, OnePair, OnlyMe, Runs
<1>11. CASE RefreshServe
  <2>1. Taken(store.refresh) /\ refresh.pair = store.refresh /\ ~ Saving(signIn)
    BY <1>11, WaitingHasPair DEF RefreshServe, Running, Alive, PairTaken, Saving
  <2>2. PICK p \in Pairs \ Known : refresh' = At("answered", p) /\ Mints(p, refresh.pair)
    BY <1>11, <2>1 DEF RefreshServe, Taken
  <2>3. /\ refresh'.pc = "answered" /\ refresh'.pair = p
        /\ UNCHANGED <<store, status, call, signIn, signOut>>
    BY <1>11, <2>2, Flows DEF RefreshServe, Maybe
  <2>4. Taken(p)'
    <3>1. p \in Known'
      BY <2>3 DEF Known
    <3> QED
      BY <2>2, <3>1, NewTaken
  <2>5. PairTaken'
    BY <2>1, <2>3, <2>4 DEF PairTaken, Saving
  <2> QED
    BY <1>11, <2>3, <2>5 DEF RefreshServe, Running, Alive, Orderly, OnePair, OnlyMe, Runs
<1>12. CASE RefreshSaveAccess
  <2>1. /\ Taken(refresh.pair) /\ ~ Saving(signIn)
    BY <1>12, WaitingHasPair DEF RefreshSaveAccess, Running, Alive, PairTaken, Saving
  <2>2. /\ store'.access = refresh.pair /\ store'.refresh = store.refresh
        /\ refresh'.pc = "half" /\ refresh'.pair = refresh.pair
        /\ UNCHANGED <<status, call, signIn, signOut>> /\ Backend(token, fresh)
    BY <1>1, <1>2, <1>12, Flows DEF RefreshSaveAccess, DeviceOK, Stores
  <2>3. Taken(refresh.pair)'
    <3>1. refresh.pair \in Known'
      BY <2>2 DEF Known
    <3> QED
      BY <2>1, <2>2, <3>1 DEF Taken, Backend
  <2>4. PairTaken'
    BY <2>1, <2>2, <2>3 DEF PairTaken, Saving
  <2>5. OnePair'
    BY <1>2, <1>12, <2>1, <2>2, WaitingHasPair DEF RefreshSaveAccess, OnePair, Taken, Saving
  <2> QED
    BY <2>2, <2>4, <2>5 DEF Running, Alive, Orderly, OnlyMe, Runs
<1>13. CASE RefreshSaveRefresh
  <2>1. /\ Taken(refresh.pair) /\ ~ Saving(signIn) /\ store.access = refresh.pair
    BY <1>13, WaitingHasPair DEF RefreshSaveRefresh, Running, Alive, PairTaken, OnePair, Saving
  <2>2. /\ store'.access = refresh.pair /\ store'.refresh = refresh.pair
        /\ refresh'.pc = "none"
        /\ \A c \in Calls : /\ call'[c].pc \in {"idle", "sent", "waiting"}
                            /\ Runs(c)' <=> Runs(c)
        /\ UNCHANGED <<status, signIn, signOut>> /\ Backend(token, fresh)
    <3>1. refresh.pair # None
      BY <1>2, <2>1 DEF Taken
    <3>2. store'.access = refresh.pair /\ store'.refresh = refresh.pair
      BY <1>1, <1>2, <1>13, <2>1 DEF RefreshSaveRefresh, DeviceOK, Stores
    <3>3. \A c \in Calls : /\ call'[c].pc \in {"idle", "sent", "waiting"}
                           /\ Runs(c)' <=> Runs(c)
      BY <1>1, <1>2, <1>13, <3>1, FinishCalls DEF RefreshSaveRefresh, Runs, Running, Alive, Orderly
    <3> QED
      BY <1>1, <1>2, <1>13, <3>2, <3>3, FinishCalls DEF RefreshSaveRefresh
  <2>3. Taken(refresh.pair) => (Taken(store.refresh))'
    <3>1. refresh.pair \in Known'
      BY <2>2 DEF Known
    <3> QED
      BY <2>1, <2>2, <3>1 DEF Taken, Backend
  <2>4. PairTaken'
    BY <2>1, <2>2, <2>3 DEF PairTaken, Saving
  <2>5. OnePair'
    BY <1>2, <2>1, <2>2 DEF OnePair, Taken, Saving
  <2>6. Orderly'
    BY <2>2 DEF Running, Alive, Orderly, OnlyMe, Calls
  <2> QED
    BY <2>4, <2>5, <2>6 DEF Alive
<1>14. CASE RefreshClear
  BY <1>14 DEF RefreshClear, Running, Alive, PairTaken
<1>15. CASE RefreshLost \/ UserSignsOut \/ \E p \in Pairs : SessionExpires(p)
  BY <1>15 DEF RefreshLost, UserSignsOut, SessionExpires
<1>16. CASE SignOutRead \/ SignOutClear \/ LogoutAnswered
  BY <1>16 DEF SignOutRead, SignOutClear, LogoutAnswered, Running, Alive, Orderly, Calls
<1>17. CASE UserSignsIn
  <2>1. /\ signIn'.pc = "posted" /\ signIn.pc = "none" /\ status = "unauthenticated"
        /\ UNCHANGED <<token, store, status, call, refresh, signOut>>
    BY <1>17, Flows DEF UserSignsIn, backend
  <2>2. PairTaken'
    BY <2>1 DEF Running, Alive, PairTaken, Saving, Taken
  <2> QED
    BY <2>1, <2>2 DEF Running, Alive, Orderly, OnePair, OnlyMe, Runs
<1>18. ASSUME signIn.pc \in {"posted", "answered", "half", "saved"}
       PROVE  /\ refresh.pc = "none" /\ status = "unauthenticated"
              /\ ~ Runs("me") /\ \A c \in Calls : ~ Runs(c)
  <2>1. refresh.pc = "none"
    BY <1>18, WaitingHasPair DEF Running, Alive, PairTaken
  <2>2. status = "unauthenticated"
    BY <1>1, <1>18 DEF Running, Alive, Orderly, Matched, DeviceOK, Statuses
  <2>3. \A c \in Calls : ~ Runs(c)
    BY <1>18, <2>2 DEF Running, Alive, Orderly, Matched, OnlyMe, Calls
  <2> QED
    BY <2>1, <2>2, <2>3 DEF Calls
<1>19. CASE LoginServe
  <2>1. refresh.pc = "none" /\ status = "unauthenticated"
    BY <1>18, <1>19 DEF LoginServe
  <2>2. UNCHANGED <<store, status, call, refresh, signOut>>
    BY <1>19 DEF LoginServe
  <2>3. CASE signIn' = NoFlow /\ UNCHANGED backend
    <3>1. signIn.pc = "posted" /\ signIn'.pc = "none" /\ UNCHANGED token
      BY <1>19, <2>3 DEF LoginServe, backend
    <3>2. Orderly' /\ OnePair'
      BY <2>1, <2>2, <3>1 DEF Running, Alive, Orderly, OnePair, OnlyMe, Runs
    <3>3. PairTaken'
      BY <2>1, <2>2, <3>1 DEF Running, Alive, PairTaken, Saving, Taken
    <3> QED
      BY <3>2, <3>3 DEF Alive
  <2>4. ASSUME NEW p \in Pairs \ Known, signIn' = At("answered", p), Mints(p, None)
        PROVE  Alive'
    <3>1. signIn'.pc = "answered" /\ signIn'.pair = p
      BY <2>4, Flows DEF Maybe
    <3>2. Taken(p)'
      <4>1. p \in Known'
        BY <3>1 DEF Known
      <4> QED
        BY <2>4, <4>1, NewTaken
    <3>3. Taken(store.refresh) => Taken(store.refresh)'
      <4>1. store.refresh \in Known'
        BY <2>2 DEF Known
      <4> QED
        BY <1>2, <2>2, <2>4, <4>1, OthersTaken DEF Taken
    <3>4. PairTaken'
      BY <2>1, <2>2, <3>1, <3>2, <3>3 DEF Running, Alive, PairTaken, Saving
    <3> QED
      BY <1>19, <2>1, <2>2, <3>1, <3>4
         DEF LoginServe, Running, Alive, Orderly, OnePair, OnlyMe, Runs
  <2> QED
    BY <1>19, <2>3, <2>4 DEF LoginServe
<1>20. CASE SignInSaveAccess
  <2>1. /\ refresh.pc = "none" /\ status = "unauthenticated" /\ Taken(signIn.pair)
    BY <1>18, <1>20 DEF SignInSaveAccess, Running, Alive, PairTaken, Saving
  <2>2. /\ store'.access = signIn.pair /\ store'.refresh = store.refresh
        /\ signIn'.pc = "half" /\ signIn'.pair = signIn.pair
        /\ UNCHANGED <<status, call, refresh, signOut>> /\ Backend(token, fresh)
    BY <1>1, <1>2, <1>20, Flows DEF SignInSaveAccess, DeviceOK, Stores
  <2>3. /\ Taken(signIn.pair)'
        /\ Taken(store.refresh) => Taken(store.refresh)'
    <3>1. signIn.pair \in Known' /\ store.refresh \in Known'
      BY <2>2 DEF Known
    <3> QED
      BY <2>1, <2>2, <3>1 DEF Taken, Backend
  <2>4. PairTaken'
    BY <2>1, <2>2, <2>3 DEF Running, Alive, PairTaken, Saving
  <2> QED
    BY <1>20, <2>1, <2>2, <2>4 DEF SignInSaveAccess, Running, Alive, Orderly, OnePair, OnlyMe, Runs
<1>21. CASE SignInSaveRefresh
  <2>1. /\ refresh.pc = "none" /\ status = "unauthenticated" /\ Taken(signIn.pair)
        /\ store.access = signIn.pair
    BY <1>18, <1>21 DEF SignInSaveRefresh, Running, Alive, PairTaken, OnePair, Saving
  <2>2. /\ store'.access = signIn.pair /\ store'.refresh = signIn.pair
        /\ signIn'.pc = "saved"
        /\ UNCHANGED <<status, call, refresh, signOut>> /\ Backend(token, fresh)
    BY <1>1, <1>2, <1>21, <2>1, Flows DEF SignInSaveRefresh, DeviceOK, Stores
  <2>3. Taken(store.refresh)'
    <3>1. signIn.pair \in Known'
      BY <2>2 DEF Known
    <3> QED
      BY <2>1, <2>2, <3>1 DEF Taken, Backend
  <2>4. PairTaken'
    BY <2>1, <2>2, <2>3 DEF PairTaken, Saving
  <2> QED
    BY <1>2, <1>21, <2>1, <2>2, <2>4
       DEF SignInSaveRefresh, Running, Alive, Orderly, OnePair, OnlyMe, Runs, Taken
<1>22. CASE SignInAsk
  <2>1. /\ refresh.pc = "none" /\ status = "unauthenticated" /\ signIn.pc = "saved"
        /\ \A c \in Calls : ~ Runs(c)
    BY <1>18, <1>22 DEF SignInAsk
  <2>2. /\ signIn'.pc = "asked"
        /\ UNCHANGED <<token, store, status, refresh, signOut>>
        /\ \A c \in Calls : /\ call'[c].pc \in {"idle", "sent", "waiting"}
                            /\ c # "me" => ~ Runs(c)'
    <3>1. "me" \in Calls
      BY DEF Calls
    <3> QED
      BY <1>1, <1>2, <1>22, <2>1, <3>1, SentType, OneCall, Flows DEF SignInAsk, Runs, backend
  <2>3. Orderly'
    BY <2>1, <2>2 DEF Running, Alive, Orderly, OnlyMe, Calls
  <2>4. PairTaken'
    BY <2>1, <2>2 DEF Running, Alive, PairTaken, Saving, Taken
  <2> QED
    BY <2>1, <2>2, <2>3, <2>4 DEF Running, Alive, OnePair
<1>23. ASSUME NEW p \in Pairs, AccessExpires(p) PROVE Alive'
  BY <1>3, <1>23 DEF AccessExpires
<1>24. CASE Kill
  <2>1. /\ ~ Saving(refresh) /\ signIn.pc # "half" /\ status' = "mounting"
        /\ refresh'.pc = "none" /\ signIn'.pc = "none" /\ signOut'.pc = "none"
        /\ \A c \in Calls : call'[c].pc = "idle"
        /\ UNCHANGED store /\ Backend(token, fresh)
    BY <1>24 DEF Kill, Saving
  <2>2. store.access = store.refresh /\ (store.refresh # None => Taken(store.refresh))
    BY <2>1 DEF Running, Alive, OnePair, PairTaken, Saving
  <2>3. store.refresh # None => Taken(store.refresh)'
    <3>1. store.refresh \in Known'
      BY <2>1 DEF Known
    <3> QED
      BY <2>1, <2>2, <3>1 DEF Taken, Backend
  <2> QED
    BY <2>1, <2>2, <2>3 DEF Alive, Orderly, OnePair, PairTaken, Saving
<1>25. CASE UNCHANGED vars
  BY <1>3, <1>25 DEF vars, backend
<1> QED
  BY <1>4, <1>5, <1>6, <1>7, <1>8, <1>9, <1>10, <1>11, <1>12, <1>13, <1>14, <1>15, <1>16,
     <1>17, <1>19, <1>20, <1>21, <1>22, <1>23, <1>24, <1>25
     DEF Next, CallStep, RefreshStep, SignOutStep, SignInStep

-----------------------------------------------------------------------------
LEMMA MobileInitInv == Init => MobileInv
<1> SUFFICES ASSUME Init PROVE MobileInv
  OBVIOUS
<1> USE Nothing
<1>1. Matched
  BY DEF Init, Matched, OnlyMe, Runs, Calls
<1>2. Awaited
  BY DEF Init, Awaited
<1>3. ClearedIsQuiet
  BY DEF Init, ClearedIsQuiet
<1>4. Alive
  BY DEF Init, Alive, Orderly, OnePair, PairTaken, Saving
<1> QED
  BY <1>1, <1>2, <1>3, <1>4, InitType DEF MobileInv

LEMMA ExcusedStays == TypeOK /\ [Next]_vars /\ excused => excused'
<1> SUFFICES ASSUME TypeOK, [Next]_vars, excused PROVE excused'
  OBVIOUS
<1>1. CASE \E c \in Calls : Ask(c) \/ CallStep(c) \/ Lose(c)
  BY <1>1 DEF Ask, CallStep, Accepted, Denied, Expired, Lose, history
<1>2. CASE RefreshStep \/ RefreshLost
  BY <1>2 DEF RefreshStep, RefreshLost, RefreshRead, RefreshServe, RefreshSaveAccess,
              RefreshSaveRefresh, RefreshClear, history
<1>3. CASE Boot \/ UserSignsOut \/ SignOutStep \/ UserSignsIn \/ SignInStep
  BY <1>3 DEF Boot, UserSignsOut, SignOutStep, SignOutRead, LogoutAnswered, SignOutClear,
              UserSignsIn, SignInStep, LoginServe, SignInSaveAccess, SignInSaveRefresh, SignInAsk,
              history
<1>4. CASE Kill \/ \E p \in Pairs : AccessExpires(p) \/ SessionExpires(p)
  BY <1>4 DEF Kill, AccessExpires, SessionExpires, history
<1>5. CASE UNCHANGED vars
  BY <1>5 DEF vars, history
<1> QED
  BY <1>1, <1>2, <1>3, <1>4, <1>5 DEF Next

LEMMA MobileNextInv == MobileInv /\ [Next]_vars => MobileInv'
BY TypeStep, MatchedStep, AwaitedStep, ClearedStep, AliveStep, ExcusedStays
   DEF MobileInv, Running

(* The types of MobileSession, under every one of its steps.               *)
THEOREM MobileTypeCorrect == Spec => []TypeOK
BY InitType, TypeStep, PTL DEF Spec

(* NoSpuriousSignOut: however many calls meet an expired access token, a   *)
(* refresh is refused only after something has ended the session.          *)
THEOREM RefreshNeverFailsAlone == Spec => []NoSpuriousSignOut
<1>1. MobileInv => NoSpuriousSignOut
  BY DEF MobileInv, NoSpuriousSignOut, Alive, PairTaken
<1> QED
  BY <1>1, MobileInitInv, MobileNextInv, PTL DEF Spec

(* SignedOutStaysEmpty: no late call brings tokens back to a device whose  *)
(* sign-out has cleared them.                                              *)
THEOREM SignedOutIsFinal == Spec => []SignedOutStaysEmpty
<1>1. MobileInv => SignedOutStaysEmpty
  BY DEF MobileInv, ClearedIsQuiet, SignedOutStaysEmpty
<1> QED
  BY <1>1, MobileInitInv, MobileNextInv, PTL DEF Spec

(* NothingHangs: whatever waits has something under way that wakes it.     *)
THEOREM EveryWaitIsAnswered == Spec => []NothingHangs
<1>1. MobileInv => NothingHangs
  BY DEF MobileInv, NothingHangs, Matched, Awaited, Runs
<1> QED
  BY <1>1, MobileInitInv, MobileNextInv, PTL DEF Spec

-----------------------------------------------------------------------------
(***************************************************************************)
(* PaymentScreen: the chain of polls and the screen agree, and whoever was *)
(* told of a success was told the truth.                                   *)
(***************************************************************************)
IsCalls(calls) ==
    /\ calls = [c \in PaymentCalls |-> calls[c]]
    /\ \A c \in PaymentCalls :
          /\ calls[c] = [kind |-> calls[c].kind, pc |-> calls[c].pc,
                         cancelled |-> calls[c].cancelled, reply |-> calls[c].reply]
          /\ calls[c].cancelled \in BOOLEAN /\ calls[c].reply \in Payment!Told

Happy(x) == x.pay = "successful" \/ x.order = "paid"
AllTrue(calls) == \A c \in PaymentCalls : Happy(calls[c].reply) => settled

Polls(calls) == {c \in PaymentCalls : calls[c].kind = "poll" /\ ~ calls[c].cancelled}

Agree(show, chain, calls) == /\ show = "pending" <=> chain # "off"
                             /\ chain = "asked" <=> Polls(calls) # {}
                             /\ \A c, d \in Polls(calls) : c = d

ScreenInv == /\ IsCalls(paymentCall) /\ AllTrue(paymentCall)
             /\ server \in Payment!Told /\ (Happy(server) => settled)
             /\ mounted => /\ Agree(screen, poller, paymentCall)
                           /\ screen = "success" => settled

LEMMA NoCallIsCall ==
    /\ Payment!NoCall = [kind |-> "none", pc |-> "idle", cancelled |-> FALSE,
                         reply |-> Payment!NoReply]
    /\ Payment!NoReply \in Payment!Told /\ ~ Happy(Payment!NoReply)
BY DEF Payment!NoCall, Payment!NoReply, Payment!Told, Happy

(* One call is put in place of another. *)
LEMMA CallsPut ==
    ASSUME IsCalls(paymentCall), AllTrue(paymentCall), NEW c \in PaymentCalls, NEW x,
           x = [kind |-> x.kind, pc |-> x.pc, cancelled |-> x.cancelled, reply |-> x.reply],
           x.cancelled \in BOOLEAN, x.reply \in Payment!Told, Happy(x.reply) => settled,
           NEW calls, calls = [paymentCall EXCEPT ![c] = x]
    PROVE  /\ IsCalls(calls) /\ AllTrue(calls)
           /\ Polls(calls) \ {c} = Polls(paymentCall) \ {c}
           /\ c \in Polls(calls) <=> x.kind = "poll" /\ ~ x.cancelled
<1>1. /\ calls = [d \in PaymentCalls |-> calls[d]] /\ calls[c] = x
      /\ \A d \in PaymentCalls : d # c => calls[d] = paymentCall[d]
  BY Zenon DEF IsCalls
<1>2. IsCalls(calls) /\ AllTrue(calls)
  BY <1>1 DEF IsCalls, AllTrue
<1>3. c \in Polls(calls) <=> x.kind = "poll" /\ ~ x.cancelled
  BY <1>1 DEF Polls
<1>4. \A d : d \in Polls(calls) \ {c} <=> d \in Polls(paymentCall) \ {c}
  BY <1>1, Zenon DEF Polls
<1> QED
  BY <1>2, <1>3, <1>4

LEMMA CallsWithout ==
    ASSUME IsCalls(paymentCall), AllTrue(paymentCall), NEW c \in PaymentCalls
    PROVE  /\ IsCalls(Payment!Without(c)) /\ AllTrue(Payment!Without(c))
           /\ Polls(Payment!Without(c)) = Polls(paymentCall) \ {c}
<1>1. PICK x : x = Payment!NoCall
  OBVIOUS
<1>2. /\ x = [kind |-> x.kind, pc |-> x.pc, cancelled |-> x.cancelled, reply |-> x.reply]
      /\ x.cancelled \in BOOLEAN /\ x.reply \in Payment!Told /\ ~ Happy(x.reply)
      /\ x.kind # "poll"
  BY <1>1, NoCallIsCall
<1>3. PICK calls : calls = Payment!Without(c)
  OBVIOUS
<1>4. calls = [paymentCall EXCEPT ![c] = x]
  BY <1>1, <1>3 DEF Payment!Without
<1>5. /\ IsCalls(calls) /\ AllTrue(calls)
      /\ Polls(calls) \ {c} = Polls(paymentCall) \ {c} /\ c \notin Polls(calls)
  BY <1>2, <1>4, CallsPut
<1> QED
  BY <1>3, <1>5

LEMMA CallsSent ==
    ASSUME IsCalls(paymentCall), AllTrue(paymentCall), NEW c \in PaymentCalls, NEW kind,
           paymentCall[c] = Payment!NoCall
    PROVE  /\ IsCalls(Payment!Sent(c, kind)) /\ AllTrue(Payment!Sent(c, kind))
           /\ kind # "poll" => Polls(Payment!Sent(c, kind)) = Polls(paymentCall)
           /\ kind = "poll" => Polls(Payment!Sent(c, kind)) = Polls(paymentCall) \cup {c}
<1>1. PICK x : x = [Payment!NoCall EXCEPT !.kind = kind, !.pc = "sent"]
  OBVIOUS
<1>2. x = [kind |-> kind, pc |-> "sent", cancelled |-> FALSE, reply |-> Payment!NoReply]
  BY <1>1 DEF Payment!NoCall
<1>3. /\ x.kind = kind /\ x.pc = "sent" /\ x.cancelled = FALSE
      /\ x.reply = Payment!NoReply
  BY <1>2
<1>4. x = [kind |-> x.kind, pc |-> x.pc, cancelled |-> x.cancelled, reply |-> x.reply]
  BY <1>2, <1>3
<1>5. x.cancelled \in BOOLEAN /\ x.reply \in Payment!Told /\ ~ Happy(x.reply)
  BY <1>3, NoCallIsCall
<1>6. PICK calls : calls = Payment!Sent(c, kind)
  OBVIOUS
<1>7. calls = [paymentCall EXCEPT ![c] = x]
  BY <1>1, <1>6 DEF Payment!Sent
<1>8. c \notin Polls(paymentCall)
  BY NoCallIsCall DEF Polls
<1>9. /\ IsCalls(calls) /\ AllTrue(calls)
      /\ Polls(calls) \ {c} = Polls(paymentCall) \ {c}
      /\ c \in Polls(calls) <=> kind = "poll"
  BY <1>3, <1>4, <1>5, <1>7, CallsPut
<1> QED
  BY <1>6, <1>8, <1>9

LEMMA CallsDropped ==
    ASSUME NEW calls, IsCalls(calls), AllTrue(calls)
    PROVE  /\ IsCalls(Payment!Dropped(calls)) /\ AllTrue(Payment!Dropped(calls))
           /\ Polls(Payment!Dropped(calls)) = {}
<1>1. PICK f : f = Payment!Dropped(calls)
  OBVIOUS
<1>2. f = [d \in PaymentCalls |-> f[d]]
  BY <1>1 DEF Payment!Dropped
<1>3. ASSUME NEW d \in PaymentCalls
      PROVE  /\ f[d] = [kind |-> f[d].kind, pc |-> f[d].pc, cancelled |-> f[d].cancelled,
                        reply |-> f[d].reply]
             /\ f[d].cancelled \in BOOLEAN /\ f[d].reply = calls[d].reply
             /\ f[d].kind = calls[d].kind /\ (f[d].kind = "poll" => f[d].cancelled)
  <2>1. PICK y : y = [calls[d] EXCEPT !.cancelled = TRUE]
    OBVIOUS
  <2>2. PICK z : z = calls[d]
    OBVIOUS
  <2>3. /\ z = [kind |-> z.kind, pc |-> z.pc, cancelled |-> z.cancelled, reply |-> z.reply]
        /\ z.cancelled \in BOOLEAN
    BY <2>2 DEF IsCalls
  <2>4. y = [z EXCEPT !.cancelled = TRUE]
    BY <2>1, <2>2
  <2>5. y = [kind |-> z.kind, pc |-> z.pc, cancelled |-> TRUE, reply |-> z.reply]
    BY <2>3, <2>4
  <2>6. f[d] = IF z.kind = "poll" THEN y ELSE z
    BY <1>1, <2>1, <2>2 DEF Payment!Dropped
  <2>7. CASE z.kind = "poll"
    <3>1. f[d] = [kind |-> z.kind, pc |-> z.pc, cancelled |-> TRUE, reply |-> z.reply]
      BY <2>5, <2>6, <2>7
    <3>2. f[d].cancelled = TRUE /\ f[d].kind = z.kind /\ f[d].pc = z.pc /\ f[d].reply = z.reply
      BY <3>1
    <3> QED
      BY <2>2, <3>1, <3>2
  <2>8. CASE z.kind # "poll"
    BY <2>2, <2>3, <2>6, <2>8
  <2> QED
    BY <2>7, <2>8
<1>4. IsCalls(f) /\ AllTrue(f)
  BY <1>2, <1>3 DEF IsCalls, AllTrue
<1>5. Polls(f) = {}
  BY <1>3 DEF Polls
<1> QED
  BY <1>1, <1>4, <1>5

(* setScreen keeps the chain and the screen together. *)
LEMMA ShowAgrees ==
    ASSUME ScreenInv, NEW new, NEW calls, NEW polls, IsCalls(calls), AllTrue(calls),
           Payment!Show(new, calls, polls), UNCHANGED <<server, mounted, settled>>,
           new = "success" => settled, Polls(calls) \subseteq Polls(paymentCall),
           mounted /\ screen = "pending" /\ new = "pending" =>
               polls = poller /\ Polls(calls) = Polls(paymentCall)
    PROVE  ScreenInv'
<1>1. PICK f : f = paymentCall'
  OBVIOUS
<1>2. IsCalls(f) /\ AllTrue(f) /\ (new # "pending" => Polls(f) = {})
                 /\ (new = "pending" => f = calls)
  BY <1>1, CallsDropped DEF Payment!Show
<1>3. PICK chain : chain = poller'
  OBVIOUS
<1>4. mounted => Agree(new, chain, f)
  <2> SUFFICES ASSUME mounted PROVE Agree(new, chain, f)
    OBVIOUS
  <2>1. chain = IF new # "pending" THEN "off" ELSE IF screen # "pending" THEN "timer" ELSE polls
    BY <1>3 DEF Payment!Show
  <2>2. Agree(screen, poller, paymentCall)
    BY DEF ScreenInv
  <2> QED
    BY <1>2, <2>1, <2>2 DEF Agree
<1>5. screen' = new
  BY DEF Payment!Show
<1>6. IsCalls(paymentCall)' /\ AllTrue(paymentCall)'
  BY <1>1, <1>2 DEF IsCalls, AllTrue
<1>7. mounted' => Agree(screen, poller, paymentCall)'
  BY <1>1, <1>3, <1>4, <1>5 DEF Agree, Polls
<1> QED
  BY <1>5, <1>6, <1>7 DEF ScreenInv

LEMMA ScreenInit ==
    ASSUME Payment!Init
    PROVE  ScreenInv
<1>1. PICK c \in PaymentCalls : paymentCall = [d \in PaymentCalls |->
          IF d = c THEN [Payment!NoCall EXCEPT !.kind = "load", !.pc = "sent"]
          ELSE Payment!NoCall]
  BY DEF Payment!Init
<1>2. PICK x : x = [Payment!NoCall EXCEPT !.kind = "load", !.pc = "sent"]
  OBVIOUS
<1>3. x = [kind |-> "load", pc |-> "sent", cancelled |-> FALSE, reply |-> Payment!NoReply]
  BY <1>2 DEF Payment!NoCall
<1>4. paymentCall = [d \in PaymentCalls |-> IF d = c THEN x ELSE Payment!NoCall]
  BY <1>1, <1>2
<1>5. \A d \in PaymentCalls : paymentCall[d] = x \/ paymentCall[d] = Payment!NoCall
  BY <1>4
<1>6. /\ x = [kind |-> x.kind, pc |-> x.pc, cancelled |-> x.cancelled, reply |-> x.reply]
      /\ x.cancelled \in BOOLEAN /\ x.reply = Payment!NoReply /\ x.kind = "load"
  BY <1>3
<1>7. PICK z : z = Payment!NoCall
  OBVIOUS
<1>8. /\ z = [kind |-> z.kind, pc |-> z.pc, cancelled |-> z.cancelled, reply |-> z.reply]
      /\ z.cancelled \in BOOLEAN /\ z.reply = Payment!NoReply /\ z.kind = "none"
  BY <1>7 DEF Payment!NoCall
<1>9. paymentCall = [d \in PaymentCalls |-> paymentCall[d]]
  BY <1>4
<1>10. IsCalls(paymentCall) /\ AllTrue(paymentCall)
  BY <1>5, <1>6, <1>7, <1>8, <1>9, NoCallIsCall DEF IsCalls, AllTrue
<1>11. Polls(paymentCall) = {}
  BY <1>5, <1>6, <1>7, <1>8 DEF Polls
<1>12. server \in Payment!Told /\ ~ Happy(server) /\ screen = "loading" /\ poller = "off"
  BY DEF Payment!Init, Payment!Told, Happy
<1> QED
  BY <1>10, <1>11, <1>12 DEF ScreenInv, Agree

LEMMA ScreenServer ==
    ASSUME ScreenInv, Payment!AttemptSettles \/ Payment!OrderMoves
    PROVE  ScreenInv'
<1>1. PICK s : s = server'
  OBVIOUS
<1>2. UNCHANGED <<paymentCall, screen, poller, mounted>>
  BY DEF Payment!AttemptSettles, Payment!OrderMoves, Payment!client
<1>3. /\ server = [pay |-> server.pay, order |-> server.order]
      /\ server.pay \in {"none", "pending", "successful", "failed"}
      /\ server.order \in {"pending_payment", "payment_failed", "paid", "over"}
  BY DEF ScreenInv, Payment!Told
<1>4. s \in Payment!Told /\ (settled => settled') /\ (Happy(s) => settled')
  <2>1. CASE Payment!AttemptSettles
    <3>1. PICK pay \in {"successful", "failed"} : s = [server EXCEPT !.pay = pay]
      BY <1>1, <2>1 DEF Payment!AttemptSettles
    <3>2. s = [pay |-> pay, order |-> server.order]
      BY <1>3, <3>1
    <3>3. settled' = (settled \/ s.pay = "successful")
      BY <1>1, <2>1 DEF Payment!AttemptSettles
    <3> QED
      BY <1>3, <3>2, <3>3 DEF Payment!Told, Happy, ScreenInv
  <2>2. CASE Payment!OrderMoves
    <3>1. PICK order \in {"paid", "payment_failed", "over"} :
             s = [server EXCEPT !.order = order]
      BY <1>1, <2>2 DEF Payment!OrderMoves
    <3>2. s = [pay |-> server.pay, order |-> order]
      BY <1>3, <3>1
    <3>3. settled' = (settled \/ s.order = "paid")
      BY <1>1, <2>2 DEF Payment!OrderMoves
    <3> QED
      BY <1>3, <3>2, <3>3 DEF Payment!Told, Happy, ScreenInv
  <2> QED
    BY <2>1, <2>2
<1>5. IsCalls(paymentCall)' /\ AllTrue(paymentCall)'
  BY <1>2, <1>4 DEF ScreenInv, IsCalls, AllTrue
<1>6. (mounted => Agree(screen, poller, paymentCall) /\ (screen = "success" => settled))'
  BY <1>2, <1>4 DEF ScreenInv, Agree, Polls
<1> QED
  BY <1>1, <1>4, <1>5, <1>6 DEF ScreenInv

(* A call gets on, or is answered: it stays what it is, and is told the truth. *)
LEMMA ScreenAnswers ==
    ASSUME ScreenInv, NEW c \in PaymentCalls, Payment!Initiate(c) \/ Payment!Respond(c)
    PROVE  ScreenInv'
<1>1. PICK y : y = paymentCall[c]
  OBVIOUS
<1>2. /\ y = [kind |-> y.kind, pc |-> y.pc, cancelled |-> y.cancelled, reply |-> y.reply]
      /\ y.cancelled \in BOOLEAN /\ y.reply \in Payment!Told /\ (Happy(y.reply) => settled)
      /\ (c \in Polls(paymentCall) <=> y.kind = "poll" /\ ~ y.cancelled)
  BY <1>1 DEF ScreenInv, IsCalls, AllTrue, Polls
<1>3. UNCHANGED <<screen, poller, mounted, settled>>
  BY DEF Payment!Initiate, Payment!Respond
<1>4. server' \in Payment!Told /\ (Happy(server') => settled)
  BY DEF Payment!Initiate, Payment!Respond, Payment!Told, Happy, ScreenInv
<1>5. PICK pc, reply : /\ reply \in Payment!Told /\ (Happy(reply) => settled)
                       /\ paymentCall' = [paymentCall EXCEPT ![c] =
                              [kind |-> y.kind, pc |-> pc, cancelled |-> y.cancelled,
                               reply |-> reply]]
  <2>1. CASE Payment!Initiate(c)
    <3>1. paymentCall' = [paymentCall EXCEPT ![c].pc = "created", ![c].reply = server']
      BY <2>1 DEF Payment!Initiate
    <3>2. PICK x : x = [y EXCEPT !.pc = "created", !.reply = server']
      OBVIOUS
    <3>3. x = [kind |-> y.kind, pc |-> "created", cancelled |-> y.cancelled, reply |-> server']
      BY <1>2, <3>2
    <3>4. paymentCall' = [paymentCall EXCEPT ![c] = x]
      BY <1>1, <3>1, <3>2 DEF ScreenInv, IsCalls
    <3> QED
      BY <1>4, <3>3, <3>4
  <2>2. CASE paymentCall' = [paymentCall EXCEPT ![c].pc = "reply", ![c].reply = server]
    <3>2. PICK x : x = [y EXCEPT !.pc = "reply", !.reply = server]
      OBVIOUS
    <3>3. x = [kind |-> y.kind, pc |-> "reply", cancelled |-> y.cancelled, reply |-> server]
      BY <1>2, <3>2
    <3>4. paymentCall' = [paymentCall EXCEPT ![c] = x]
      BY <1>1, <2>2, <3>2 DEF ScreenInv, IsCalls
    <3> QED
      BY <3>3, <3>4 DEF ScreenInv
  <2>3. CASE paymentCall' = [paymentCall EXCEPT ![c].pc = "reply",
                                                ![c].reply.order = server.order]
    <3>1. PICK reply : reply = [y.reply EXCEPT !.order = server.order]
      OBVIOUS
    <3>2. reply = [pay |-> y.reply.pay, order |-> server.order]
      BY <1>2, <3>1 DEF Payment!Told
    <3>3. reply \in Payment!Told /\ (Happy(reply) => settled)
      BY <1>2, <3>2 DEF Payment!Told, Happy, ScreenInv
    <3>4. PICK x : x = [y EXCEPT !.pc = "reply", !.reply = reply]
      OBVIOUS
    <3>5. x = [kind |-> y.kind, pc |-> "reply", cancelled |-> y.cancelled, reply |-> reply]
      BY <1>2, <3>4
    <3>6. paymentCall' = [paymentCall EXCEPT ![c] = x]
      BY <1>1, <2>3, <3>1, <3>4 DEF ScreenInv, IsCalls
    <3> QED
      BY <3>3, <3>5, <3>6
  <2> QED
    BY <2>1, <2>2, <2>3 DEF Payment!Respond
<1>6. PICK x : x = [kind |-> y.kind, pc |-> pc, cancelled |-> y.cancelled, reply |-> reply]
  OBVIOUS
<1>7. /\ x = [kind |-> x.kind, pc |-> x.pc, cancelled |-> x.cancelled, reply |-> x.reply]
      /\ x.cancelled = y.cancelled /\ x.reply = reply /\ x.kind = y.kind
  BY <1>6
<1>8. PICK calls : calls = paymentCall'
  OBVIOUS
<1>9. calls = [paymentCall EXCEPT ![c] = x]
  BY <1>5, <1>6, <1>8
<1>10. IsCalls(paymentCall) /\ AllTrue(paymentCall)
  BY DEF ScreenInv
<1>11. x.cancelled \in BOOLEAN /\ x.reply \in Payment!Told /\ (Happy(x.reply) => settled)
  BY <1>2, <1>5, <1>7
<1>12. /\ IsCalls(calls) /\ AllTrue(calls)
       /\ Polls(calls) \ {c} = Polls(paymentCall) \ {c}
       /\ c \in Polls(calls) <=> x.kind = "poll" /\ ~ x.cancelled
  BY <1>7, <1>9, <1>10, <1>11, CallsPut
<1>13. c \in Polls(calls) <=> c \in Polls(paymentCall)
  BY <1>2, <1>7, <1>12
<1>14. Polls(calls) = Polls(paymentCall)
  BY <1>12, <1>13
<1>15. mounted => Agree(screen, poller, calls)
  BY <1>14 DEF ScreenInv, Agree
<1>16. IsCalls(paymentCall)' /\ AllTrue(paymentCall)' /\ Polls(paymentCall)' = Polls(calls)
  BY <1>3, <1>8, <1>12 DEF IsCalls, AllTrue, Polls
<1> QED
  BY <1>3, <1>4, <1>15, <1>16 DEF ScreenInv, Agree

(* Once the screen is gone nothing is claimed of it. *)
LEMMA ScreenLeaves ==
    ASSUME ScreenInv, Payment!Leave \/ Payment!GoBack
    PROVE  ScreenInv'
<1>1. mounted' = FALSE /\ UNCHANGED <<server, settled>>
  BY DEF Payment!Leave, Payment!GoBack
<1>2. PICK calls : calls = paymentCall'
  OBVIOUS
<1>3. IsCalls(calls) /\ AllTrue(calls)
  <2>1. CASE Payment!GoBack
    BY <1>2, <2>1, CallsDropped DEF Payment!GoBack, ScreenInv
  <2>2. CASE Payment!Leave
    <3>1. calls = [d \in PaymentCalls |-> IF paymentCall[d].kind \in {"poll", "load"}
                                          THEN [paymentCall[d] EXCEPT !.cancelled = TRUE]
                                          ELSE paymentCall[d]]
      BY <1>2, <2>2 DEF Payment!Leave
    <3>2. ASSUME NEW d \in PaymentCalls
          PROVE  /\ calls[d] = [kind |-> calls[d].kind, pc |-> calls[d].pc,
                                cancelled |-> calls[d].cancelled, reply |-> calls[d].reply]
                 /\ calls[d].cancelled \in BOOLEAN
                 /\ calls[d].reply = paymentCall[d].reply
      <4>1. PICK z : z = paymentCall[d]
        OBVIOUS
      <4>2. /\ z = [kind |-> z.kind, pc |-> z.pc, cancelled |-> z.cancelled,
                    reply |-> z.reply]
            /\ z.cancelled \in BOOLEAN
        BY <4>1 DEF ScreenInv, IsCalls
      <4>3. PICK y : y = [z EXCEPT !.cancelled = TRUE]
        OBVIOUS
      <4>4. y = [kind |-> z.kind, pc |-> z.pc, cancelled |-> TRUE, reply |-> z.reply]
        BY <4>2, <4>3
      <4>5. calls[d] = y \/ calls[d] = z
        BY <3>1, <4>1, <4>3
      <4>6. /\ y = [kind |-> y.kind, pc |-> y.pc, cancelled |-> y.cancelled,
                    reply |-> y.reply]
            /\ y.cancelled = TRUE /\ y.reply = z.reply
        BY <4>4
      <4> QED
        BY <4>1, <4>2, <4>5, <4>6
    <3>3. calls = [d \in PaymentCalls |-> calls[d]]
      BY <3>1
    <3> QED
      BY <3>2, <3>3 DEF IsCalls, AllTrue, ScreenInv
  <2> QED
    BY <2>1, <2>2
<1>4. IsCalls(paymentCall)' /\ AllTrue(paymentCall)'
  BY <1>1, <1>2, <1>3 DEF IsCalls, AllTrue
<1> QED
  BY <1>1, <1>4 DEF ScreenInv

(* The user asks for something, or tries again. *)
LEMMA ScreenAsks ==
    ASSUME ScreenInv, NEW c \in PaymentCalls,
           Payment!HandleStart(c) \/ Payment!HandleResend(c) \/ Payment!HandleVerify(c)
    PROVE  ScreenInv'
<1>1. PICK kind \in {"start", "resend", "verify"} :
         /\ kind = "start" => Payment!Show("starting", Payment!Sent(c, kind), poller)
         /\ kind # "start" => paymentCall' = Payment!Sent(c, kind) /\ UNCHANGED <<screen, poller>>
  BY DEF Payment!HandleStart, Payment!HandleResend, Payment!HandleVerify
<1>2. UNCHANGED <<server, mounted, settled>> /\ paymentCall[c] = Payment!NoCall
  BY DEF Payment!HandleStart, Payment!HandleResend, Payment!HandleVerify, Payment!Send
<1>3. PICK calls : calls = Payment!Sent(c, kind)
  OBVIOUS
<1>4. IsCalls(calls) /\ AllTrue(calls) /\ Polls(calls) = Polls(paymentCall)
  BY <1>2, <1>3, CallsSent DEF ScreenInv
<1>5. CASE kind = "start"
  BY <1>1, <1>2, <1>3, <1>4, <1>5, ShowAgrees
<1>6. CASE kind # "start"
  <2>1. paymentCall' = calls /\ UNCHANGED <<screen, poller>>
    BY <1>1, <1>3, <1>6
  <2>2. IsCalls(paymentCall)' /\ AllTrue(paymentCall)' /\ Polls(paymentCall)' = Polls(calls)
    BY <1>2, <1>4, <2>1 DEF IsCalls, AllTrue, Polls
  <2> QED
    BY <1>2, <1>4, <2>1, <2>2 DEF ScreenInv, Agree
<1> QED
  BY <1>5, <1>6

LEMMA ScreenRetries ==
    ASSUME ScreenInv, Payment!HandleRetry
    PROVE  ScreenInv'
<1>1. /\ Payment!Show("idle", paymentCall, poller)
      /\ UNCHANGED <<server, mounted, settled>>
  BY DEF Payment!HandleRetry
<1> QED
  BY <1>1, ShowAgrees DEF ScreenInv

(* The timer runs out: of the chain the call is sent. *)
LEMMA ScreenPolls ==
    ASSUME ScreenInv, NEW c \in PaymentCalls, Payment!Poll(c)
    PROVE  ScreenInv'
<1>1. /\ poller = "timer" /\ poller' = "asked" /\ paymentCall[c] = Payment!NoCall
      /\ paymentCall' = Payment!Sent(c, "poll") /\ mounted
      /\ UNCHANGED <<screen, server, mounted, settled>>
  BY DEF Payment!Poll, Payment!Send
<1>2. PICK calls : calls = Payment!Sent(c, "poll")
  OBVIOUS
<1>3. IsCalls(calls) /\ AllTrue(calls) /\ Polls(calls) = Polls(paymentCall) \cup {c}
  BY <1>1, <1>2, CallsSent DEF ScreenInv
<1>4. Polls(paymentCall) = {} /\ screen = "pending"
  BY <1>1 DEF ScreenInv, Agree
<1>5. Agree(screen, "asked", calls)
  BY <1>3, <1>4 DEF Agree
<1>6. IsCalls(paymentCall)' /\ AllTrue(paymentCall)' /\ Polls(paymentCall)' = Polls(calls)
  BY <1>1, <1>2, <1>3 DEF IsCalls, AllTrue, Polls
<1> QED
  BY <1>1, <1>4, <1>5, <1>6 DEF ScreenInv, Agree

(* A call ends and the screen stays; a poll sets the timer again. *)
LEMMA CallEnds ==
    ASSUME ScreenInv, NEW c \in PaymentCalls, paymentCall' = Payment!Without(c),
           UNCHANGED <<screen, server, mounted, settled>>,
           poller' = IF c \in Polls(paymentCall) THEN "timer" ELSE poller
    PROVE  ScreenInv'
<1>1. PICK calls : calls = Payment!Without(c)
  OBVIOUS
<1>2. IsCalls(calls) /\ AllTrue(calls) /\ Polls(calls) = Polls(paymentCall) \ {c}
  BY <1>1, CallsWithout DEF ScreenInv
<1>3. PICK chain : chain = poller'
  OBVIOUS
<1>4. mounted => Agree(screen, chain, calls)
  BY <1>2, <1>3 DEF ScreenInv, Agree
<1>5. IsCalls(paymentCall)' /\ AllTrue(paymentCall)' /\ Polls(paymentCall)' = Polls(calls)
  BY <1>1, <1>2 DEF IsCalls, AllTrue, Polls
<1> QED
  BY <1>3, <1>4, <1>5 DEF ScreenInv, Agree

LEMMA ScreenReplies ==
    ASSUME ScreenInv, NEW c \in PaymentCalls, Payment!Reply(c)
    PROVE  ScreenInv'
<1>1. UNCHANGED <<server, mounted, settled>>
  BY DEF Payment!Reply
<1>2. c \in Polls(paymentCall) <=> paymentCall[c].kind = "poll" /\ ~ paymentCall[c].cancelled
  BY DEF Polls
<1>3. CASE paymentCall[c].cancelled
  BY <1>1, <1>2, <1>3, CallEnds DEF Payment!Reply
<1>4. CASE /\ ~ paymentCall[c].cancelled /\ paymentCall[c].kind = "poll"
           /\ Payment!Outcome(paymentCall[c].reply) \notin {"success", "failed"}
  BY <1>1, <1>2, <1>4, CallEnds DEF Payment!Reply
<1>5. CASE /\ ~ paymentCall[c].cancelled
           /\ paymentCall[c].kind = "poll" =>
                  Payment!Outcome(paymentCall[c].reply) \in {"success", "failed"}
  <2>1. PICK new : new = Payment!Outcome(paymentCall[c].reply)
    OBVIOUS
  <2>2. PICK calls : calls = Payment!Without(c)
    OBVIOUS
  <2>3. Payment!Show(new, calls, poller)
    BY <1>5, <2>1, <2>2 DEF Payment!Reply, Payment!ApplyState
  <2>4. IsCalls(calls) /\ AllTrue(calls) /\ Polls(calls) = Polls(paymentCall) \ {c}
    BY <2>2, CallsWithout DEF ScreenInv
  <2>5. new = "success" => settled
    BY <2>1 DEF Payment!Outcome, ScreenInv, AllTrue, Happy, IsCalls, Payment!Told
  <2>6. new = "pending" => Polls(calls) = Polls(paymentCall)
    BY <1>2, <1>5, <2>1, <2>4
  <2> QED
    BY <1>1, <2>3, <2>4, <2>5, <2>6, ShowAgrees
<1> QED
  BY <1>3, <1>4, <1>5

LEMMA ScreenFails ==
    ASSUME ScreenInv, NEW c \in PaymentCalls, Payment!Fail(c)
    PROVE  ScreenInv'
<1>1. UNCHANGED <<server, mounted, settled>>
  BY DEF Payment!Fail
<1>2. c \in Polls(paymentCall) <=> paymentCall[c].kind = "poll" /\ ~ paymentCall[c].cancelled
  BY DEF Polls
<1>3. CASE paymentCall[c].kind \in {"load", "start"} /\ ~ paymentCall[c].cancelled
  <2>1. PICK calls : calls = Payment!Without(c)
    OBVIOUS
  <2>2. Payment!Show("idle", calls, poller)
    BY <1>3, <2>1 DEF Payment!Fail
  <2>3. IsCalls(calls) /\ AllTrue(calls) /\ Polls(calls) = Polls(paymentCall) \ {c}
    BY <2>1, CallsWithout DEF ScreenInv
  <2> QED
    BY <1>1, <2>2, <2>3, ShowAgrees
<1>4. CASE ~ (paymentCall[c].kind \in {"load", "start"} /\ ~ paymentCall[c].cancelled)
  BY <1>1, <1>2, <1>4, CallEnds DEF Payment!Fail
<1> QED
  BY <1>3, <1>4

LEMMA ScreenNext ==
    ASSUME ScreenInv, [Payment!Next]_(Payment!vars)
    PROVE  ScreenInv'
<1>1. CASE Payment!AttemptSettles \/ Payment!OrderMoves
  BY <1>1, ScreenServer
<1>2. CASE Payment!HandleRetry
  BY <1>2, ScreenRetries
<1>3. CASE Payment!Leave \/ Payment!GoBack
  BY <1>3, ScreenLeaves
<1>4. ASSUME NEW c \in PaymentCalls,
             \/ Payment!Initiate(c) \/ Payment!Respond(c) \/ Payment!Reply(c)
             \/ Payment!Fail(c) \/ Payment!HandleStart(c) \/ Payment!HandleResend(c)
             \/ Payment!HandleVerify(c) \/ Payment!Poll(c)
      PROVE  ScreenInv'
  BY <1>4, ScreenAnswers, ScreenReplies, ScreenFails, ScreenAsks, ScreenPolls
<1>5. CASE UNCHANGED Payment!vars
  BY <1>5 DEF Payment!vars, ScreenInv, IsCalls, AllTrue, Polls, Agree
<1> QED
  BY <1>1, <1>2, <1>3, <1>4, <1>5 DEF Payment!Next

(* However calls and replies of the payment screen overlap, whatever is    *)
(* lost, and wherever the user goes: while the screen shows a pending      *)
(* payment there is one chain of polls that keeps asking, when it shows    *)
(* anything else there is none, and a screen that shows success was told   *)
(* of one.                                                                 *)
THEOREM WaitIsPolled == Payment!Spec => []PendingIsPolled
<1>1. Payment!Init => ScreenInv
  BY ScreenInit
<1>2. ScreenInv /\ [Payment!Next]_(Payment!vars) => ScreenInv'
  BY ScreenNext
<1>3. ScreenInv => PendingIsPolled
  BY DEF ScreenInv, Agree, Polls, PendingIsPolled, Payment!PendingIsPolled, Payment!Polling
<1> QED
  BY <1>1, <1>2, <1>3, PTL DEF Payment!Spec

-----------------------------------------------------------------------------
(***************************************************************************)
(* Favorites: of a product that is not in doubt at most one tap is under   *)
(* way, it is of whoever is signed in, and the heart and the row stand as  *)
(* the tap left them; and while the set is loading no such product is      *)
(* tapped.                                                                 *)
(***************************************************************************)
IsHeartCall(x) ==
    /\ x = [kind |-> x.kind, pc |-> x.pc, of |-> x.of, on |-> x.on,
            cancelled |-> x.cancelled]
    /\ x.cancelled \in BOOLEAN
    /\ x.kind \in {"add", "remove"} => x.pc \in {"sent", "done", "failed"}

AreHeartCalls(calls) == /\ calls = [c \in HttpCalls |-> calls[c]]
                        /\ \A c \in HttpCalls : IsHeartCall(calls[c])

Taps(x, p) == x.kind \in {"add", "remove"} /\ p \in x.on
Loads(x)   == x.kind = "load" /\ ~ x.cancelled

TapStands(x, user, rows, filled, p) ==
    /\ x.pc = "sent" => x.of = user
    /\ p \in filled <=> x.kind = "add"
    /\ p \in rows <=> (x.kind = "add" <=> x.pc = "done")

HeartStands(calls, user, rows, filled, p) ==
    /\ \A c, d \in HttpCalls : Taps(calls[c], p) /\ Taps(calls[d], p) => c = d
    /\ \A c, d \in HttpCalls : ~ (Loads(calls[c]) /\ Taps(calls[d], p))
    /\ \A c \in HttpCalls : Loads(calls[c]) /\ calls[c].pc = "done" =>
                                (p \in calls[c].on <=> p \in rows)
    /\ \/ \E c \in HttpCalls : Loads(calls[c])
       \/ /\ \A c \in HttpCalls : Taps(calls[c], p) => TapStands(calls[c], user, rows, filled, p)
          /\ \/ \E c \in HttpCalls : Taps(calls[c], p)
             \/ p \in filled <=> p \in rows

OneLoad(calls, user) ==
    /\ \A c, d \in HttpCalls : Loads(calls[c]) /\ Loads(calls[d]) => c = d
    /\ \A c \in HttpCalls : Loads(calls[c]) =>
           user # Nobody /\ (calls[c].pc = "sent" => calls[c].of = user)

HeartInv == /\ AreHeartCalls(heartCall) /\ OneLoad(heartCall, account)
            /\ account \in Users \cup {Nobody}
            /\ saved = [u \in Users |-> saved[u]]
            /\ account # Nobody => \A p \in Products \ doubt :
                   HeartStands(heartCall, account, saved[account], hearts, p)

(* Of one product in the next state, in terms of constants. *)
LEMMA HeartFrame ==
    ASSUME HeartInv, NEW calls, NEW user, NEW rows, NEW filled, NEW unsure,
           calls = heartCall', user = account', rows = saved', filled = hearts',
           unsure = doubt', AreHeartCalls(calls), OneLoad(calls, user),
           user \in Users \cup {Nobody}, rows = [u \in Users |-> rows[u]],
           user # Nobody => \A p \in Products \ unsure :
                                HeartStands(calls, user, rows[user], filled, p)
    PROVE  HeartInv'
<1>1. AreHeartCalls(heartCall)'
  BY DEF AreHeartCalls, IsHeartCall
<1>2. OneLoad(heartCall, account)'
  BY DEF OneLoad, Loads
<1>3. (account # Nobody => \A p \in Products \ doubt :
           HeartStands(heartCall, account, saved[account], hearts, p))'
  BY DEF HeartStands, TapStands, Taps, Loads
<1> QED
  BY <1>1, <1>2, <1>3 DEF HeartInv

WithHeartCall(c, x) == [heartCall EXCEPT ![c] = x]

LEMMA HeartCallPut ==
    ASSUME AreHeartCalls(heartCall), NEW c \in HttpCalls, NEW x, IsHeartCall(x),
           NEW calls, calls = WithHeartCall(c, x)
    PROVE  /\ AreHeartCalls(calls) /\ calls[c] = x
           /\ \A d \in HttpCalls : d # c => calls[d] = heartCall[d]
<1>1. /\ calls = [d \in HttpCalls |-> calls[d]] /\ calls[c] = x
      /\ \A d \in HttpCalls : d # c => calls[d] = heartCall[d]
  BY Zenon DEF AreHeartCalls, WithHeartCall
<1> QED
  BY <1>1 DEF AreHeartCalls

LEMMA NoHeartCall ==
    /\ IsHeartCall(Heart!NoCall) /\ ~ Loads(Heart!NoCall)
    /\ \A p : ~ Taps(Heart!NoCall, p)
<1>1. PICK z : z = Heart!NoCall
  OBVIOUS
<1>2. z = [kind |-> "none", pc |-> "idle", of |-> Nobody, on |-> {}, cancelled |-> FALSE]
  BY <1>1 DEF Heart!NoCall
<1>3. /\ z.kind = "none" /\ z.pc = "idle" /\ z.of = Nobody /\ z.on = {}
      /\ z.cancelled = FALSE
  BY <1>2
<1>4. IsHeartCall(z)
  BY <1>2, <1>3 DEF IsHeartCall
<1> QED
  BY <1>1, <1>3, <1>4 DEF Loads, Taps

LEMMA HeartInit ==
    ASSUME Heart!Init
    PROVE  HeartInv
<1>1. PICK z : z = Heart!NoCall
  OBVIOUS
<1>2. heartCall = [c \in HttpCalls |-> z] /\ account = Nobody /\ saved = [u \in Users |-> {}]
  BY <1>1 DEF Heart!Init
<1>3. AreHeartCalls(heartCall) /\ OneLoad(heartCall, account)
  BY <1>1, <1>2, NoHeartCall DEF AreHeartCalls, OneLoad
<1>4. saved = [u \in Users |-> saved[u]]
  BY <1>2
<1> QED
  BY <1>2, <1>3, <1>4 DEF HeartInv

LEMMA HeartSignIn ==
    ASSUME HeartInv, NEW c \in HttpCalls, NEW u \in Users, Heart!SignIn(c, u)
    PROVE  HeartInv'
<1>1. PICK x : x = [kind |-> "load", pc |-> "sent", of |-> u, on |-> {}, cancelled |-> FALSE]
  OBVIOUS
<1>2. /\ x.kind = "load" /\ x.pc = "sent" /\ x.of = u /\ x.on = {} /\ x.cancelled = FALSE
      /\ IsHeartCall(x)
  BY <1>1 DEF IsHeartCall
<1>3. PICK calls, unsure : calls = heartCall' /\ unsure = doubt'
  OBVIOUS
<1>4. /\ calls = [heartCall EXCEPT ![c] = x] /\ account = Nobody /\ account' = u
      /\ unsure = Heart!Toggled /\ UNCHANGED <<saved, hearts>> /\ heartCall[c] = Heart!NoCall
  BY <1>1, <1>3 DEF Heart!SignIn, Heart!Send
<1>5. /\ AreHeartCalls(calls) /\ calls[c] = x
      /\ \A d \in HttpCalls : d # c => calls[d] = heartCall[d]
  <2>1. AreHeartCalls(heartCall)
    BY DEF HeartInv
  <2>2. IsHeartCall(x) /\ calls = WithHeartCall(c, x)
    BY <1>2, <1>4 DEF WithHeartCall
  <2> QED
    BY <2>1, <2>2, HeartCallPut
<1>6. \A d \in HttpCalls : ~ Loads(heartCall[d])
  BY <1>4 DEF HeartInv, OneLoad
<1>7. Nobody # u
  BY ScreensAssumption
<1>8. OneLoad(calls, u)
  BY <1>2, <1>5, <1>6, <1>7 DEF OneLoad, Loads
<1>9. ASSUME NEW p \in Products \ unsure
      PROVE  HeartStands(calls, u, saved[u], hearts, p)
  <2>1. \A d \in HttpCalls : ~ Taps(heartCall[d], p)
    BY <1>4 DEF Heart!Toggled, Taps
  <2>2. \A d \in HttpCalls : ~ Taps(calls[d], p)
    BY <1>2, <1>5, <2>1 DEF Taps
  <2>3. \A d \in HttpCalls : Loads(calls[d]) => d = c
    BY <1>5, <1>6
  <2>4. Loads(calls[c]) /\ calls[c].pc # "done"
    BY <1>2, <1>5 DEF Loads
  <2> QED
    BY <2>2, <2>3, <2>4 DEF HeartStands
<1> QED
  BY <1>3, <1>4, <1>5, <1>8, <1>9, HeartFrame DEF HeartInv

LEMMA HeartSignOut ==
    ASSUME HeartInv, Heart!SignOut
    PROVE  HeartInv'
<1>1. PICK calls : calls = heartCall'
  OBVIOUS
<1>2. /\ calls = [d \in HttpCalls |-> IF heartCall[d].kind = "load"
                                      THEN [heartCall[d] EXCEPT !.cancelled = TRUE]
                                      ELSE heartCall[d]]
      /\ account' = Nobody /\ UNCHANGED <<saved, doubt>>
  BY <1>1 DEF Heart!SignOut
<1>3. ASSUME NEW d \in HttpCalls
      PROVE  IsHeartCall(calls[d]) /\ ~ Loads(calls[d])
  <2>1. PICK y : y = heartCall[d]
    OBVIOUS
  <2>2. IsHeartCall(y)
    BY <2>1 DEF HeartInv, AreHeartCalls
  <2>3. PICK x : x = [y EXCEPT !.cancelled = TRUE]
    OBVIOUS
  <2>4. x = [kind |-> y.kind, pc |-> y.pc, of |-> y.of, on |-> y.on, cancelled |-> TRUE]
    BY <2>2, <2>3 DEF IsHeartCall
  <2>5. /\ x.kind = y.kind /\ x.pc = y.pc /\ x.of = y.of /\ x.on = y.on
        /\ x.cancelled = TRUE
    BY <2>4
  <2>6. IsHeartCall(x) /\ ~ Loads(x)
    BY <2>2, <2>4, <2>5 DEF IsHeartCall, Loads
  <2>7. calls[d] = IF y.kind = "load" THEN x ELSE y
    BY <1>2, <2>1, <2>3
  <2> QED
    BY <2>2, <2>6, <2>7 DEF Loads
<1>4. calls = [d \in HttpCalls |-> calls[d]]
  BY <1>2
<1> QED
  BY <1>1, <1>2, <1>3, <1>4, HeartFrame DEF HeartInv, AreHeartCalls, OneLoad

LEMMA HeartToggle ==
    ASSUME HeartInv, NEW c \in HttpCalls, NEW q \in Products, Heart!ToggleFavorite(c, q)
    PROVE  HeartInv'
<1>1. PICK kind, filled : /\ kind = IF q \in hearts THEN "remove" ELSE "add"
                          /\ filled = IF q \in hearts THEN hearts \ {q} ELSE hearts \cup {q}
  OBVIOUS
<1>2. PICK x : x = [kind |-> kind, pc |-> "sent", of |-> account, on |-> {q},
                    cancelled |-> FALSE]
  OBVIOUS
<1>3. /\ x.kind = kind /\ x.pc = "sent" /\ x.of = account /\ x.on = {q}
      /\ x.cancelled = FALSE /\ IsHeartCall(x)
  BY <1>2 DEF IsHeartCall
<1>4. PICK calls, unsure : calls = heartCall' /\ unsure = doubt'
  OBVIOUS
<1>5. /\ calls = [heartCall EXCEPT ![c] = x] /\ heartCall[c] = Heart!NoCall
      /\ filled = hearts' /\ account # Nobody /\ UNCHANGED <<account, saved>>
  BY <1>1, <1>2, <1>4 DEF Heart!ToggleFavorite, Heart!Send
<1>6. /\ AreHeartCalls(calls) /\ calls[c] = x
      /\ \A d \in HttpCalls : d # c => calls[d] = heartCall[d]
  <2>1. AreHeartCalls(heartCall)
    BY DEF HeartInv
  <2>2. IsHeartCall(x) /\ calls = WithHeartCall(c, x)
    BY <1>3, <1>5 DEF WithHeartCall
  <2> QED
    BY <2>1, <2>2, HeartCallPut
<1>7. \A d \in HttpCalls : Loads(calls[d]) => d # c /\ Loads(heartCall[d])
  BY <1>1, <1>3, <1>6 DEF Loads
<1>8. OneLoad(calls, account)
  BY <1>6, <1>7 DEF HeartInv, OneLoad
<1>9. ~ Loads(heartCall[c]) /\ \A p : ~ Taps(heartCall[c], p)
  BY <1>5, NoHeartCall
<1>10. \A d \in HttpCalls : Loads(heartCall[d]) => Loads(calls[d])
  BY <1>6, <1>9
<1>11. /\ doubt \subseteq unsure
       /\ q \in unsure \/ \A d \in HttpCalls : ~ Loads(heartCall[d]) /\ ~ Taps(heartCall[d], q)
  BY <1>4 DEF Heart!ToggleFavorite, Heart!Toggled, Heart!Loading, Loads, Taps
<1>12. ASSUME NEW p \in Products \ unsure
       PROVE  HeartStands(calls, account, saved[account], filled, p)
  <2>1. HeartStands(heartCall, account, saved[account], hearts, p)
    BY <1>5, <1>11 DEF HeartInv
  <2>2. CASE p # q
    <3>1. \A d \in HttpCalls : Taps(calls[d], p) <=> Taps(heartCall[d], p)
      BY <1>3, <1>6, <1>9, <2>2 DEF Taps
    <3>2. p \in filled <=> p \in hearts
      BY <1>1, <2>2
    <3> QED
      BY <1>6, <1>7, <1>9, <1>10, <2>1, <3>1, <3>2 DEF HeartStands, TapStands
  <2>3. CASE p = q
    <3>1. \A d \in HttpCalls : ~ Loads(calls[d])
      BY <1>7, <1>11, <2>3
    <3>2. \A d \in HttpCalls : Taps(calls[d], p) => d = c
      BY <1>6, <1>11, <2>3
    <3>3. p \in hearts <=> p \in saved[account]
      BY <1>11, <2>1, <2>3 DEF HeartStands
    <3>4. TapStands(calls[c], account, saved[account], filled, p)
      BY <1>1, <1>3, <1>6, <2>3, <3>3 DEF TapStands
    <3>5. Taps(calls[c], p)
      BY <1>1, <1>3, <1>6, <2>3 DEF Taps
    <3> QED
      BY <3>1, <3>2, <3>4, <3>5 DEF HeartStands
  <2> QED
    BY <2>2, <2>3
<1> QED
  BY <1>4, <1>5, <1>6, <1>8, <1>12, HeartFrame DEF HeartInv

HeartCallAt(c, pc) == [heartCall EXCEPT ![c].pc = pc, ![c].of = Nobody]
HeartCallWith(c, pc, on) == [heartCall EXCEPT ![c].pc = pc, ![c].of = Nobody, ![c].on = on]

(* A call that moves on keeps its kind and stays cancelled if it was.      *)
LEMMA HeartCallMoves ==
    ASSUME HeartInv, NEW c \in HttpCalls, NEW pc \in {"sent", "done", "failed"}, NEW on,
           \/ heartCall' = HeartCallWith(c, pc, on)
           \/ heartCall' = HeartCallAt(c, pc) /\ on = heartCall[c].on
    PROVE  \E x : /\ IsHeartCall(x) /\ heartCall' = WithHeartCall(c, x)
                  /\ x.kind = heartCall[c].kind /\ x.cancelled = heartCall[c].cancelled
                  /\ x.pc = pc /\ x.of = Nobody /\ x.on = on
<1>1. PICK y : y = heartCall[c]
  OBVIOUS
<1>2. IsHeartCall(y)
  BY <1>1 DEF HeartInv, AreHeartCalls
<1>3. PICK x : x = [kind |-> y.kind, pc |-> pc, of |-> Nobody, on |-> on,
                    cancelled |-> y.cancelled]
  OBVIOUS
<1>4. /\ x.kind = y.kind /\ x.cancelled = y.cancelled /\ x.pc = pc /\ x.of = Nobody
      /\ x.on = on
  BY <1>3
<1>5. IsHeartCall(x)
  BY <1>2, <1>3, <1>4 DEF IsHeartCall
<1>6. heartCall' = [heartCall EXCEPT ![c] = x]
  <2>1. CASE heartCall' = HeartCallWith(c, pc, on)
    <3>1. PICK z : z = [y EXCEPT !.pc = pc, !.of = Nobody, !.on = on]
      OBVIOUS
    <3>2. z = [kind |-> y.kind, pc |-> pc, of |-> Nobody, on |-> on,
               cancelled |-> y.cancelled]
      BY <1>2, <3>1 DEF IsHeartCall
    <3> QED
      BY <1>1, <1>3, <2>1, <3>1, <3>2 DEF HeartInv, AreHeartCalls, HeartCallWith
  <2>2. CASE heartCall' = HeartCallAt(c, pc) /\ on = heartCall[c].on
    <3>1. PICK z : z = [y EXCEPT !.pc = pc, !.of = Nobody]
      OBVIOUS
    <3>2. z = [kind |-> y.kind, pc |-> pc, of |-> Nobody, on |-> y.on,
               cancelled |-> y.cancelled]
      BY <1>2, <3>1 DEF IsHeartCall
    <3> QED
      BY <1>1, <1>3, <2>2, <3>1, <3>2 DEF HeartInv, AreHeartCalls, HeartCallAt
  <2> QED
    BY <2>1, <2>2
<1> QED
  BY <1>1, <1>4, <1>5, <1>6 DEF WithHeartCall

(* What a call's moving on leaves of the other calls, of loads and of taps. *)
LEMMA HeartMoved ==
    ASSUME HeartInv, NEW c \in HttpCalls, NEW x, IsHeartCall(x), NEW calls,
           calls = WithHeartCall(c, x), x.of = Nobody, x.pc # "sent",
           x.kind = heartCall[c].kind, x.cancelled = heartCall[c].cancelled
    PROVE  /\ AreHeartCalls(calls) /\ calls[c] = x /\ OneLoad(calls, account)
           /\ \A d \in HttpCalls : d # c => calls[d] = heartCall[d]
           /\ \A d \in HttpCalls : Loads(calls[d]) <=> Loads(heartCall[d])
<1>1. AreHeartCalls(heartCall) /\ OneLoad(heartCall, account)
  BY DEF HeartInv
<1>2. /\ AreHeartCalls(calls) /\ calls[c] = x
      /\ \A d \in HttpCalls : d # c => calls[d] = heartCall[d]
  BY <1>1, HeartCallPut
<1>3. \A d \in HttpCalls : Loads(calls[d]) <=> Loads(heartCall[d])
  BY <1>2 DEF Loads
<1> QED
  BY <1>1, <1>2, <1>3 DEF OneLoad

LEMMA HeartLose ==
    ASSUME HeartInv, NEW c \in HttpCalls, Heart!Lose(c)
    PROVE  HeartInv'
<1>1. PICK x : /\ IsHeartCall(x) /\ heartCall' = WithHeartCall(c, x)
               /\ x.kind = heartCall[c].kind /\ x.cancelled = heartCall[c].cancelled
               /\ x.pc = "failed" /\ x.of = Nobody /\ x.on = heartCall[c].on
  <2>1. heartCall' = HeartCallAt(c, "failed")
    BY DEF Heart!Lose, HeartCallAt
  <2> QED
    BY <2>1, HeartCallMoves
<1>2. PICK calls, unsure : calls = heartCall' /\ unsure = doubt'
  OBVIOUS
<1>3. /\ AreHeartCalls(calls) /\ calls[c] = x /\ OneLoad(calls, account)
      /\ \A d \in HttpCalls : d # c => calls[d] = heartCall[d]
      /\ \A d \in HttpCalls : Loads(calls[d]) <=> Loads(heartCall[d])
  BY <1>1, <1>2, HeartMoved
<1>4. /\ UNCHANGED <<account, saved, hearts>> /\ heartCall[c].pc \in {"sent", "done"}
      /\ doubt \subseteq unsure
      /\ heartCall[c].pc = "done" => heartCall[c].on \subseteq unsure
  BY <1>2 DEF Heart!Lose
<1>5. ASSUME account # Nobody, NEW p \in Products \ unsure
      PROVE  HeartStands(calls, account, saved[account], hearts, p)
  <2>1. HeartStands(heartCall, account, saved[account], hearts, p)
    BY <1>4, <1>5 DEF HeartInv
  <2>2. \A d \in HttpCalls : Taps(calls[d], p) <=> Taps(heartCall[d], p)
    BY <1>1, <1>3 DEF Taps
  <2>3. Taps(heartCall[c], p) => heartCall[c].pc = "sent"
    BY <1>4 DEF Taps
  <2>4. TapStands(heartCall[c], account, saved[account], hearts, p) /\ heartCall[c].pc = "sent"
           => TapStands(calls[c], account, saved[account], hearts, p)
    BY <1>1, <1>3 DEF TapStands
  <2>5. \A d \in HttpCalls : Loads(calls[d]) /\ calls[d].pc = "done" =>
                                 (p \in calls[d].on <=> p \in saved[account])
    BY <1>1, <1>3, <2>1 DEF HeartStands
  <2> QED
    BY <1>3, <2>1, <2>2, <2>3, <2>4, <2>5 DEF HeartStands
<1> QED
  BY <1>2, <1>3, <1>4, <1>5, HeartFrame DEF HeartInv

LEMMA HeartGet ==
    ASSUME HeartInv, NEW c \in HttpCalls, Heart!Get(c)
    PROVE  HeartInv'
<1>1. PICK x : /\ IsHeartCall(x) /\ heartCall' = WithHeartCall(c, x)
               /\ x.kind = heartCall[c].kind /\ x.cancelled = heartCall[c].cancelled
               /\ x.pc = "done" /\ x.of = Nobody /\ x.on = saved[heartCall[c].of]
  <2>1. heartCall' = HeartCallWith(c, "done", saved[heartCall[c].of])
    BY DEF Heart!Get, HeartCallWith
  <2> QED
    BY <2>1, HeartCallMoves
<1>2. PICK calls : calls = heartCall'
  OBVIOUS
<1>3. /\ AreHeartCalls(calls) /\ calls[c] = x /\ OneLoad(calls, account)
      /\ \A d \in HttpCalls : d # c => calls[d] = heartCall[d]
      /\ \A d \in HttpCalls : Loads(calls[d]) <=> Loads(heartCall[d])
  BY <1>1, <1>2, HeartMoved
<1>4. /\ UNCHANGED <<account, saved, hearts, doubt>> /\ heartCall[c].pc = "sent"
      /\ heartCall[c].kind = "load"
  BY DEF Heart!Get
<1>5. ASSUME account # Nobody, NEW p \in Products \ doubt
      PROVE  HeartStands(calls, account, saved[account], hearts, p)
  <2>1. HeartStands(heartCall, account, saved[account], hearts, p)
    BY <1>5 DEF HeartInv
  <2>2. \A d \in HttpCalls : Taps(calls[d], p) <=> Taps(heartCall[d], p)
    BY <1>1, <1>3, <1>4 DEF Taps
  <2>3. ~ Taps(heartCall[c], p)
    BY <1>4 DEF Taps
  <2>4. Loads(calls[c]) => (p \in calls[c].on <=> p \in saved[account])
    BY <1>1, <1>3, <1>4 DEF HeartInv, OneLoad
  <2> QED
    BY <1>3, <2>1, <2>2, <2>3, <2>4 DEF HeartStands
<1> QED
  BY <1>2, <1>3, <1>4, <1>5, HeartFrame DEF HeartInv

(* A tap is served or refused; only its own product's row may change. *)
LEMMA HeartServes ==
    ASSUME HeartInv, NEW c \in HttpCalls, Heart!Post(c) \/ Heart!Delete(c)
    PROVE  HeartInv'
<1>1. PICK pc \in {"done", "failed"} :
         /\ heartCall' = HeartCallAt(c, pc)
         /\ pc = "failed" => UNCHANGED saved
         /\ pc = "done" =>
               saved' = [saved EXCEPT ![heartCall[c].of] =
                             IF heartCall[c].kind = "add" THEN @ \cup heartCall[c].on
                             ELSE @ \ heartCall[c].on]
  BY DEF Heart!Post, Heart!Delete, HeartCallAt
<1>2. /\ UNCHANGED <<account, hearts, doubt>> /\ heartCall[c].pc = "sent"
      /\ heartCall[c].kind \in {"add", "remove"}
  BY DEF Heart!Post, Heart!Delete
<1>3. PICK x : /\ IsHeartCall(x) /\ heartCall' = WithHeartCall(c, x)
               /\ x.kind = heartCall[c].kind /\ x.cancelled = heartCall[c].cancelled
               /\ x.pc = pc /\ x.of = Nobody /\ x.on = heartCall[c].on
  BY <1>1, HeartCallMoves
<1>4. PICK calls, rows : calls = heartCall' /\ rows = saved'
  OBVIOUS
<1>5. /\ AreHeartCalls(calls) /\ calls[c] = x /\ OneLoad(calls, account)
      /\ \A d \in HttpCalls : d # c => calls[d] = heartCall[d]
      /\ \A d \in HttpCalls : Loads(calls[d]) <=> Loads(heartCall[d])
  <2>1. x.pc # "sent" /\ calls = WithHeartCall(c, x)
    BY <1>3, <1>4
  <2> QED
    BY <1>3, <2>1, HeartMoved
<1>6. rows = [u \in Users |-> rows[u]]
  BY <1>1, <1>4 DEF HeartInv
<1>7. ASSUME account # Nobody, NEW p \in Products \ doubt
      PROVE  HeartStands(calls, account, rows[account], hearts, p)
  <2>1. HeartStands(heartCall, account, saved[account], hearts, p) /\ account \in Users
    BY <1>7 DEF HeartInv
  <2>2. \A d \in HttpCalls : Taps(calls[d], p) <=> Taps(heartCall[d], p)
    BY <1>3, <1>5 DEF Taps
  <2>3. ~ Loads(heartCall[c])
    BY <1>2 DEF Loads
  <2>4. CASE Taps(heartCall[c], p)
    <3>1. \A d \in HttpCalls : ~ Loads(heartCall[d])
      BY <2>1, <2>4 DEF HeartStands
    <3>2. TapStands(heartCall[c], account, saved[account], hearts, p)
      BY <2>1, <2>4, <3>1 DEF HeartStands
    <3>3. heartCall[c].of = account /\ p \in heartCall[c].on
      BY <1>2, <2>4, <3>2 DEF TapStands, Taps
    <3>4. p \in rows[account] <=> (heartCall[c].kind = "add" <=> pc = "done")
      <4>1. CASE pc = "failed"
        BY <1>1, <1>2, <1>4, <3>2, <4>1 DEF TapStands
      <4>2. CASE pc = "done"
        <5>1. rows[account] = IF heartCall[c].kind = "add"
                              THEN saved[account] \cup heartCall[c].on
                              ELSE saved[account] \ heartCall[c].on
          BY <1>1, <1>4, <2>1, <3>3, <4>2 DEF HeartInv
        <5> QED
          BY <1>2, <3>3, <4>2, <5>1
      <4> QED
        BY <4>1, <4>2
    <3>5. TapStands(calls[c], account, rows[account], hearts, p)
      BY <1>1, <1>3, <1>5, <3>2, <3>4 DEF TapStands
    <3>6. \A d \in HttpCalls : Taps(calls[d], p) <=> d = c
      BY <2>1, <2>2, <2>4 DEF HeartStands
    <3> QED
      BY <1>5, <3>1, <3>5, <3>6 DEF HeartStands
  <2>5. CASE ~ Taps(heartCall[c], p)
    <3>1. p \notin heartCall[c].on
      BY <1>2, <2>5 DEF Taps
    <3>2. p \in rows[account] <=> p \in saved[account]
      <4>1. CASE pc = "failed"
        BY <1>1, <1>4, <4>1
      <4>2. CASE pc = "done" /\ heartCall[c].of = account
        <5>1. rows[account] = IF heartCall[c].kind = "add"
                              THEN saved[account] \cup heartCall[c].on
                              ELSE saved[account] \ heartCall[c].on
          BY <1>1, <1>4, <2>1, <4>2 DEF HeartInv
        <5> QED
          BY <3>1, <5>1
      <4>3. CASE pc = "done" /\ heartCall[c].of # account
        <5>1. rows[account] = saved[account]
          BY <1>1, <1>4, <2>1, <4>3 DEF HeartInv
        <5> QED
          BY <5>1
      <4> QED
        BY <4>1, <4>2, <4>3
    <3>3. \A d \in HttpCalls : Taps(calls[d], p) \/ Loads(calls[d]) => d # c
      BY <1>5, <2>2, <2>3, <2>5
    <3> QED
      BY <1>5, <2>1, <2>2, <2>5, <3>2, <3>3 DEF HeartStands, TapStands
  <2> QED
    BY <2>4, <2>5
<1> QED
  BY <1>2, <1>4, <1>5, <1>6, <1>7, HeartFrame DEF HeartInv

LEMMA HeartReplies ==
    ASSUME HeartInv, NEW c \in HttpCalls, Heart!Reply(c)
    PROVE  HeartInv'
<1>1. PICK calls, filled, unsure :
         calls = heartCall' /\ filled = hearts' /\ unsure = doubt'
  OBVIOUS
<1>2. PICK x : x = Heart!NoCall
  OBVIOUS
<1>3. IsHeartCall(x) /\ ~ Loads(x) /\ (\A p : ~ Taps(x, p))
  BY <1>2, NoHeartCall
<1>4. calls = WithHeartCall(c, x) /\ UNCHANGED <<account, saved>>
  BY <1>1, <1>2 DEF Heart!Reply, WithHeartCall
<1>5. AreHeartCalls(heartCall)
  BY DEF HeartInv
<1>6. /\ AreHeartCalls(calls) /\ calls[c] = x
      /\ \A d \in HttpCalls : d # c => calls[d] = heartCall[d]
  BY <1>3, <1>4, <1>5, HeartCallPut
<1>7. \A d \in HttpCalls : Loads(calls[d]) <=> d # c /\ Loads(heartCall[d])
  BY <1>3, <1>6
<1>8. \A p : \A d \in HttpCalls : Taps(calls[d], p) <=> d # c /\ Taps(heartCall[d], p)
  BY <1>3, <1>6
<1>9. OneLoad(calls, account)
  BY <1>6, <1>7 DEF HeartInv, OneLoad
<1>10. PICK y : y = heartCall[c]
  OBVIOUS
<1>11. /\ IsHeartCall(y) /\ y.pc \in {"done", "failed"}
       /\ Loads(y) /\ y.pc = "done" => filled = y.on
       /\ y.kind = "add" /\ y.pc = "failed" => filled = hearts \ y.on
       /\ y.kind = "remove" /\ y.pc = "failed" => filled = hearts \cup y.on
       /\ ~ Loads(y) /\ (y.kind \in {"add", "remove"} => y.pc = "done") => filled = hearts
       /\ unsure = IF Loads(y) /\ y.pc = "failed" THEN Products ELSE doubt
  BY <1>1, <1>5, <1>10 DEF Heart!Reply, Loads, AreHeartCalls
<1>12. ASSUME account # Nobody, NEW p \in Products \ unsure
       PROVE  HeartStands(calls, account, saved[account], filled, p)
  <2>1. HeartStands(heartCall, account, saved[account], hearts, p) /\ unsure = doubt
    BY <1>11, <1>12 DEF HeartInv
  <2>2. CASE Loads(y)
    <3>1. y.pc = "done" /\ filled = y.on
      BY <1>11, <1>12, <2>2
    <3>2. \A d \in HttpCalls : ~ Taps(calls[d], p) /\ ~ Loads(calls[d])
      BY <1>7, <1>8, <1>10, <2>1, <2>2 DEF HeartInv, OneLoad, HeartStands
    <3>3. p \in filled <=> p \in saved[account]
      BY <1>10, <2>1, <2>2, <3>1 DEF HeartStands
    <3> QED
      BY <3>2, <3>3 DEF HeartStands
  <2>3. CASE Taps(y, p)
    <3>1. \A d \in HttpCalls : ~ Taps(calls[d], p) /\ ~ Loads(calls[d])
      BY <1>7, <1>8, <1>10, <2>1, <2>3 DEF HeartStands
    <3>2. TapStands(y, account, saved[account], hearts, p)
      <4>1. \A d \in HttpCalls : ~ Loads(heartCall[d])
        BY <1>10, <2>1, <2>3 DEF HeartStands
      <4> QED
        BY <1>10, <2>1, <2>3, <4>1 DEF HeartStands
    <3>3. y.kind \in {"add", "remove"} /\ p \in y.on /\ ~ Loads(y)
      BY <2>3 DEF Taps, Loads
    <3>4. p \in filled <=> p \in saved[account]
      BY <1>11, <3>2, <3>3 DEF TapStands
    <3> QED
      BY <3>1, <3>4 DEF HeartStands
  <2>4. CASE ~ Loads(y) /\ ~ Taps(y, p)
    <3>1. p \in filled <=> p \in hearts
      BY <1>11, <2>4 DEF Taps
    <3>2. \A d \in HttpCalls : /\ Taps(calls[d], p) <=> Taps(heartCall[d], p)
                               /\ Loads(calls[d]) <=> Loads(heartCall[d])
      BY <1>7, <1>8, <1>10, <2>4
    <3>3. \A d \in HttpCalls : Taps(calls[d], p) \/ Loads(calls[d]) => calls[d] = heartCall[d]
      BY <1>6, <1>7, <1>8
    <3> QED
      BY <2>1, <3>1, <3>2, <3>3 DEF HeartStands, TapStands
  <2> QED
    BY <2>2, <2>3, <2>4
<1> QED
  BY <1>1, <1>4, <1>6, <1>9, <1>12, HeartFrame DEF HeartInv

LEMMA HeartNext ==
    ASSUME HeartInv, [Heart!Next]_(Heart!vars)
    PROVE  HeartInv'
<1>1. CASE Heart!SignOut
  BY <1>1, HeartSignOut
<1>2. ASSUME NEW p \in Products, Heart!StatusChanges(p)
      PROVE  HeartInv'
  BY <1>2, HeartFrame DEF Heart!StatusChanges, HeartInv
<1>3. ASSUME NEW c \in HttpCalls, NEW u \in Users, Heart!SignIn(c, u)
      PROVE  HeartInv'
  BY <1>3, HeartSignIn
<1>4. ASSUME NEW c \in HttpCalls, NEW p \in Products, Heart!ToggleFavorite(c, p)
      PROVE  HeartInv'
  BY <1>4, HeartToggle
<1>5. ASSUME NEW c \in HttpCalls,
             \/ Heart!Get(c) \/ Heart!Post(c) \/ Heart!Delete(c) \/ Heart!Lose(c)
             \/ Heart!Reply(c)
      PROVE  HeartInv'
  BY <1>5, HeartGet, HeartServes, HeartLose, HeartReplies
<1>6. CASE UNCHANGED Heart!vars
  BY <1>6, HeartFrame DEF Heart!vars, HeartInv
<1> QED
  BY <1>1, <1>2, <1>3, <1>4, <1>5, <1>6 DEF Heart!Next

(* For any users, products and number of calls, in whatever order they are *)
(* served, refused and answered, and however accounts change on the phone: *)
(* at rest the hearts are the favorites of whoever is signed in, but for   *)
(* the products that an answer lost, or a tap that met another one, a load *)
(* or a change of account, has left in doubt.                              *)
THEOREM HeartsAreRight == Heart!Spec => []HeartsAreFavorites
<1>1. Heart!Init => HeartInv
  BY HeartInit
<1>2. HeartInv /\ [Heart!Next]_(Heart!vars) => HeartInv'
  BY HeartNext
<1>3. HeartInv => HeartsAreFavorites
  <2> SUFFICES ASSUME HeartInv, account # Nobody,
                      \A c \in HttpCalls : heartCall[c] = Heart!NoCall,
                      NEW p \in Products \ doubt
               PROVE  p \in hearts <=> p \in saved[account]
    BY DEF HeartsAreFavorites, Heart!HeartsAreFavorites
  <2>1. \A c \in HttpCalls : ~ Loads(heartCall[c]) /\ ~ Taps(heartCall[c], p)
    BY NoHeartCall
  <2> QED
    BY <2>1 DEF HeartInv, HeartStands
<1> QED
  BY <1>1, <1>2, <1>3, PTL DEF Heart!Spec

-----------------------------------------------------------------------------
(***************************************************************************)
(* ProductFeed: of the calls that are not stale there is at most one.  It  *)
(* asks for the first page of the current filter, or for what continues    *)
(* the list; and a list that is empty has its first page on the way.       *)
(***************************************************************************)
IsFeedCall(x) == /\ x = [kind |-> x.kind, page |-> x.page, stale |-> x.stale]
                 /\ x.kind \in Feed!Kinds \cup {"none"} /\ x.page \in Feed!Pages
                 /\ x.stale \in BOOLEAN
                 /\ x.kind = "none" => x = Feed!NoCall

AreFeedCalls(calls) == /\ calls = [c \in FeedCalls |-> calls[c]]
                       /\ \A c \in FeedCalls : IsFeedCall(calls[c])

AsksFirst(x) == x.kind \in {"initial", "refresh"} /\ ~ x.stale
AsksMore(x)  == x.kind = "more" /\ ~ x.stale

OneAsks(calls) == \A c, d \in FeedCalls :
    /\ AsksFirst(calls[c]) \/ AsksMore(calls[c])
    /\ AsksFirst(calls[d]) \/ AsksMore(calls[d])
    => c = d

Asked(calls, f, nx, flags) ==
    /\ \A c \in FeedCalls : AsksFirst(calls[c]) =>
           calls[c].page = Feed!Page(f, 1) /\ flags \cap {"loading", "refreshing"} # {}
    /\ \A c \in FeedCalls : AsksMore(calls[c]) =>
           calls[c].page = nx /\ nx # Feed!Nothing /\ "more" \in flags
    /\ flags \cap {"loading", "refreshing"} # {} => \E c \in FeedCalls : AsksFirst(calls[c])

Listed(calls, f, pages, nx) ==
    /\ \A n \in DOMAIN pages : pages[n] = Feed!Page(f, n)
    /\ pages = <<>> => \E c \in FeedCalls : AsksFirst(calls[c])
    /\ pages # <<>> => nx = Feed!After(pages[Len(pages)])

FeedStands(calls, f, pages, nx, flags, behind) ==
    /\ AreFeedCalls(calls) /\ OneAsks(calls)
    /\ f \in Filters /\ pages \in Seq(Feed!Pages) /\ nx \in Feed!Pages /\ behind \in BOOLEAN
    /\ Asked(calls, f, nx, flags)
    /\ behind \/ Listed(calls, f, pages, nx)

FeedInv == FeedStands(feedCall, filter, list, next, busy, gap)

LEMMA FeedFrame ==
    ASSUME NEW calls, NEW f, NEW pages, NEW nx, NEW flags, NEW behind,
           calls = feedCall', f = filter', pages = list', nx = next', flags = busy',
           behind = gap', FeedStands(calls, f, pages, nx, flags, behind)
    PROVE  FeedInv'
BY DEF FeedInv, FeedStands, AreFeedCalls, IsFeedCall, OneAsks, Asked, Listed, AsksFirst, AsksMore

LEMMA FeedPages ==
    /\ Feed!Nothing \in Feed!Pages
    /\ \A f \in Filters, n \in Nat : Feed!Page(f, n) \in Feed!Pages
    /\ \A page \in Feed!Pages : Feed!After(page) \in Feed!Pages
BY DEF Feed!Pages, Feed!Page, Feed!Nothing, Feed!After

LEMMA NoFeedCall ==
    /\ IsFeedCall(Feed!NoCall) /\ ~ AsksFirst(Feed!NoCall) /\ ~ AsksMore(Feed!NoCall)
<1>1. PICK z : z = Feed!NoCall
  OBVIOUS
<1>2. z = [kind |-> "none", page |-> Feed!Nothing, stale |-> FALSE]
  BY <1>1 DEF Feed!NoCall
<1>3. z.kind = "none" /\ z.page = Feed!Nothing /\ z.stale = FALSE
  BY <1>2
<1>4. IsFeedCall(z)
  BY <1>1, <1>2, <1>3, FeedPages DEF IsFeedCall
<1> QED
  BY <1>1, <1>3, <1>4 DEF AsksFirst, AsksMore

LEMMA FirstCall ==
    ASSUME NEW kind \in {"initial", "refresh"}, NEW f \in Filters, NEW x,
           x = [kind |-> kind, page |-> Feed!Page(f, 1), stale |-> FALSE]
    PROVE  /\ IsFeedCall(x) /\ AsksFirst(x) /\ x.page = Feed!Page(f, 1)
           /\ ~ AsksMore(x)
<1>1. x.kind = kind /\ x.page = Feed!Page(f, 1) /\ x.stale = FALSE
  OBVIOUS
<1>2. x = [kind |-> x.kind, page |-> x.page, stale |-> x.stale] /\ x.page \in Feed!Pages
  BY <1>1, FeedPages
<1> QED
  BY <1>1, <1>2 DEF IsFeedCall, AsksFirst, AsksMore, Feed!Kinds

LEMMA FeedInit ==
    ASSUME Feed!Init
    PROVE  FeedInv
<1>1. PICK c \in FeedCalls : feedCall = [d \in FeedCalls |->
          IF d = c THEN [Feed!NoCall EXCEPT !.kind = "initial", !.page = Feed!Page(filter, 1)]
          ELSE Feed!NoCall]
  BY DEF Feed!Init
<1>2. PICK x : x = [Feed!NoCall EXCEPT !.kind = "initial", !.page = Feed!Page(filter, 1)]
  OBVIOUS
<1>3. x = [kind |-> "initial", page |-> Feed!Page(filter, 1), stale |-> FALSE]
  BY <1>2 DEF Feed!NoCall
<1>4. /\ filter \in Filters /\ list = <<>> /\ next = Feed!Nothing /\ busy = {"loading"}
      /\ gap = FALSE
  BY DEF Feed!Init
<1>5. /\ IsFeedCall(x) /\ AsksFirst(x) /\ x.page = Feed!Page(filter, 1)
      /\ ~ AsksMore(x)
  BY <1>3, <1>4, FirstCall
<1>6. PICK z : z = Feed!NoCall
  OBVIOUS
<1>7. feedCall = [d \in FeedCalls |-> IF d = c THEN x ELSE z]
  BY <1>1, <1>2, <1>6
<1>8. AreFeedCalls(feedCall)
  BY <1>5, <1>6, <1>7, NoFeedCall DEF AreFeedCalls
<1>9. \A d \in FeedCalls : AsksFirst(feedCall[d]) \/ AsksMore(feedCall[d]) => d = c
  BY <1>6, <1>7, NoFeedCall
<1>10. feedCall[c] = x
  BY <1>7
<1>11. list \in Seq(Feed!Pages) /\ next \in Feed!Pages /\ DOMAIN list = {}
  BY <1>4, FeedPages
<1> QED
  BY <1>4, <1>5, <1>8, <1>9, <1>10, <1>11
     DEF FeedInv, FeedStands, OneAsks, Asked, Listed

LEMMA FeedLoadsFirst ==
    ASSUME FeedInv, NEW c \in FeedCalls, NEW kind \in {"initial", "refresh"},
           NEW f \in Filters, Feed!LoadFirst(c, kind, f), filter' = f,
           kind = "refresh" => f = filter
    PROVE  FeedInv'
<1>1. PICK x : x = [kind |-> kind, page |-> Feed!Page(f, 1), stale |-> FALSE]
  OBVIOUS
<1>2. IsFeedCall(x) /\ AsksFirst(x) /\ x.page = Feed!Page(f, 1) /\ ~ AsksMore(x)
  BY <1>1, FirstCall
<1>3. PICK calls, flags, pages : calls = feedCall' /\ flags = busy' /\ pages = list'
  OBVIOUS
<1>4. /\ calls = [d \in FeedCalls |->
             IF d = c THEN x ELSE IF feedCall[d] = Feed!NoCall THEN Feed!NoCall
             ELSE [feedCall[d] EXCEPT !.stale = TRUE]]
      /\ flags = busy \cup {IF kind = "initial" THEN "loading" ELSE "refreshing"}
      /\ pages = IF kind = "initial" THEN <<>> ELSE list
      /\ UNCHANGED <<next, gap>>
  BY <1>1, <1>3 DEF Feed!LoadFirst
<1>5. ASSUME NEW d \in FeedCalls, d # c
      PROVE  IsFeedCall(calls[d]) /\ ~ AsksFirst(calls[d]) /\ ~ AsksMore(calls[d])
  <2>1. PICK y : y = feedCall[d]
    OBVIOUS
  <2>2. IsFeedCall(y)
    BY <2>1 DEF FeedInv, FeedStands, AreFeedCalls
  <2>3. CASE y = Feed!NoCall
    <3>1. calls[d] = Feed!NoCall
      BY <1>4, <1>5, <2>1, <2>3
    <3> QED
      BY <3>1, NoFeedCall
  <2>4. CASE y # Feed!NoCall
    <3>1. PICK w : w = [y EXCEPT !.stale = TRUE]
      OBVIOUS
    <3>2. w = [kind |-> y.kind, page |-> y.page, stale |-> TRUE]
      BY <2>2, <3>1 DEF IsFeedCall
    <3>3. w.kind = y.kind /\ w.page = y.page /\ w.stale = TRUE
      BY <3>2
    <3>4. IsFeedCall(w)
      BY <2>2, <2>4, <3>2, <3>3 DEF IsFeedCall
    <3>5. calls[d] = w
      BY <1>4, <1>5, <2>1, <2>4, <3>1
    <3> QED
      BY <3>3, <3>4, <3>5 DEF AsksFirst, AsksMore
  <2> QED
    BY <2>3, <2>4
<1>6. calls[c] = x /\ calls = [d \in FeedCalls |-> calls[d]]
  BY <1>4
<1>7. AreFeedCalls(calls) /\ OneAsks(calls)
  BY <1>2, <1>5, <1>6 DEF AreFeedCalls, OneAsks
<1>8. Asked(calls, f, next, flags)
  <2>1. flags \cap {"loading", "refreshing"} # {}
    BY <1>4
  <2> QED
    BY <1>2, <1>5, <1>6, <2>1 DEF Asked
<1>9. gap \/ Listed(calls, f, pages, next)
  <2>1. CASE kind = "initial"
    <3>1. pages = <<>> /\ DOMAIN pages = {}
      BY <1>4, <2>1
    <3> QED
      BY <1>2, <1>6, <3>1 DEF Listed
  <2>2. CASE kind = "refresh"
    <3>1. pages = list /\ f = filter
      BY <1>4, <2>2
    <3> QED
      BY <1>2, <1>6, <3>1 DEF Listed, FeedInv, FeedStands
  <2> QED
    BY <2>1, <2>2
<1>10. pages \in Seq(Feed!Pages) /\ next \in Feed!Pages /\ gap \in BOOLEAN
  BY <1>4 DEF FeedInv, FeedStands
<1>11. FeedStands(calls, f, pages, next, flags, gap)
  BY <1>7, <1>8, <1>9, <1>10 DEF FeedStands
<1> QED
  BY <1>3, <1>4, <1>11, FeedFrame

WithFeedCall(c, x) == [feedCall EXCEPT ![c] = x]

LEMMA FeedCallPut ==
    ASSUME AreFeedCalls(feedCall), NEW c \in FeedCalls, NEW x, IsFeedCall(x),
           NEW calls, calls = WithFeedCall(c, x)
    PROVE  /\ AreFeedCalls(calls) /\ calls[c] = x
           /\ \A d \in FeedCalls : d # c => calls[d] = feedCall[d]
<1>1. /\ calls = [d \in FeedCalls |-> calls[d]] /\ calls[c] = x
      /\ \A d \in FeedCalls : d # c => calls[d] = feedCall[d]
  BY Zenon DEF AreFeedCalls, WithFeedCall
<1> QED
  BY <1>1 DEF AreFeedCalls

LEMMA FeedLoadsMore ==
    ASSUME FeedInv, NEW c \in FeedCalls, Feed!LoadMore(c)
    PROVE  FeedInv'
<1>1. PICK x : x = [kind |-> "more", page |-> next, stale |-> FALSE]
  OBVIOUS
<1>2. x.kind = "more" /\ x.page = next /\ x.stale = FALSE
  BY <1>1
<1>3. IsFeedCall(x) /\ ~ AsksFirst(x) /\ AsksMore(x)
  BY <1>1, <1>2 DEF IsFeedCall, AsksFirst, AsksMore, Feed!Kinds, FeedInv, FeedStands
<1>4. PICK calls, flags : calls = feedCall' /\ flags = busy'
  OBVIOUS
<1>5. /\ calls = WithFeedCall(c, x) /\ flags = {"more"} /\ busy = {} /\ next # Feed!Nothing
      /\ UNCHANGED <<filter, list, next, gap>>
  BY <1>1, <1>4 DEF Feed!LoadMore, WithFeedCall
<1>6. AreFeedCalls(feedCall)
  BY DEF FeedInv, FeedStands
<1>7. /\ AreFeedCalls(calls) /\ calls[c] = x
      /\ \A d \in FeedCalls : d # c => calls[d] = feedCall[d]
  BY <1>3, <1>5, <1>6, FeedCallPut
<1>8. \A d \in FeedCalls : ~ AsksFirst(feedCall[d]) /\ ~ AsksMore(feedCall[d])
  BY <1>5 DEF FeedInv, FeedStands, Asked
<1>9. \A d \in FeedCalls : ~ AsksFirst(calls[d]) /\ (AsksMore(calls[d]) => d = c)
  BY <1>3, <1>7, <1>8
<1>10. OneAsks(calls)
  BY <1>9 DEF OneAsks
<1>11. Asked(calls, filter, next, flags)
  <2>1. flags \cap {"loading", "refreshing"} = {} /\ "more" \in flags
    BY <1>5
  <2> QED
    BY <1>2, <1>5, <1>7, <1>9, <2>1 DEF Asked
<1>12. gap \/ Listed(calls, filter, list, next)
  BY <1>8 DEF Listed, FeedInv, FeedStands
<1>13. FeedStands(calls, filter, list, next, flags, gap)
  BY <1>7, <1>10, <1>11, <1>12 DEF FeedInv, FeedStands
<1> QED
  BY <1>4, <1>5, <1>13, FeedFrame

(* Done, of a stale call and of the one that is not. *)
LEMMA FeedDone ==
    ASSUME FeedInv, NEW c \in FeedCalls, Feed!Done(c), NEW calls, calls = feedCall'
    PROVE  /\ AreFeedCalls(calls) /\ OneAsks(calls) /\ UNCHANGED filter
           /\ feedCall[c].stale => /\ Asked(calls, filter, next, busy') /\ busy' = busy
                                   /\ gap \/ Listed(calls, filter, list, next)
           /\ AsksFirst(feedCall[c]) \/ AsksMore(feedCall[c]) =>
                 /\ \A d \in FeedCalls : ~ AsksFirst(calls[d]) /\ ~ AsksMore(calls[d])
                 /\ busy' \cap {"loading", "refreshing"} = {}
<1>1. PICK x, y : x = Feed!NoCall /\ y = feedCall[c]
  OBVIOUS
<1>2. IsFeedCall(x) /\ ~ AsksFirst(x) /\ ~ AsksMore(x)
  BY <1>1, NoFeedCall
<1>3. calls = WithFeedCall(c, x) /\ UNCHANGED filter
  BY <1>1 DEF Feed!Done, WithFeedCall
<1>4. AreFeedCalls(feedCall)
  BY DEF FeedInv, FeedStands
<1>5. /\ AreFeedCalls(calls) /\ calls[c] = x
      /\ \A d \in FeedCalls : d # c => calls[d] = feedCall[d]
  BY <1>2, <1>3, <1>4, FeedCallPut
<1>6. \A d \in FeedCalls : /\ AsksFirst(calls[d]) <=> d # c /\ AsksFirst(feedCall[d])
                           /\ AsksMore(calls[d]) <=> d # c /\ AsksMore(feedCall[d])
  BY <1>2, <1>5
<1>7. OneAsks(calls)
  BY <1>6 DEF OneAsks, FeedInv, FeedStands
<1>8. busy' = IF y.stale THEN busy ELSE IF y.kind = "more" THEN busy \ {"more"}
              ELSE busy \ {"loading", "refreshing"}
  BY <1>1 DEF Feed!Done, Feed!Cleared
<1>9. ASSUME y.stale
      PROVE  /\ Asked(calls, filter, next, busy') /\ busy' = busy
             /\ gap \/ Listed(calls, filter, list, next)
  <2>1. ~ AsksFirst(feedCall[c]) /\ ~ AsksMore(feedCall[c])
    BY <1>1, <1>9 DEF AsksFirst, AsksMore
  <2>2. \A d \in FeedCalls : /\ AsksFirst(calls[d]) <=> AsksFirst(feedCall[d])
                             /\ AsksMore(calls[d]) <=> AsksMore(feedCall[d])
                             /\ AsksFirst(calls[d]) \/ AsksMore(calls[d]) =>
                                    calls[d] = feedCall[d]
    BY <1>5, <1>6, <2>1
  <2>3. Asked(calls, filter, next, busy)
    BY <2>2 DEF Asked, FeedInv, FeedStands
  <2>4. gap \/ Listed(calls, filter, list, next)
    BY <2>2 DEF Listed, FeedInv, FeedStands
  <2> QED
    BY <1>8, <1>9, <2>3, <2>4
<1>10. ASSUME AsksFirst(y) \/ AsksMore(y)
       PROVE  /\ \A d \in FeedCalls : ~ AsksFirst(calls[d]) /\ ~ AsksMore(calls[d])
              /\ busy' \cap {"loading", "refreshing"} = {}
  <2>1. \A d \in FeedCalls : AsksFirst(feedCall[d]) \/ AsksMore(feedCall[d]) => d = c
    BY <1>1, <1>10 DEF OneAsks, FeedInv, FeedStands
  <2>2. \A d \in FeedCalls : ~ AsksFirst(calls[d]) /\ ~ AsksMore(calls[d])
    BY <1>6, <2>1
  <2>3. CASE AsksFirst(y)
    <3>1. busy' = busy \ {"loading", "refreshing"}
      BY <1>8, <2>3 DEF AsksFirst
    <3> QED
      BY <2>2, <3>1
  <2>4. CASE ~ AsksFirst(y)
    <3>1. busy \cap {"loading", "refreshing"} = {}
      BY <1>1, <2>1, <2>4 DEF Asked, FeedInv, FeedStands
    <3>2. busy' \subseteq busy
      BY <1>8
    <3> QED
      BY <2>2, <3>1, <3>2
  <2> QED
    BY <2>3, <2>4
<1> QED
  BY <1>1, <1>3, <1>5, <1>7, <1>9, <1>10

LEMMA FeedKinds ==
    ASSUME FeedInv, NEW c \in FeedCalls, feedCall[c] # Feed!NoCall
    PROVE  /\ feedCall[c].stale \/ AsksFirst(feedCall[c]) \/ AsksMore(feedCall[c])
           /\ feedCall[c].stale => ~ AsksFirst(feedCall[c]) /\ ~ AsksMore(feedCall[c])
           /\ feedCall[c].stale \in BOOLEAN /\ feedCall[c].page \in Feed!Pages
           /\ AsksFirst(feedCall[c]) => feedCall[c].kind # "more"
           /\ AsksMore(feedCall[c]) => feedCall[c].kind = "more"
BY DEF FeedInv, FeedStands, AreFeedCalls, IsFeedCall, AsksFirst, AsksMore, Feed!Kinds

LEMMA FeedReplies ==
    ASSUME FeedInv, NEW c \in FeedCalls, Feed!Reply(c)
    PROVE  FeedInv'
<1>1. PICK calls, pages, nx, flags, behind :
         /\ calls = feedCall' /\ pages = list' /\ nx = next' /\ flags = busy'
         /\ behind = gap'
  OBVIOUS
<1>2. Feed!Done(c) /\ feedCall[c] # Feed!NoCall
  BY DEF Feed!Reply
<1>3. PICK y : y = feedCall[c]
  OBVIOUS
<1>4. /\ AreFeedCalls(calls) /\ OneAsks(calls) /\ UNCHANGED filter
      /\ y.stale => /\ Asked(calls, filter, next, flags) /\ flags = busy
                    /\ gap \/ Listed(calls, filter, list, next)
      /\ AsksFirst(y) \/ AsksMore(y) =>
            /\ \A d \in FeedCalls : ~ AsksFirst(calls[d]) /\ ~ AsksMore(calls[d])
            /\ flags \cap {"loading", "refreshing"} = {}
  BY <1>1, <1>2, <1>3, FeedDone
<1>5. /\ y.stale \/ AsksFirst(y) \/ (AsksMore(y) /\ y.page \in Feed!Pages)
      /\ y.stale => ~ AsksFirst(y) /\ ~ AsksMore(y)
      /\ AsksFirst(y) => y.kind # "more"
      /\ AsksMore(y) => y.kind = "more"
      /\ y.page \in Feed!Pages
  BY <1>2, <1>3, FeedKinds
<1>6. CASE y.stale
  <2>1. UNCHANGED <<list, next, gap>>
    BY <1>3, <1>6 DEF Feed!Reply, Feed!Superseded
  <2>2. FeedStands(calls, filter, list, next, flags, gap)
    BY <1>4, <1>6 DEF FeedInv, FeedStands
  <2> QED
    BY <1>1, <1>4, <2>1, <2>2, FeedFrame
<1>7. CASE ~ y.stale
  <2>1. /\ pages = IF y.kind = "more" THEN Append(list, y.page) ELSE <<y.page>>
        /\ nx = Feed!After(y.page)
        /\ behind = (gap /\ y.kind = "more")
    BY <1>1, <1>3, <1>7 DEF Feed!Reply, Feed!Superseded
  <2>2. Asked(calls, filter, nx, flags)
    BY <1>4, <1>5, <1>7 DEF Asked
  <2>3. list \in Seq(Feed!Pages) /\ gap \in BOOLEAN /\ filter \in Filters
    BY DEF FeedInv, FeedStands
  <2>4. pages \in Seq(Feed!Pages) /\ nx \in Feed!Pages /\ behind \in BOOLEAN
    BY <1>5, <2>1, <2>3, FeedPages
  <2>5. behind \/ Listed(calls, filter, pages, nx)
    <3>1. CASE AsksFirst(y)
      <4>1. y.page = Feed!Page(filter, 1)
        BY <1>3, <3>1 DEF FeedInv, FeedStands, Asked
      <4>2. pages = <<Feed!Page(filter, 1)>> /\ nx = Feed!After(Feed!Page(filter, 1))
        BY <1>5, <2>1, <3>1, <4>1
      <4>3. /\ DOMAIN pages = {1} /\ pages[1] = Feed!Page(filter, 1) /\ Len(pages) = 1
            /\ pages # <<>>
        BY <4>2
      <4> QED
        BY <4>2, <4>3 DEF Listed
    <3>2. CASE AsksMore(y) /\ ~ gap
      <4>1. y.page = next /\ next # Feed!Nothing
        BY <1>3, <3>2 DEF FeedInv, FeedStands, Asked
      <4>2. Listed(feedCall, filter, list, next)
        BY <3>2 DEF FeedInv, FeedStands
      <4>3. \A d \in FeedCalls : ~ AsksFirst(feedCall[d])
        BY <1>3, <1>5, <3>2 DEF FeedInv, FeedStands, OneAsks, AsksFirst, AsksMore
      <4>4. list # <<>> /\ next = Feed!After(list[Len(list)])
        BY <4>2, <4>3 DEF Listed
      <4>5. Len(list) \in Nat \ {0} /\ Len(list) \in DOMAIN list
        BY <2>3, <4>4
      <4>6. list[Len(list)] = Feed!Page(filter, Len(list))
        BY <4>2, <4>5 DEF Listed
      <4>7. next = Feed!Page(filter, Len(list) + 1)
        BY <4>1, <4>4, <4>6 DEF Feed!After, Feed!Page
      <4>8. pages = Append(list, Feed!Page(filter, Len(list) + 1))
        BY <1>5, <2>1, <3>2, <4>1, <4>7
      <4>9. Feed!Page(filter, Len(list) + 1) \in Feed!Pages
        BY <1>5, <4>1, <4>7
      <4>10. /\ Len(pages) = Len(list) + 1 /\ DOMAIN pages = 1..(Len(list) + 1)
             /\ pages[Len(list) + 1] = Feed!Page(filter, Len(list) + 1)
             /\ \A n \in 1..Len(list) : pages[n] = list[n]
        BY <2>3, <4>5, <4>8, <4>9
      <4>11. \A n \in DOMAIN pages : pages[n] = Feed!Page(filter, n)
        <5> SUFFICES ASSUME NEW n \in 1..(Len(list) + 1)
                     PROVE  pages[n] = Feed!Page(filter, n)
          BY <4>10
        <5>1. n = Len(list) + 1 \/ n \in 1..Len(list)
          BY <4>5
        <5>2. DOMAIN list = 1..Len(list)
          BY <2>3
        <5> QED
          BY <4>2, <4>10, <5>1, <5>2 DEF Listed
      <4>12. pages # <<>> /\ nx = Feed!After(pages[Len(pages)])
        BY <2>1, <4>1, <4>7, <4>10, <4>5
      <4> QED
        BY <4>11, <4>12 DEF Listed
    <3>3. CASE AsksMore(y) /\ gap
      BY <1>5, <2>1, <3>3
    <3> QED
      BY <1>5, <1>7, <2>3, <3>1, <3>2, <3>3
  <2>6. FeedStands(calls, filter, pages, nx, flags, behind)
    BY <1>4, <2>2, <2>3, <2>4, <2>5 DEF FeedStands
  <2> QED
    BY <1>1, <1>4, <2>6, FeedFrame
<1> QED
  BY <1>6, <1>7

LEMMA FeedFails ==
    ASSUME FeedInv, NEW c \in FeedCalls, Feed!Fail(c)
    PROVE  FeedInv'
<1>1. PICK calls, flags, behind : calls = feedCall' /\ flags = busy' /\ behind = gap'
  OBVIOUS
<1>2. Feed!Done(c) /\ feedCall[c] # Feed!NoCall /\ UNCHANGED <<list, next>>
  BY DEF Feed!Fail
<1>3. PICK y : y = feedCall[c]
  OBVIOUS
<1>4. /\ AreFeedCalls(calls) /\ OneAsks(calls) /\ UNCHANGED filter
      /\ y.stale => /\ Asked(calls, filter, next, flags) /\ flags = busy
                    /\ gap \/ Listed(calls, filter, list, next)
      /\ AsksFirst(y) \/ AsksMore(y) =>
            /\ \A d \in FeedCalls : ~ AsksFirst(calls[d]) /\ ~ AsksMore(calls[d])
            /\ flags \cap {"loading", "refreshing"} = {}
  BY <1>1, <1>2, <1>3, FeedDone
<1>5. /\ y.stale \/ AsksFirst(y) \/ AsksMore(y)
      /\ AsksFirst(y) => y.kind # "more"
      /\ AsksMore(y) => y.kind = "more"
      /\ y.stale \in BOOLEAN
  BY <1>2, <1>3, FeedKinds
<1>6. behind = (gap \/ (~ y.stale /\ y.kind # "more" /\ list = <<>>))
  BY <1>1, <1>3 DEF Feed!Fail, Feed!Superseded
<1>7. gap \in BOOLEAN
  BY DEF FeedInv, FeedStands
<1>8. behind \in BOOLEAN
  BY <1>6, Zenon
<1>9. Asked(calls, filter, next, flags)
  BY <1>4, <1>5 DEF Asked
<1>10. behind \/ Listed(calls, filter, list, next)
  <2>1. CASE y.stale
    BY <1>4, <1>6, <2>1
  <2>2. CASE AsksFirst(y) /\ ~ gap
    <3>1. list = <<>> => behind
      BY <1>5, <1>6, <2>2 DEF AsksFirst
    <3>2. list # <<>> => Listed(calls, filter, list, next)
      BY <2>2 DEF FeedInv, FeedStands, Listed
    <3> QED
      BY <3>1, <3>2
  <2>3. CASE AsksMore(y) /\ ~ gap
    <3>1. \A d \in FeedCalls : ~ AsksFirst(feedCall[d])
      BY <1>3, <1>5, <2>3 DEF FeedInv, FeedStands, OneAsks, AsksFirst, AsksMore
    <3> QED
      BY <2>3, <3>1 DEF FeedInv, FeedStands, Listed
  <2>4. CASE gap
    BY <1>6, <2>4
  <2> QED
    BY <1>5, <2>1, <2>2, <2>3, <2>4
<1>11. FeedStands(calls, filter, list, next, flags, behind)
  BY <1>4, <1>8, <1>9, <1>10 DEF FeedInv, FeedStands
<1> QED
  BY <1>1, <1>2, <1>4, <1>11, FeedFrame

LEMMA FeedNext ==
    ASSUME FeedInv, [Feed!Next]_(Feed!vars)
    PROVE  FeedInv'
<1>1. ASSUME NEW c \in FeedCalls, NEW f \in Filters, Feed!Change(c, f)
      PROVE  FeedInv'
  BY <1>1, FeedLoadsFirst DEF Feed!Change
<1>2. ASSUME NEW c \in FeedCalls, Feed!Refresh(c) \/ Feed!Retry(c)
      PROVE  FeedInv'
  <2>1. filter \in Filters
    BY DEF FeedInv, FeedStands
  <2> QED
    BY <1>2, <2>1, FeedLoadsFirst DEF Feed!Refresh, Feed!Retry
<1>3. ASSUME NEW c \in FeedCalls, Feed!LoadMore(c) \/ Feed!Reply(c) \/ Feed!Fail(c)
      PROVE  FeedInv'
  BY <1>3, FeedLoadsMore, FeedReplies, FeedFails
<1>4. CASE UNCHANGED Feed!vars
  BY <1>4, FeedFrame DEF Feed!vars, FeedInv
<1> QED
  BY <1>1, <1>2, <1>3, <1>4 DEF Feed!Next

(* For any filters, page counts and number of calls, and however replies   *)
(* are ordered or lost: the list is a run of pages of the current filter,  *)
(* none missing, none twice, what would be appended continues it - unless  *)
(* a first page failed to load before - and the spinner of a first page    *)
(* turns only while that page is on its way.                               *)
THEOREM FeedIsARun == Feed!Spec => []FeedIsOneListing
<1>1. Feed!Init => FeedInv
  BY FeedInit
<1>2. FeedInv /\ [Feed!Next]_(Feed!vars) => FeedInv'
  BY FeedNext
<1>3. FeedInv => FeedIsOneListing
  BY DEF FeedInv, FeedStands, Asked, Listed, AsksFirst, FeedIsOneListing,
         Feed!FeedIsOneListing
<1> QED
  BY <1>1, <1>2, <1>3, PTL DEF Feed!Spec

-----------------------------------------------------------------------------
(***************************************************************************)
(* ConversationScreen: without an excuse the screen shows messages a to b; *)
(* a page that is on its way reaches up to a, because so many are below it *)
(* of a history that only grows, and a poll goes on from a message of the  *)
(* screen.                                                                 *)
(***************************************************************************)
IsChatCall(x, n) ==
    /\ x = [kind |-> x.kind, pc |-> x.pc, page |-> x.page, newest |-> x.newest,
            total |-> x.total, top |-> x.top]
    /\ x.page \in Nat /\ x.newest \in Nat /\ x.total \in Nat /\ x.top \in Nat
    /\ x.total <= n /\ x.top <= n
    /\ x.pc = "reply" => x.total <= x.top
    /\ x.kind = "initial" => x.page = 1
    /\ x.kind = "older" => x.page # 0
    /\ x.kind = "send" => x.pc # "list"

AreChatCalls(calls, n) == /\ calls = [c \in HttpCalls |-> calls[c]]
                          /\ \A c \in HttpCalls : IsChatCall(calls[c], n)

Skip(pages) == pages * PAGE_SIZE
Elements(s) == {s[k] : k \in DOMAIN s}

Fits(x, old, a, b) ==
    /\ x.kind = "poll" => a <= x.newest + 1 /\ x.newest <= b
    /\ x.kind = "older" => /\ x.page = old.page /\ old.more
                           /\ x.pc = "reply" => a + Skip(x.page - 1) <= x.top + 1
    /\ x.kind = "send" /\ x.pc = "reply" => a <= x.top

Spans(n, s, old, a, b) ==
    /\ a \in Nat \ {0} /\ b \in Nat /\ (a <= b \/ (a = 1 /\ b = 0)) /\ b <= n
    /\ Elements(s) = a..b
    /\ old.more => a <= b /\ a + Skip(old.page - 1) <= n + 1
    /\ ~ old.more => a = 1

AllFit(calls, old, a, b) ==
    /\ \A c \in HttpCalls : Fits(calls[c], old, a, b)
    /\ \A c, d \in HttpCalls : calls[c].kind = "older" /\ calls[d].kind = "older" => c = d

ChatInv == /\ AreChatCalls(chatCall, messages) /\ messages \in Nat
           /\ shown \in Seq(Nat) /\ older.page \in Nat \ {0}
           /\ loaded /\ excuse = {} =>
                 \E a, b \in Nat : /\ Spans(messages, shown, older, a, b)
                                   /\ AllFit(chatCall, older, a, b)

LEMMA ChatFrame ==
    ASSUME NEW calls, NEW n, NEW s, NEW old, calls = chatCall', n = messages', s = shown',
           old = older', AreChatCalls(calls, n), n \in Nat,
           s \in Seq(Nat), old.page \in Nat \ {0},
           loaded' /\ excuse' = {} =>
               \E a, b \in Nat : Spans(n, s, old, a, b) /\ AllFit(calls, old, a, b)
    PROVE  ChatInv'
<1>1. AreChatCalls(chatCall, messages)'
  BY DEF AreChatCalls, IsChatCall
<1>2. ASSUME loaded', excuse' = {}
      PROVE  (\E a, b \in Nat : /\ Spans(messages, shown, older, a, b)
                                /\ AllFit(chatCall, older, a, b))'
  <2>1. PICK a \in Nat, b \in Nat : Spans(n, s, old, a, b) /\ AllFit(calls, old, a, b)
    BY <1>2
  <2>2. Spans(messages, shown, older, a, b)'
    BY <2>1 DEF Spans, Elements, Skip
  <2>3. AllFit(chatCall, older, a, b)'
    BY <2>1 DEF AllFit, Fits, Skip
  <2> QED
    BY <2>2, <2>3
<1> QED
  BY <1>1, <1>2 DEF ChatInv

LEMMA SkipFacts ==
    /\ PAGE_SIZE \in Nat \ {0} /\ Skip(0) = 0 /\ Skip(1) = PAGE_SIZE
    /\ \A p \in Nat : Skip(p) \in Nat /\ Skip(p + 1) = Skip(p) + PAGE_SIZE
BY ScreensAssumption DEF Skip

LEMMA BelowFacts ==
    ASSUME NEW n \in Nat, NEW p \in Nat
    PROVE  /\ Chat!Below(n, p) \in Nat /\ Chat!Below(n, p) <= n
           /\ n > Skip(p) => Chat!Below(n, p) = n - Skip(p)
           /\ n <= Skip(p) => Chat!Below(n, p) = 0
<1>1. PICK k : k = Skip(p)
  OBVIOUS
<1>2. k \in Nat
  BY <1>1, SkipFacts
<1>3. Chat!Below(n, p) = IF n > k THEN n - k ELSE 0
  BY <1>1 DEF Chat!Below, Skip
<1> QED
  BY <1>1, <1>2, <1>3

LEMMA RunElements ==
    ASSUME NEW i \in Nat \ {0}, NEW j \in Nat
    PROVE  Chat!Run(i, j) \in Seq(Nat) /\ Elements(Chat!Run(i, j)) = i..j
<1>1. PICK s : s = Chat!Run(i, j)
  OBVIOUS
<1>2. PICK m \in Nat : 1..m = 1..(j + 1 - i)
  <2>1. CASE j + 1 - i >= 0
    <3>1. j + 1 - i \in Nat
      BY <2>1
    <3> QED
      BY <3>1
  <2>2. CASE j + 1 - i < 0
    <3>1. 1..0 = 1..(j + 1 - i)
      BY <2>2
    <3> QED
      BY <3>1
  <2> QED
    BY <2>1, <2>2
<1>3. s = [k \in 1..m |-> i + k - 1]
  BY <1>1, <1>2 DEF Chat!Run
<1>4. \A k \in 1..m : i + k - 1 \in Nat
  OBVIOUS
<1>5. s \in Seq(Nat)
  BY <1>3, <1>4
<1>6. ASSUME NEW e \in i..j
      PROVE  e \in Elements(s)
  <2>1. e - i + 1 \in 1..(j + 1 - i) /\ i + (e - i + 1) - 1 = e
    OBVIOUS
  <2>2. e - i + 1 \in DOMAIN s /\ s[e - i + 1] = e
    BY <1>2, <1>3, <2>1
  <2> QED
    BY <2>2 DEF Elements
<1>7. ASSUME NEW k \in DOMAIN s
      PROVE  s[k] \in i..j
  <2>1. k \in 1..(j + 1 - i) /\ s[k] = i + k - 1
    BY <1>2, <1>3
  <2> QED
    BY <2>1
<1>8. Elements(s) = i..j
  BY <1>6, <1>7 DEF Elements
<1> QED
  BY <1>1, <1>5, <1>8

LEMMA ConcatElements ==
    ASSUME NEW s \in Seq(Nat), NEW t \in Seq(Nat)
    PROVE  s \o t \in Seq(Nat) /\ Elements(s \o t) = Elements(s) \cup Elements(t)
<1>1. PICK u : u = s \o t
  OBVIOUS
<1>2. /\ u \in Seq(Nat) /\ Len(u) = Len(s) + Len(t) /\ Len(s) \in Nat /\ Len(t) \in Nat
      /\ \A k \in 1..Len(s) : u[k] = s[k]
      /\ \A k \in 1..Len(t) : u[Len(s) + k] = t[k]
  BY <1>1
<1>3. /\ DOMAIN u = 1..Len(u) /\ DOMAIN s = 1..Len(s) /\ DOMAIN t = 1..Len(t)
  BY <1>2
<1>4. ASSUME NEW k \in DOMAIN u
      PROVE  u[k] \in Elements(s) \cup Elements(t)
  <2>1. CASE k \in 1..Len(s)
    BY <1>2, <1>3, <2>1 DEF Elements
  <2>2. CASE k \notin 1..Len(s)
    <3>1. k - Len(s) \in 1..Len(t) /\ Len(s) + (k - Len(s)) = k
      BY <1>2, <1>3, <2>2
    <3>2. u[k] = t[k - Len(s)]
      BY <1>2, <3>1
    <3> QED
      BY <1>3, <3>1, <3>2 DEF Elements
  <2> QED
    BY <2>1, <2>2
<1>5. ASSUME NEW k \in DOMAIN s
      PROVE  s[k] \in Elements(u)
  <2>1. k \in 1..Len(u) /\ u[k] = s[k]
    BY <1>2, <1>3
  <2> QED
    BY <1>3, <2>1 DEF Elements
<1>6. ASSUME NEW k \in DOMAIN t
      PROVE  t[k] \in Elements(u)
  <2>1. Len(s) + k \in 1..Len(u) /\ u[Len(s) + k] = t[k]
    BY <1>2, <1>3
  <2> QED
    BY <1>3, <2>1 DEF Elements
<1>7. Elements(u) = Elements(s) \cup Elements(t)
  BY <1>4, <1>5, <1>6 DEF Elements
<1> QED
  BY <1>1, <1>2, <1>7

LEMMA UnionOfRuns ==
    ASSUME NEW a \in Nat, NEW b \in Nat, NEW i \in Nat, NEW j \in Nat,
           a <= b + 1, i <= j + 1, i <= b + 1, a <= j + 1
    PROVE  a..b \cup i..j = (IF a < i THEN a ELSE i)..(IF b < j THEN j ELSE b)
OBVIOUS

LEMMA NewestIsNat ==
    ASSUME shown \in Seq(Nat)
    PROVE  Chat!Newest \in Nat
<1>1. CASE shown = <<>>
  BY <1>1 DEF Chat!Newest
<1>2. CASE shown # <<>>
  BY <1>2 DEF Chat!Newest, Chat!Last
<1> QED
  BY <1>1, <1>2

LEMMA NewestFits ==
    ASSUME NEW n, NEW a, NEW b, Spans(n, shown, older, a, b), shown \in Seq(Nat)
    PROVE  a <= Chat!Newest + 1 /\ Chat!Newest <= b
<1>1. CASE shown = <<>>
  <2>1. a..b = {}
    <3>1. DOMAIN shown = {}
      BY <1>1
    <3> QED
      BY <3>1 DEF Spans, Elements
  <2>2. a = 1 /\ b = 0
    BY <2>1 DEF Spans
  <2> QED
    BY <1>1, <2>2 DEF Chat!Newest
<1>2. CASE shown # <<>>
  <2>1. Len(shown) \in DOMAIN shown
    BY <1>2
  <2>2. shown[Len(shown)] \in a..b
    BY <2>1 DEF Spans, Elements
  <2>3. Chat!Newest = shown[Len(shown)]
    BY <1>2 DEF Chat!Newest, Chat!Last
  <2> QED
    BY <2>2, <2>3 DEF Spans
<1> QED
  BY <1>1, <1>2

WithChatCall(c, x) == [chatCall EXCEPT ![c] = x]

LEMMA ChatCallPut ==
    ASSUME AreChatCalls(chatCall, messages), messages \in Nat, NEW c \in HttpCalls,
           NEW n \in Nat, messages <= n, NEW x, IsChatCall(x, n),
           NEW calls, calls = WithChatCall(c, x)
    PROVE  /\ AreChatCalls(calls, n) /\ calls[c] = x
           /\ \A d \in HttpCalls : d # c => calls[d] = chatCall[d]
<1>1. /\ calls = [d \in HttpCalls |-> calls[d]] /\ calls[c] = x
      /\ \A d \in HttpCalls : d # c => calls[d] = chatCall[d]
  BY Zenon DEF AreChatCalls, WithChatCall
<1>2. ASSUME NEW d \in HttpCalls, d # c
      PROVE  IsChatCall(calls[d], n)
  <2>1. PICK y : y = chatCall[d]
    OBVIOUS
  <2>2. IsChatCall(y, messages)
    BY <2>1 DEF AreChatCalls
  <2>3. IsChatCall(y, n)
    BY <2>2 DEF IsChatCall
  <2> QED
    BY <1>1, <1>2, <2>1, <2>3
<1> QED
  BY <1>1, <1>2 DEF AreChatCalls

LEMMA NoChatCall ==
    ASSUME NEW n \in Nat
    PROVE  IsChatCall(Chat!NoCall, n) /\ Chat!NoCall.kind = "none"
<1>1. PICK x : x = Chat!NoCall
  OBVIOUS
<1>2. x = [kind |-> "none", pc |-> "idle", page |-> 0, newest |-> 0, total |-> 0, top |-> 0]
  BY <1>1 DEF Chat!NoCall
<1>3. /\ x.kind = "none" /\ x.pc = "idle" /\ x.page = 0 /\ x.newest = 0 /\ x.total = 0
      /\ x.top = 0
  BY <1>2
<1>4. IsChatCall(x, n)
  BY <1>2, <1>3 DEF IsChatCall
<1> QED
  BY <1>1, <1>3, <1>4

(* The screen grows around what the calls count on. *)
LEMMA FitsWider ==
    ASSUME NEW x, NEW n, IsChatCall(x, n), NEW old, NEW a \in Nat, NEW b \in Nat,
           Fits(x, old, a, b), NEW lo \in Nat, NEW hi \in Nat, lo <= a, b <= hi, old.page \in Nat \ {0}
    PROVE  Fits(x, old, lo, hi)
<1>1. x.kind = "older" => x.page - 1 \in Nat
  BY DEF Fits
<1>2. x.kind = "older" => Skip(x.page - 1) \in Nat
  BY <1>1, SkipFacts
<1> QED
  BY <1>2 DEF Fits, IsChatCall

LEMMA AllFitPut ==
    ASSUME AreChatCalls(chatCall, messages), NEW a \in Nat, NEW b \in Nat,
           AllFit(chatCall, older, a, b), older.page \in Nat \ {0},
           NEW lo \in Nat, NEW hi \in Nat, lo <= a, b <= hi,
           NEW c \in HttpCalls, NEW x, NEW calls, calls[c] = x,
           \A d \in HttpCalls : d # c => calls[d] = chatCall[d],
           Fits(x, older, lo, hi),
           x.kind = "older" => \/ chatCall[c].kind = "older"
                               \/ \A d \in HttpCalls : chatCall[d].kind # "older"
    PROVE  AllFit(calls, older, lo, hi)
<1>1. ASSUME NEW d \in HttpCalls, d # c
      PROVE  Fits(calls[d], older, lo, hi)
  <2>1. PICK y : y = chatCall[d]
    OBVIOUS
  <2>2. IsChatCall(y, messages) /\ Fits(y, older, a, b)
    BY <2>1 DEF AreChatCalls, AllFit
  <2>3. Fits(y, older, lo, hi)
    BY <2>2, FitsWider
  <2> QED
    BY <1>1, <2>1, <2>3
<1> QED
  BY <1>1 DEF AllFit

LEMMA ChatInit ==
    ASSUME Chat!Init
    PROVE  ChatInv
<1>1. PICK x : x = Chat!NoCall
  OBVIOUS
<1>2. /\ chatCall = [c \in HttpCalls |-> x] /\ messages = 0 /\ loaded = FALSE
      /\ shown = <<>> /\ older = [more |-> FALSE, page |-> 2]
  BY <1>1 DEF Chat!Init
<1>3. IsChatCall(x, 0)
  BY <1>1, NoChatCall
<1>4. shown \in Seq(Nat) /\ older.page = 2
  BY <1>2
<1> QED
  BY <1>2, <1>3, <1>4 DEF ChatInv, AreChatCalls

LEMMA ChatStarts ==
    ASSUME ChatInv, NEW c \in HttpCalls, NEW kind \in {"initial", "older", "poll", "send"},
           NEW page \in Nat, NEW newest \in Nat, Chat!Start(c, kind, page, newest),
           UNCHANGED <<messages, shown, older, loaded, excuse>>,
           kind = "initial" => page = 1,
           kind = "older" => /\ page = older.page /\ older.more
                             /\ \A d \in HttpCalls : chatCall[d].kind # "older",
           kind = "poll" => newest = Chat!Newest
    PROVE  ChatInv'
<1>1. PICK pc : pc = IF kind = "poll" THEN "list" ELSE "sent"
  OBVIOUS
<1>2. PICK x : x = [Chat!NoCall EXCEPT !.kind = kind, !.pc = pc, !.page = page,
                                       !.newest = newest]
  OBVIOUS
<1>3. x = [kind |-> kind, pc |-> pc, page |-> page, newest |-> newest, total |-> 0, top |-> 0]
  BY <1>2 DEF Chat!NoCall
<1>4. /\ x.kind = kind /\ x.pc = pc /\ x.page = page /\ x.newest = newest /\ x.total = 0
      /\ x.top = 0 /\ pc # "reply" /\ (kind = "send" => pc = "sent")
  BY <1>1, <1>3
<1>5. AreChatCalls(chatCall, messages) /\ messages \in Nat
  BY DEF ChatInv
<1>6. IsChatCall(x, messages)
  <2>1. kind = "older" => page # 0
    BY DEF ChatInv
  <2> QED
    BY <1>3, <1>4, <1>5, <2>1 DEF IsChatCall
<1>7. PICK calls : calls = chatCall'
  OBVIOUS
<1>8. calls = WithChatCall(c, x)
  BY <1>1, <1>2, <1>7 DEF Chat!Start, WithChatCall
<1>9. messages <= messages
  BY <1>5
<1>10. /\ AreChatCalls(calls, messages) /\ calls[c] = x
       /\ \A d \in HttpCalls : d # c => calls[d] = chatCall[d]
  BY <1>5, <1>6, <1>8, <1>9, ChatCallPut
<1>11. ASSUME loaded, excuse = {}
       PROVE  \E a, b \in Nat : Spans(messages, shown, older, a, b)
                                /\ AllFit(calls, older, a, b)
  <2>1. PICK a \in Nat, b \in Nat : /\ Spans(messages, shown, older, a, b)
                                    /\ AllFit(chatCall, older, a, b)
    BY <1>11 DEF ChatInv
  <2>2. a <= Chat!Newest + 1 /\ Chat!Newest <= b
    BY <2>1, NewestFits DEF ChatInv
  <2>3. Fits(x, older, a, b)
    BY <1>4, <2>2 DEF Fits
  <2>4. a <= a /\ b <= b /\ older.page \in Nat \ {0}
    BY <2>1 DEF ChatInv
  <2>5. x.kind = "older" => \A d \in HttpCalls : chatCall[d].kind # "older"
    BY <1>4
  <2>6. AllFit(calls, older, a, b)
    BY <1>5, <1>10, <2>1, <2>3, <2>4, <2>5, AllFitPut
  <2> QED
    BY <2>1, <2>6
<1>12. shown \in Seq(Nat) /\ older.page \in Nat \ {0}
  BY DEF ChatInv
<1> QED
  BY <1>5, <1>7, <1>10, <1>11, <1>12, ChatFrame

LEMMA ChatAsks ==
    ASSUME ChatInv, NEW c \in HttpCalls,
           Chat!LoadInitial(c) \/ Chat!LoadOlder(c) \/ Chat!Poll(c) \/ Chat!HandleSend(c)
    PROVE  ChatInv'
<1>1. older.page \in Nat
  BY DEF ChatInv
<1>2. Chat!Newest \in Nat
  <2>1. CASE shown = <<>>
    BY <2>1 DEF Chat!Newest
  <2>2. CASE shown # <<>>
    BY <2>2 DEF Chat!Newest, Chat!Last, ChatInv
  <2> QED
    BY <2>1, <2>2
<1>3. CASE Chat!LoadInitial(c)
  BY <1>3, ChatStarts DEF Chat!LoadInitial
<1>4. CASE Chat!LoadOlder(c)
  <2>1. \A d \in HttpCalls : chatCall[d].kind # "older"
    BY <1>4 DEF Chat!LoadOlder, Chat!Running
  <2> QED
    BY <1>1, <1>4, <2>1, ChatStarts DEF Chat!LoadOlder
<1>5. CASE Chat!Poll(c)
  BY <1>2, <1>5, ChatStarts DEF Chat!Poll
<1>6. CASE Chat!HandleSend(c)
  BY <1>6, ChatStarts DEF Chat!HandleSend
<1> QED
  BY <1>3, <1>4, <1>5, <1>6

(* The history grows: what was below a page still is. *)
LEMMA SpansLater ==
    ASSUME NEW n \in Nat, NEW m \in Nat, n <= m, NEW a \in Nat, NEW b \in Nat,
           NEW s, NEW old, old.page \in Nat \ {0}, Spans(n, s, old, a, b)
    PROVE  Spans(m, s, old, a, b)
<1>1. old.page - 1 \in Nat
  OBVIOUS
<1>2. Skip(old.page - 1) \in Nat
  BY <1>1, SkipFacts
<1> QED
  BY <1>2 DEF Spans

LEMMA ChatPeerPosts ==
    ASSUME ChatInv, Chat!PeerPosts
    PROVE  ChatInv'
<1>1. PICK n : n = messages'
  OBVIOUS
<1>2. /\ n = messages + 1 /\ messages \in Nat /\ n \in Nat /\ messages <= n
      /\ UNCHANGED <<chatCall, shown, older, loaded, excuse>>
  BY <1>1 DEF Chat!PeerPosts, ChatInv
<1>3. AreChatCalls(chatCall, n)
  <2>1. ASSUME NEW c \in HttpCalls
        PROVE  IsChatCall(chatCall[c], n)
    <3>1. PICK y : y = chatCall[c]
      OBVIOUS
    <3>2. IsChatCall(y, messages)
      BY <3>1 DEF ChatInv, AreChatCalls
    <3> QED
      BY <1>2, <3>1, <3>2 DEF IsChatCall
  <2> QED
    BY <2>1 DEF AreChatCalls, ChatInv
<1>4. ASSUME loaded, excuse = {}
      PROVE  \E a, b \in Nat : Spans(n, shown, older, a, b) /\ AllFit(chatCall, older, a, b)
  <2>1. PICK a \in Nat, b \in Nat : /\ Spans(messages, shown, older, a, b)
                                    /\ AllFit(chatCall, older, a, b)
    BY <1>4 DEF ChatInv
  <2>2. Spans(n, shown, older, a, b)
    BY <1>2, <2>1, SpansLater DEF ChatInv
  <2> QED
    BY <2>1, <2>2
<1>5. shown \in Seq(Nat) /\ older.page \in Nat \ {0}
  BY DEF ChatInv
<1> QED
  BY <1>1, <1>2, <1>3, <1>4, <1>5, ChatFrame

LEMMA ChatServes ==
    ASSUME ChatInv, NEW c \in HttpCalls, Chat!Post(c) \/ Chat!Count(c) \/ Chat!List(c)
    PROVE  ChatInv'
<1>1. PICK y : y = chatCall[c]
  OBVIOUS
<1>2. IsChatCall(y, messages) /\ messages \in Nat /\ AreChatCalls(chatCall, messages)
  BY <1>1 DEF ChatInv, AreChatCalls
<1>3. PICK n : n = messages'
  OBVIOUS
<1>4. UNCHANGED <<shown, older, loaded, excuse>>
  BY DEF Chat!Post, Chat!Count, Chat!List
<1>5. PICK x : /\ x = [kind |-> y.kind, pc |-> x.pc, page |-> y.page, newest |-> y.newest,
                       total |-> x.total, top |-> x.top]
               /\ chatCall' = WithChatCall(c, x)
               /\ \/ /\ y.kind = "send" /\ x.pc = "reply" /\ x.total = y.total
                     /\ x.top = messages + 1 /\ n = messages + 1
                  \/ /\ y.kind # "send" /\ x.pc = "list" /\ x.total = messages
                     /\ x.top = y.top /\ n = messages
                  \/ /\ y.kind # "send" /\ x.pc = "reply" /\ x.total = y.total
                     /\ x.top = messages /\ n = messages
  <2>1. CASE Chat!Post(c)
    <3>1. PICK x : x = [y EXCEPT !.pc = "reply", !.top = messages + 1]
      OBVIOUS
    <3>2. x = [kind |-> y.kind, pc |-> "reply", page |-> y.page, newest |-> y.newest,
               total |-> y.total, top |-> messages + 1]
      BY <1>2, <3>1 DEF IsChatCall
    <3>3. chatCall' = WithChatCall(c, x)
      BY <1>1, <1>2, <2>1, <3>1 DEF Chat!Post, WithChatCall, AreChatCalls
    <3>4. y.kind = "send" /\ n = messages + 1
      BY <1>1, <1>3, <2>1 DEF Chat!Post
    <3>5. x.pc = "reply" /\ x.total = y.total /\ x.top = messages + 1
      BY <3>2
    <3> QED
      BY <3>2, <3>3, <3>4, <3>5
  <2>2. CASE Chat!Count(c)
    <3>1. PICK x : x = [y EXCEPT !.pc = "list", !.total = messages]
      OBVIOUS
    <3>2. x = [kind |-> y.kind, pc |-> "list", page |-> y.page, newest |-> y.newest,
               total |-> messages, top |-> y.top]
      BY <1>2, <3>1 DEF IsChatCall
    <3>3. chatCall' = WithChatCall(c, x)
      BY <1>1, <1>2, <2>2, <3>1 DEF Chat!Count, WithChatCall, AreChatCalls
    <3>4. y.kind # "send" /\ n = messages
      BY <1>1, <1>3, <2>2 DEF Chat!Count
    <3>5. x.pc = "list" /\ x.total = messages /\ x.top = y.top
      BY <3>2
    <3> QED
      BY <3>2, <3>3, <3>4, <3>5
  <2>3. CASE Chat!List(c)
    <3>1. PICK x : x = [y EXCEPT !.pc = "reply", !.top = messages]
      OBVIOUS
    <3>2. x = [kind |-> y.kind, pc |-> "reply", page |-> y.page, newest |-> y.newest,
               total |-> y.total, top |-> messages]
      BY <1>2, <3>1 DEF IsChatCall
    <3>3. chatCall' = WithChatCall(c, x)
      BY <1>1, <1>2, <2>3, <3>1 DEF Chat!List, WithChatCall, AreChatCalls
    <3>4. y.kind # "send" /\ n = messages
      BY <1>1, <1>2, <1>3, <2>3 DEF Chat!List, IsChatCall
    <3>5. x.pc = "reply" /\ x.total = y.total /\ x.top = messages
      BY <3>2
    <3> QED
      BY <3>2, <3>3, <3>4, <3>5
  <2> QED
    BY <2>1, <2>2, <2>3
<1>6. x.kind = y.kind /\ x.page = y.page /\ x.newest = y.newest
  BY <1>5
<1>7. n \in Nat /\ messages <= n /\ IsChatCall(x, n)
  BY <1>2, <1>5, <1>6 DEF IsChatCall
<1>8. PICK calls : calls = chatCall'
  OBVIOUS
<1>9. /\ AreChatCalls(calls, n) /\ calls[c] = x
      /\ \A d \in HttpCalls : d # c => calls[d] = chatCall[d]
  <2>1. calls = WithChatCall(c, x)
    BY <1>5, <1>8
  <2> QED
    BY <1>2, <1>7, <2>1, ChatCallPut
<1>10. ASSUME loaded, excuse = {}
       PROVE  \E a, b \in Nat : Spans(n, shown, older, a, b) /\ AllFit(calls, older, a, b)
  <2>1. PICK a \in Nat, b \in Nat : /\ Spans(messages, shown, older, a, b)
                                    /\ AllFit(chatCall, older, a, b)
    BY <1>10 DEF ChatInv
  <2>2. Spans(n, shown, older, a, b)
    BY <1>2, <1>7, <2>1, SpansLater DEF ChatInv
  <2>3. Fits(y, older, a, b)
    BY <1>1, <2>1 DEF AllFit
  <2>4. Fits(x, older, a, b)
    <3>1. y.kind = "older" => a + Skip(y.page - 1) <= messages + 1
      BY <2>1, <2>3 DEF Fits, Spans
    <3>2. a <= messages + 1
      BY <1>2, <2>1 DEF Spans
    <3>3. CASE y.kind = "older"
      BY <1>5, <1>6, <2>3, <3>1, <3>3 DEF Fits
    <3>4. CASE y.kind = "send"
      BY <1>2, <1>5, <1>6, <2>1, <2>3, <3>2, <3>4 DEF Fits, Spans
    <3>5. CASE y.kind \notin {"older", "send"}
      BY <1>6, <2>3, <3>5 DEF Fits
    <3> QED
      BY <3>3, <3>4, <3>5
  <2>5. a <= a /\ b <= b /\ older.page \in Nat \ {0}
    BY DEF ChatInv
  <2>6. x.kind = "older" => chatCall[c].kind = "older"
    BY <1>1, <1>6
  <2>7. AllFit(calls, older, a, b)
    BY <1>2, <1>9, <2>1, <2>4, <2>5, <2>6, AllFitPut
  <2> QED
    BY <2>2, <2>7
<1>11. shown \in Seq(Nat) /\ older.page \in Nat \ {0}
  BY DEF ChatInv
<1> QED
  BY <1>3, <1>4, <1>7, <1>8, <1>9, <1>10, <1>11, ChatFrame

(* A call is over. *)
LEMMA ChatCallOver ==
    ASSUME ChatInv, NEW c \in HttpCalls,
           NEW calls, calls = WithChatCall(c, Chat!NoCall)
    PROVE  /\ AreChatCalls(calls, messages) /\ calls[c].kind = "none"
           /\ \A d \in HttpCalls : d # c => calls[d] = chatCall[d]
<1>1. PICK x : x = Chat!NoCall
  OBVIOUS
<1>2. calls = WithChatCall(c, x)
  BY <1>1
<1>3. messages \in Nat /\ AreChatCalls(chatCall, messages)
  BY DEF ChatInv
<1>4. IsChatCall(x, messages) /\ x.kind = "none"
  BY <1>1, <1>3, NoChatCall
<1>5. /\ AreChatCalls(calls, messages) /\ calls[c] = x
      /\ \A d \in HttpCalls : d # c => calls[d] = chatCall[d]
  <2>1. messages <= messages
    BY <1>3
  <2>2. IsChatCall(x, messages)
    BY <1>4
  <2> QED
    BY <1>2, <1>3, <2>1, <2>2, ChatCallPut
<1> QED
  BY <1>4, <1>5

LEMMA AllFitOver ==
    ASSUME ChatInv, NEW c \in HttpCalls, NEW calls, calls[c].kind = "none",
           \A d \in HttpCalls : d # c => calls[d] = chatCall[d],
           NEW a \in Nat, NEW b \in Nat, AllFit(chatCall, older, a, b),
           NEW lo \in Nat, NEW hi \in Nat, lo <= a, b <= hi
    PROVE  AllFit(calls, older, lo, hi)
<1>1. PICK x : x = calls[c]
  OBVIOUS
<1>2. Fits(x, older, lo, hi) /\ x.kind # "older"
  BY <1>1 DEF Fits
<1> QED
  BY <1>1, <1>2, AllFitPut DEF ChatInv

LEMMA ChatNoReply ==
    ASSUME ChatInv, NEW c \in HttpCalls, Chat!NoReply(c)
    PROVE  ChatInv'
<1>1. PICK calls : calls = chatCall'
  OBVIOUS
<1>2. UNCHANGED <<messages, shown, older, loaded, excuse>>
  BY DEF Chat!NoReply
<1>3. /\ AreChatCalls(calls, messages) /\ calls[c].kind = "none"
      /\ \A d \in HttpCalls : d # c => calls[d] = chatCall[d]
  <2>1. calls = WithChatCall(c, Chat!NoCall)
    BY <1>1 DEF Chat!NoReply, WithChatCall
  <2> QED
    BY <2>1, ChatCallOver
<1>4. ASSUME loaded, excuse = {}
      PROVE  \E a, b \in Nat : /\ Spans(messages, shown, older, a, b)
                               /\ AllFit(calls, older, a, b)
  <2>1. PICK a \in Nat, b \in Nat : /\ Spans(messages, shown, older, a, b)
                                    /\ AllFit(chatCall, older, a, b)
    BY <1>4 DEF ChatInv
  <2>2. AllFit(calls, older, a, b)
    BY <1>3, <2>1, AllFitOver
  <2> QED
    BY <2>1, <2>2
<1>5. shown \in Seq(Nat) /\ older.page \in Nat \ {0} /\ messages \in Nat
  BY DEF ChatInv
<1> QED
  BY <1>1, <1>2, <1>3, <1>4, <1>5, ChatFrame

LEMMA PageElements ==
    ASSUME NEW n \in Nat, NEW p \in Nat \ {0}
    PROVE  /\ Chat!Page(n, p) \in Seq(Nat)
           /\ Elements(Chat!Page(n, p)) = (Chat!Below(n, p) + 1)..Chat!Below(n, p - 1)
<1>1. p \in Nat /\ p - 1 \in Nat
  OBVIOUS
<1>2. Chat!Below(n, p) \in Nat /\ Chat!Below(n, p - 1) \in Nat
  BY <1>1, BelowFacts
<1>3. PICK i \in Nat \ {0}, j \in Nat : i = Chat!Below(n, p) + 1 /\ j = Chat!Below(n, p - 1)
  BY <1>2
<1>4. Chat!Run(i, j) \in Seq(Nat) /\ Elements(Chat!Run(i, j)) = i..j
  BY RunElements
<1> QED
  BY <1>3, <1>4 DEF Chat!Page

LEMMA ChatInitialReply ==
    ASSUME ChatInv, NEW c \in HttpCalls, Chat!InitialReply(c)
    PROVE  ChatInv'
<1>1. PICK calls, s, old : calls = chatCall' /\ s = shown' /\ old = older'
  OBVIOUS
<1>2. PICK y : y = chatCall[c]
  OBVIOUS
<1>3. /\ AreChatCalls(calls, messages) /\ calls[c].kind = "none"
      /\ \A d \in HttpCalls : d # c => calls[d] = chatCall[d]
  <2>1. calls = WithChatCall(c, Chat!NoCall)
    BY <1>1 DEF Chat!InitialReply, WithChatCall
  <2> QED
    BY <2>1, ChatCallOver
<1>4. /\ y.kind = "initial" /\ y.pc = "reply" /\ s = Chat!Page(y.top, 1)
      /\ old = [more |-> Chat!HasMore(y), page |-> 2] /\ messages' = messages
      /\ excuse' = (excuse \cup Chat!Torn(y))
                       \cup IF \E d \in HttpCalls \ {c} : chatCall[d].kind # "none"
                            THEN {"reloaded"} ELSE {}
  BY <1>1, <1>2 DEF Chat!InitialReply, Chat!Answered
<1>5. /\ y.top \in Nat /\ y.total \in Nat /\ y.page = 1 /\ y.total <= y.top
      /\ y.top <= messages /\ messages \in Nat
  BY <1>2, <1>4 DEF ChatInv, AreChatCalls, IsChatCall
<1>6. old.page = 2 /\ (old.more <=> y.total > Skip(1))
  BY <1>4, <1>5 DEF Chat!HasMore, Skip
<1>7. /\ s \in Seq(Nat)
      /\ Elements(s) = (Chat!Below(y.top, 1) + 1)..Chat!Below(y.top, 0)
  <2>1. PICK p \in Nat \ {0} : p = 1
    OBVIOUS
  <2>2. PICK n \in Nat : n = y.top
    BY <1>5
  <2>3. /\ Chat!Page(n, p) \in Seq(Nat)
        /\ Elements(Chat!Page(n, p)) = (Chat!Below(n, p) + 1)..Chat!Below(n, p - 1)
    BY PageElements
  <2>4. p - 1 = 0
    BY <2>1
  <2>5. s = Chat!Page(n, p)
    BY <1>4, <2>1, <2>2
  <2>6. (Chat!Below(n, p) + 1)..Chat!Below(n, p - 1)
            = (Chat!Below(y.top, 1) + 1)..Chat!Below(y.top, 0)
    BY <2>1, <2>2, <2>4
  <2> QED
    BY <2>3, <2>5, <2>6
<1>8. ASSUME excuse' = {}
      PROVE  \E a, b \in Nat : Spans(messages, s, old, a, b) /\ AllFit(calls, old, a, b)
  <2>1. y.total = y.top
    BY <1>4, <1>5, <1>8 DEF Chat!Torn
  <2>2. \A d \in HttpCalls : d # c => chatCall[d].kind = "none"
    BY <1>4, <1>8
  <2>9. /\ Chat!Below(y.top, 1) \in Nat /\ Chat!Below(y.top, 1) <= y.top
        /\ y.top > Skip(1) => Chat!Below(y.top, 1) = y.top - Skip(1)
        /\ y.top <= Skip(1) => Chat!Below(y.top, 1) = 0
    <3>1. 1 \in Nat /\ y.top \in Nat
      BY <1>5
    <3> QED
      BY <3>1, BelowFacts
  <2>10. /\ Chat!Below(y.top, 0) \in Nat
         /\ y.top > Skip(0) => Chat!Below(y.top, 0) = y.top - Skip(0)
         /\ y.top <= Skip(0) => Chat!Below(y.top, 0) = 0
    <3>1. 0 \in Nat /\ y.top \in Nat
      BY <1>5
    <3> QED
      BY <3>1, BelowFacts
  <2>3. PICK a \in Nat \ {0}, b \in Nat :
           a = Chat!Below(y.top, 1) + 1 /\ b = Chat!Below(y.top, 0)
    BY <2>9, <2>10
  <2>11. Skip(0) = 0 /\ Skip(1) = PAGE_SIZE /\ PAGE_SIZE \in Nat \ {0}
    BY SkipFacts
  <2>12. b = y.top
    BY <1>5, <2>3, <2>10, <2>11
  <2>13. y.top > PAGE_SIZE => a + PAGE_SIZE = y.top + 1
    BY <1>5, <2>3, <2>9, <2>11
  <2>4. b = y.top /\ (y.top > PAGE_SIZE => a + PAGE_SIZE = y.top + 1)
                  /\ (y.top <= PAGE_SIZE => a = 1)
    BY <1>5, <2>3, <2>9, <2>11, <2>12, <2>13
  <2>5. old.more <=> y.top > PAGE_SIZE
    BY <1>6, <2>1, SkipFacts
  <2>6. Skip(old.page - 1) = PAGE_SIZE
    BY <1>6, SkipFacts
  <2>7. Spans(messages, s, old, a, b)
    <3>1. Elements(s) = a..b
      BY <1>7, <2>3
    <3>2. PAGE_SIZE \in Nat \ {0}
      BY SkipFacts
    <3>3. a <= b \/ (a = 1 /\ b = 0)
      BY <1>5, <2>4, <3>2
    <3> QED
      BY <1>5, <2>4, <2>5, <2>6, <3>1, <3>2, <3>3 DEF Spans
  <2>8. AllFit(calls, old, a, b)
    BY <1>3, <2>2 DEF AllFit, Fits
  <2> QED
    BY <2>7, <2>8
<1>9. /\ AreChatCalls(calls, messages) /\ messages \in Nat /\ s \in Seq(Nat)
      /\ old.page \in Nat \ {0}
  BY <1>3, <1>5, <1>6, <1>7
<1>10. loaded' /\ excuse' = {} =>
          \E a, b \in Nat : Spans(messages, s, old, a, b) /\ AllFit(calls, old, a, b)
  BY <1>8
<1>11. messages = messages'
  BY <1>4
<1> QED
  BY <1>1, <1>9, <1>10, <1>11, ChatFrame

LEMMA ChatOlderReply ==
    ASSUME ChatInv, NEW c \in HttpCalls, Chat!OlderReply(c)
    PROVE  ChatInv'
<1>1. PICK calls, s, old : calls = chatCall' /\ s = shown' /\ old = older'
  OBVIOUS
<1>2. PICK y : y = chatCall[c]
  OBVIOUS
<1>3. /\ AreChatCalls(calls, messages) /\ calls[c].kind = "none"
      /\ \A d \in HttpCalls : d # c => calls[d] = chatCall[d]
  <2>1. calls = WithChatCall(c, Chat!NoCall)
    BY <1>1 DEF Chat!OlderReply, WithChatCall
  <2> QED
    BY <2>1, ChatCallOver
<1>4. /\ y.kind = "older" /\ y.pc = "reply" /\ s = Chat!Page(y.top, y.page) \o shown
      /\ old = [more |-> Chat!HasMore(y), page |-> older.page + 1]
      /\ messages' = messages /\ loaded' = loaded
      /\ excuse' = (excuse \cup Chat!Torn(y))
                       \cup Chat!Burst(Chat!Below(y.top, y.page), Chat!Newest)
  BY <1>1, <1>2 DEF Chat!OlderReply, Chat!Answered
<1>5. /\ y.top \in Nat /\ y.total \in Nat /\ y.page \in Nat \ {0} /\ y.total <= y.top
      /\ y.top <= messages /\ messages \in Nat
  BY <1>2, <1>4 DEF ChatInv, AreChatCalls, IsChatCall
<1>6. old.page = older.page + 1 /\ (old.more <=> y.total > Skip(y.page))
  BY <1>4, <1>5 DEF Chat!HasMore, Skip
<1>7. older.page \in Nat \ {0} /\ shown \in Seq(Nat)
  BY DEF ChatInv
<1>8. PICK i \in Nat \ {0}, j \in Nat :
         /\ i = Chat!Below(y.top, y.page) + 1 /\ j = Chat!Below(y.top, y.page - 1)
         /\ (y.top > Skip(y.page) => i + Skip(y.page) = y.top + 1)
         /\ (y.top <= Skip(y.page) => i = 1)
         /\ (y.top > Skip(y.page - 1) => j + Skip(y.page - 1) = y.top)
         /\ (y.top <= Skip(y.page - 1) => j = 0)
         /\ Skip(y.page) = Skip(y.page - 1) + PAGE_SIZE
         /\ Skip(y.page) \in Nat /\ Skip(y.page - 1) \in Nat
  <2>1. PICK q \in Nat : q = y.page - 1 /\ q + 1 = y.page
    BY <1>5
  <2>2. Skip(q) \in Nat /\ Skip(q + 1) = Skip(q) + PAGE_SIZE /\ PAGE_SIZE \in Nat
    BY SkipFacts
  <2>3. /\ Chat!Below(y.top, y.page) \in Nat
        /\ y.top > Skip(y.page) => Chat!Below(y.top, y.page) = y.top - Skip(y.page)
        /\ y.top <= Skip(y.page) => Chat!Below(y.top, y.page) = 0
    BY <1>5, BelowFacts
  <2>4. /\ Chat!Below(y.top, q) \in Nat
        /\ y.top > Skip(q) => Chat!Below(y.top, q) = y.top - Skip(q)
        /\ y.top <= Skip(q) => Chat!Below(y.top, q) = 0
    BY <1>5, BelowFacts
  <2>5. Chat!Below(y.top, y.page) + 1 \in Nat \ {0}
    BY <2>3
  <2>6. Skip(y.page) = Skip(q) + PAGE_SIZE /\ Skip(y.page) \in Nat
    BY <2>1, <2>2
  <2> QED
    BY <1>5, <2>1, <2>2, <2>3, <2>4, <2>5, <2>6
<1>9. PAGE_SIZE \in Nat \ {0}
  BY SkipFacts
<1>10. s \in Seq(Nat) /\ Elements(s) = i..j \cup Elements(shown)
  <2>1. /\ Chat!Page(y.top, y.page) \in Seq(Nat)
        /\ Elements(Chat!Page(y.top, y.page)) = i..j
    BY <1>5, <1>8, PageElements
  <2> QED
    BY <1>4, <1>7, <2>1, ConcatElements
<1>11. ASSUME loaded, excuse' = {}
       PROVE  \E a, b \in Nat : Spans(messages, s, old, a, b) /\ AllFit(calls, old, a, b)
  <2>1. PICK a \in Nat, b \in Nat : /\ Spans(messages, shown, older, a, b)
                                    /\ AllFit(chatCall, older, a, b)
    BY <1>4, <1>11 DEF ChatInv
  <2>2. y.total = y.top /\ i - 1 <= Chat!Newest
    <3>1. ~ (y.top > y.total)
      BY <1>4, <1>11 DEF Chat!Torn
    <3>2. Chat!Below(y.top, y.page) = i - 1 /\ i - 1 \in Nat
      <4>1. Chat!Below(y.top, y.page) \in Nat
        BY <1>5, BelowFacts
      <4> QED
        BY <1>8, <4>1
    <3>4. ~ (i - 1 > Chat!Newest)
      BY <1>4, <1>11, <3>2 DEF Chat!Burst
    <3>3. Chat!Newest \in Nat
      BY <1>7, NewestIsNat
    <3> QED
      BY <1>5, <3>1, <3>2, <3>3, <3>4
  <2>3. a <= Chat!Newest + 1 /\ Chat!Newest <= b
    BY <1>7, <2>1, NewestFits
  <2>4. i <= b + 1
    <3>1. Chat!Newest \in Nat
      BY <1>7, NewestIsNat
    <3> QED
      BY <2>2, <2>3, <3>1
  <2>5. Fits(y, older, a, b)
    BY <1>2, <2>1 DEF AllFit
  <2>6. y.page = older.page /\ older.more /\ a + Skip(y.page - 1) <= y.top + 1
    BY <1>4, <2>5 DEF Fits
  <2>7. a <= b /\ b <= messages /\ Elements(shown) = a..b /\ a # 0
    BY <2>1, <2>6 DEF Spans
  <2>8. a <= j + 1 /\ i <= j + 1 /\ j <= messages
    BY <1>5, <1>8, <1>9, <2>6
  <2>9. PICK lo \in Nat, hi \in Nat : /\ lo = IF a < i THEN a ELSE i
                                      /\ hi = IF b < j THEN j ELSE b
    OBVIOUS
  <2>10. Elements(s) = lo..hi
    <3>1. a..b \cup i..j = (IF a < i THEN a ELSE i)..(IF b < j THEN j ELSE b)
      BY <2>4, <2>7, <2>8, UnionOfRuns
    <3> QED
      BY <1>10, <2>7, <2>9, <3>1
  <2>11. lo # 0 /\ lo <= a /\ lo <= i /\ b <= hi /\ lo <= hi /\ hi <= messages
    BY <1>5, <2>7, <2>8, <2>9
  <2>12. old.page - 1 = y.page
    BY <1>5, <1>6, <1>7, <2>6
  <2>13. old.more => lo + Skip(old.page - 1) <= messages + 1
    BY <1>5, <1>6, <1>8, <2>2, <2>11, <2>12
  <2>14. ~ old.more => lo = 1
    BY <1>5, <1>6, <1>8, <2>2, <2>11
  <2>15. Spans(messages, s, old, lo, hi)
    BY <2>10, <2>11, <2>13, <2>14 DEF Spans
  <2>16. \A d \in HttpCalls : d # c => chatCall[d].kind # "older"
    BY <1>2, <1>4, <2>1 DEF AllFit
  <2>17. AllFit(calls, older, lo, hi)
    BY <1>3, <2>1, <2>11, AllFitOver
  <2>18. \A d \in HttpCalls : calls[d].kind # "older"
    BY <1>3, <2>16
  <2>19. AllFit(calls, old, lo, hi)
    BY <2>17, <2>18 DEF AllFit, Fits
  <2> QED
    BY <2>15, <2>19
<1>12. old.page \in Nat \ {0}
  BY <1>6, <1>7
<1>13. loaded' /\ excuse' = {} =>
          \E a, b \in Nat : Spans(messages, s, old, a, b) /\ AllFit(calls, old, a, b)
  BY <1>4, <1>11
<1>14. messages = messages'
  BY <1>4
<1> QED
  BY <1>1, <1>3, <1>5, <1>10, <1>12, <1>13, <1>14, ChatFrame

(* What comes after the newest, a poll's page or one's own message. *)
LEMMA ChatGrows ==
    ASSUME ChatInv, NEW c \in HttpCalls, NEW calls, AreChatCalls(calls, messages),
           calls[c].kind = "none", \A d \in HttpCalls : d # c => calls[d] = chatCall[d],
           NEW s \in Seq(Nat), NEW i \in Nat, NEW j \in Nat,
           Elements(s) = Elements(shown) \cup i..j, j <= messages,
           NEW a \in Nat, NEW b \in Nat, Spans(messages, shown, older, a, b),
           AllFit(chatCall, older, a, b), a <= i, i <= b + 1, i <= j \/ j <= b
    PROVE  \E lo, hi \in Nat : Spans(messages, s, older, lo, hi) /\ AllFit(calls, older, lo, hi)
<1>1. PICK hi \in Nat : hi = IF b < j THEN j ELSE b
  OBVIOUS
<1>2. Elements(shown) = a..b /\ b <= messages /\ a # 0 /\ messages \in Nat /\ a <= b + 1
  BY DEF Spans, ChatInv
<1>3. Elements(s) = a..hi
  BY <1>1, <1>2
<1>4. Spans(messages, s, older, a, hi)
  BY <1>1, <1>2, <1>3 DEF Spans
<1>5. a <= a /\ b <= hi
  BY <1>1
<1>6. AllFit(calls, older, a, hi)
  BY <1>5, AllFitOver
<1> QED
  BY <1>4, <1>6

LEMMA ChatPollReply ==
    ASSUME ChatInv, NEW c \in HttpCalls, Chat!PollReply(c)
    PROVE  ChatInv'
<1>1. PICK calls, s : calls = chatCall' /\ s = shown'
  OBVIOUS
<1>2. PICK y : y = chatCall[c]
  OBVIOUS
<1>3. /\ AreChatCalls(calls, messages) /\ calls[c].kind = "none"
      /\ \A d \in HttpCalls : d # c => calls[d] = chatCall[d]
  <2>1. calls = WithChatCall(c, Chat!NoCall)
    BY <1>1 DEF Chat!PollReply, WithChatCall
  <2> QED
    BY <2>1, ChatCallOver
<1>4. PICK below : below = Chat!Below(y.top, 1)
  OBVIOUS
<1>5. /\ y.kind = "poll"
      /\ s = shown \o Chat!Run((IF below > y.newest THEN below ELSE y.newest) + 1, y.top)
      /\ messages' = messages /\ loaded' = loaded /\ older' = older
      /\ excuse' = excuse \cup Chat!Burst(below, y.newest)
  BY <1>1, <1>2, <1>4 DEF Chat!PollReply, Chat!Answered
<1>6. y.top \in Nat /\ y.newest \in Nat /\ y.top <= messages /\ messages \in Nat
  BY <1>2 DEF ChatInv, AreChatCalls, IsChatCall
<1>7. below \in Nat
  BY <1>4, <1>6, BelowFacts
<1>8. older.page \in Nat \ {0} /\ shown \in Seq(Nat)
  BY DEF ChatInv
<1>9. PICK i \in Nat \ {0} : i = (IF below > y.newest THEN below ELSE y.newest) + 1
  BY <1>6, <1>7
<1>10. s \in Seq(Nat) /\ Elements(s) = Elements(shown) \cup i..y.top
  <2>1. Chat!Run(i, y.top) \in Seq(Nat) /\ Elements(Chat!Run(i, y.top)) = i..y.top
    BY <1>6, RunElements
  <2>2. s = shown \o Chat!Run(i, y.top)
    BY <1>5, <1>9
  <2> QED
    <3>1. PICK t \in Seq(Nat) : t = Chat!Run(i, y.top)
      BY <2>1
    <3>2. /\ shown \o t \in Seq(Nat)
          /\ Elements(shown \o t) = Elements(shown) \cup Elements(t)
      BY <1>8, ConcatElements
    <3> QED
      BY <2>1, <2>2, <3>1, <3>2
<1>11. ASSUME loaded, excuse' = {}
       PROVE  \E a, b \in Nat : Spans(messages, s, older, a, b) /\ AllFit(calls, older, a, b)
  <2>1. PICK a \in Nat, b \in Nat : /\ Spans(messages, shown, older, a, b)
                                    /\ AllFit(chatCall, older, a, b)
    BY <1>5, <1>11 DEF ChatInv
  <2>2. a <= y.newest + 1 /\ y.newest <= b
    BY <1>2, <1>5, <2>1 DEF AllFit, Fits
  <2>3. i = y.newest + 1
    BY <1>5, <1>9, <1>11 DEF Chat!Burst
  <2>4. a <= i /\ i <= b + 1 /\ (i <= y.top \/ y.top <= b)
    BY <1>6, <2>2, <2>3
  <2> QED
    BY <1>3, <1>6, <1>10, <2>1, <2>4, ChatGrows
<1>12. /\ messages = messages' /\ older = older'
       /\ loaded' /\ excuse' = {} =>
             \E a, b \in Nat : Spans(messages, s, older, a, b) /\ AllFit(calls, older, a, b)
  BY <1>5, <1>11
<1> QED
  BY <1>1, <1>3, <1>6, <1>8, <1>10, <1>12, ChatFrame

LEMMA ChatSendReply ==
    ASSUME ChatInv, NEW c \in HttpCalls, Chat!SendReply(c)
    PROVE  ChatInv'
<1>1. PICK calls, s : calls = chatCall' /\ s = shown'
  OBVIOUS
<1>2. PICK y : y = chatCall[c]
  OBVIOUS
<1>3. /\ AreChatCalls(calls, messages) /\ calls[c].kind = "none"
      /\ \A d \in HttpCalls : d # c => calls[d] = chatCall[d]
  <2>1. calls = WithChatCall(c, Chat!NoCall)
    BY <1>1 DEF Chat!SendReply, WithChatCall
  <2> QED
    BY <2>1, ChatCallOver
<1>4. /\ y.kind = "send" /\ y.pc = "reply" /\ s = Append(shown, y.top)
      /\ messages' = messages /\ loaded' = loaded /\ older' = older
      /\ excuse' = excuse \cup IF y.top > Chat!Newest + 1 THEN {"sent"} ELSE {}
  BY <1>1, <1>2 DEF Chat!SendReply, Chat!Answered
<1>5. y.top \in Nat /\ y.top <= messages /\ messages \in Nat
  BY <1>2 DEF ChatInv, AreChatCalls, IsChatCall
<1>6. older.page \in Nat \ {0} /\ shown \in Seq(Nat)
  BY DEF ChatInv
<1>7. s \in Seq(Nat) /\ Elements(s) = Elements(shown) \cup y.top..y.top
  <2>1. s = shown \o <<y.top>> /\ <<y.top>> \in Seq(Nat)
    BY <1>4, <1>5, <1>6
  <2>2. Elements(<<y.top>>) = y.top..y.top
    BY <1>5 DEF Elements
  <2> QED
    BY <1>6, <2>1, <2>2, ConcatElements
<1>8. ASSUME loaded, excuse' = {}
      PROVE  \E a, b \in Nat : Spans(messages, s, older, a, b) /\ AllFit(calls, older, a, b)
  <2>1. PICK a \in Nat, b \in Nat : /\ Spans(messages, shown, older, a, b)
                                    /\ AllFit(chatCall, older, a, b)
    BY <1>4, <1>8 DEF ChatInv
  <2>2. a <= y.top
    BY <1>2, <1>4, <2>1 DEF AllFit, Fits
  <2>3. Chat!Newest <= b /\ ~ (y.top > Chat!Newest + 1)
    BY <1>4, <1>6, <1>8, <2>1, NewestFits
  <2>4. Chat!Newest \in Nat
    BY <1>6, NewestIsNat
  <2>5. y.top <= b + 1 /\ y.top <= y.top
    BY <1>5, <2>3, <2>4
  <2> QED
    BY <1>3, <1>5, <1>7, <2>1, <2>2, <2>5, ChatGrows
<1>9. /\ messages = messages' /\ older = older'
      /\ loaded' /\ excuse' = {} =>
            \E a, b \in Nat : Spans(messages, s, older, a, b) /\ AllFit(calls, older, a, b)
  BY <1>4, <1>8
<1> QED
  BY <1>1, <1>3, <1>5, <1>6, <1>7, <1>9, ChatFrame

LEMMA ChatNext ==
    ASSUME ChatInv, [Chat!Next]_(Chat!vars)
    PROVE  ChatInv'
<1>1. CASE Chat!PeerPosts
  BY <1>1, ChatPeerPosts
<1>2. ASSUME NEW c \in HttpCalls,
             \/ Chat!LoadInitial(c) \/ Chat!LoadOlder(c) \/ Chat!Poll(c)
             \/ Chat!HandleSend(c) \/ Chat!Post(c) \/ Chat!Count(c) \/ Chat!List(c)
             \/ Chat!InitialReply(c) \/ Chat!OlderReply(c) \/ Chat!PollReply(c)
             \/ Chat!SendReply(c) \/ Chat!NoReply(c)
      PROVE  ChatInv'
  BY <1>2, ChatAsks, ChatServes, ChatInitialReply, ChatOlderReply, ChatPollReply,
     ChatSendReply, ChatNoReply
<1>3. CASE UNCHANGED Chat!vars
  <2>1. UNCHANGED <<chatCall, messages, shown, older, loaded, excuse>>
    BY <1>3 DEF Chat!vars
  <2> QED
    BY <2>1, ChatFrame DEF ChatInv
<1> QED
  BY <1>1, <1>2, <1>3 DEF Chat!Next

(* For pages and conversations of any size and any number of calls that    *)
(* are served, answered and lost in any order: between the oldest and the  *)
(* newest message on the screen none is missing, and the oldest is the     *)
(* first of all once no older page is offered - but in the four ways that  *)
(* excuse names.                                                           *)
THEOREM ShownWithoutGaps == Chat!Spec => []NothingIsSkipped
<1>1. Chat!Init => ChatInv
  BY ChatInit
<1>2. ChatInv /\ [Chat!Next]_(Chat!vars) => ChatInv'
  BY ChatNext
<1>3. ChatInv => NothingIsSkipped
  <2> SUFFICES ASSUME ChatInv, excuse = {}, loaded, NEW m \in 1..messages,
                      m \notin Elements(shown)
               PROVE  \/ older.more /\ \A k \in Elements(shown) : k > m
                      \/ \A k \in Elements(shown) : k < m
    BY DEF NothingIsSkipped, Chat!NothingIsSkipped, Chat!Usable, Chat!OnScreen, Elements
  <2>1. PICK a \in Nat, b \in Nat : Spans(messages, shown, older, a, b)
    BY DEF ChatInv
  <2>2. Elements(shown) = a..b /\ (~ older.more => a = 1) /\ messages \in Nat
    BY <2>1 DEF Spans, ChatInv
  <2>3. m < a \/ b < m
    BY <2>2
  <2>4. CASE b < m
    BY <2>2, <2>4
  <2>5. CASE m < a
    BY <2>2, <2>5
  <2> QED
    BY <2>3, <2>4, <2>5
<1> QED
  BY <1>1, <1>2, <1>3, PTL DEF Chat!Spec

-----------------------------------------------------------------------------
(***************************************************************************)
(* The four screens side by side, as the run checks them: where one moves, *)
(* every other stutters.                                                   *)
(***************************************************************************)
THEOREM ScreensSideBySide ==
    MCSpec => [](NothingIsSkipped /\ FeedIsOneListing /\ PendingIsPolled /\ HeartsAreFavorites)
<1>1. MCInit => Chat!Init /\ Feed!Init /\ Payment!Init /\ Heart!Init
  BY DEF MCInit
<1>2. [MCNext]_allVars => [Chat!Next]_(Chat!vars)
  BY DEF MCNext, allVars, chatVars, Chat!vars
<1>3. [MCNext]_allVars => [Feed!Next]_(Feed!vars)
  BY DEF MCNext, allVars, feedVars, Feed!vars
<1>4. [MCNext]_allVars => [Payment!Next]_(Payment!vars)
  BY DEF MCNext, allVars, paymentVars, Payment!vars
<1>5. [MCNext]_allVars => [Heart!Next]_(Heart!vars)
  BY DEF MCNext, allVars, heartVars, Heart!vars
<1> QED
  BY <1>1, <1>2, <1>3, <1>4, <1>5, ShownWithoutGaps, FeedIsARun, WaitIsPolled, HeartsAreRight,
     PTL DEF MCSpec, Chat!Spec, Feed!Spec, Payment!Spec, Heart!Spec
=============================================================================
