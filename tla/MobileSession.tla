---------------------------- MODULE MobileSession ----------------------------
(***************************************************************************)
(* The session the mobile app keeps: two tokens in the device's secure     *)
(* store, the status the screens follow, and the calls that read and       *)
(* change both - api/client.ts with its one shared refresh,                *)
(* api/tokenStorage.ts, context/AuthContext.tsx - against a backend that   *)
(* rotates refresh tokens and blacklists the old one (Sessions).           *)
(*                                                                         *)
(* Code between two awaits is one step.  Requests and replies may be lost, *)
(* access tokens and sessions expire, and the app may be killed and        *)
(* started anew.  A pair of tokens is one value.                           *)
(***************************************************************************)
EXTENDS Naturals, FiniteSets

CONSTANTS Pairs,      \* token pairs the backend mints
          None,       \* no token
          MaxFaults   \* bound on lost messages and restarts of the app

ASSUME MobileAssumption == None \notin Pairs /\ MaxFaults \in Nat

VARIABLES token,      \* backend: each pair's refresh token
          fresh,      \* backend: the pairs whose access token is accepted
          store,      \* the device's secure store
          status,     \* AuthState.status; "mounting": the effect has yet to run
          call,       \* the API calls under way
          refresh,    \* refreshPromise: what it awaits
          signOut,    \* the running signOut
          signIn,     \* the running signIn or signUp
          faults,     \* lost messages and restarts so far
          excused,    \* history: the stored session may have ended
          cleared     \* history: signed out, nothing left that saves tokens

backend == <<token, fresh>>
history == <<excused, cleared>>
vars == <<backend, store, status, call, refresh, signOut, signIn, faults, history>>

(* fetchCurrentUser on boot or on sign-in, logoutRequest, refetchUser, and *)
(* any other request of a screen.                                          *)
Calls == {"me", "logout", "refetch", "other"}

Maybe == Pairs \cup {None}

(* bearer: the access token attached; retried: config._retry. *)
Call == [pc : {"idle", "sent", "waiting", "expired", "answered"},
         bearer : Maybe, retried : BOOLEAN]
NoCall == [pc |-> "idle", bearer |-> None, retried |-> FALSE]

(* pair: the token posted, then the pair received. *)
Flow(pcs) == [pc : {"none"} \cup pcs, pair : Maybe]
NoFlow == [pc |-> "none", pair |-> None]
At(pc, pair) == [pc |-> pc, pair |-> pair]

Empty == [access |-> None, refresh |-> None]

Init == /\ token = [p \in Pairs |-> "dead"] /\ fresh = {}
        /\ store = Empty
        /\ status = "mounting"
        /\ call = [c \in Calls |-> NoCall]
        /\ refresh = NoFlow /\ signOut = NoFlow /\ signIn = NoFlow
        /\ faults = 0
        /\ excused = FALSE /\ cleared = FALSE

(* client's request interceptor attaches what the store holds. *)
Sent == [pc |-> "sent", bearer |-> store.access, retried |-> FALSE]

(* Pairs the device knows of.  The others stand for all those it has never *)
(* seen or has forgotten; nothing is recorded of them.                     *)
Known == {store.access, store.refresh, refresh.pair, signOut.pair, signIn.pair}
             \cup {call[c].bearer : c \in Calls}

Backend(tokens, accepted) ==
    /\ token' = [p \in Pairs |-> IF p \in Known' THEN tokens[p] ELSE "dead"]
    /\ fresh' = accepted \cap Known'

(* RefreshToken.for_user, or a rotation that spends the token old. *)
Mints(p, old) ==
    Backend([q \in Pairs |-> IF q = p THEN "valid" ELSE IF q = old THEN "dead" ELSE token[q]],
            fresh \cup {p})

-----------------------------------------------------------------------------
(***************************************************************************)
(* API calls.                                                              *)
(***************************************************************************)

(* AuthProvider's effect on mount: no token, no session. *)
Boot == /\ status = "mounting"
        /\ \/ /\ store.access = None
              /\ status' = "unauthenticated"
              /\ UNCHANGED call
           \/ /\ store.access # None
              /\ call' = [call EXCEPT !["me"] = Sent]
              /\ status' = "loading"
        /\ UNCHANGED <<backend, store, refresh, signOut, signIn, faults, history>>

(* A screen of the signed-in app asks for something. *)
Ask(c) == /\ c \in {"refetch", "other"}
          /\ status = "authenticated"
          /\ call[c].pc = "idle"
          /\ call' = [call EXCEPT ![c] = Sent]
          /\ UNCHANGED <<backend, store, status, refresh, signOut, signIn, faults, history>>

(* The caller goes on with its answer, or with its error: a failed boot    *)
(* ends the session, a failed sign-in clears the tokens it had saved, a    *)
(* logout that failed is as good as one that did not.                      *)
Return(c, ok) ==
    /\ call' = [call EXCEPT ![c] = NoCall]
    /\ status' = IF ok /\ c \in {"me", "refetch"} THEN "authenticated"
                 ELSE IF c = "me" /\ status = "loading" THEN "unauthenticated"
                 ELSE status
    /\ store' = IF ~ok /\ c = "me" /\ signIn.pc = "asked" THEN Empty ELSE store
    /\ signIn' = IF c = "me" THEN NoFlow ELSE signIn
    /\ signOut' = IF c = "logout" THEN At("clear", None) ELSE signOut

(* The backend accepts the access token and answers; LogoutView blacklists *)
(* the refresh token it is given, or answers 400 if that is done already.  *)
Accepted(c) ==
    /\ call[c].pc = "sent" /\ call[c].bearer \in fresh
    /\ UNCHANGED <<refresh, faults, history>>
    /\ IF c = "logout"
       THEN /\ call' = [call EXCEPT ![c] = [NoCall EXCEPT !.pc = "answered"]]
            /\ UNCHANGED <<store, status, signOut, signIn>>
            /\ Backend([token EXCEPT ![signOut.pair] = "dead"], fresh)
       ELSE Return(c, TRUE) /\ Backend(token, fresh)

LogoutAnswered ==
    /\ call["logout"].pc = "answered"
    /\ Return("logout", TRUE)
    /\ UNCHANGED <<refresh, faults, history>>
    /\ Backend(token, fresh)

(* No connection, or a timeout. *)
Lose(c) == /\ call[c].pc = "sent"
           /\ faults < MaxFaults
           /\ faults' = faults + 1
           /\ Return(c, FALSE)
           /\ UNCHANGED <<refresh, history>>
           /\ Backend(token, fresh)

(* A 401.  The first one joins or starts the shared refresh, the second    *)
(* fails the call.                                                         *)
MutDenied(c) ==
    /\ call[c].pc = "sent" /\ call[c].bearer \notin fresh
    /\ IF call[c].retried
       THEN Return(c, FALSE) /\ UNCHANGED refresh
       ELSE /\ call' = [call EXCEPT ![c] = [NoCall EXCEPT !.pc = "waiting"]]
            /\ refresh' = At("read", None)
            /\ UNCHANGED <<store, status, signOut, signIn>>
    /\ UNCHANGED <<faults, history>>
    /\ Backend(token, fresh)
Denied(c) ==
    /\ call[c].pc = "sent" /\ call[c].bearer \notin fresh
    /\ IF call[c].retried
       THEN Return(c, FALSE) /\ UNCHANGED refresh
       ELSE /\ call' = [call EXCEPT ![c] = [NoCall EXCEPT !.pc = "waiting"]]
            /\ refresh' = IF refresh.pc = "none" THEN At("read", None) ELSE refresh
            /\ UNCHANGED <<store, status, signOut, signIn>>
    /\ UNCHANGED <<faults, history>>
    /\ Backend(token, fresh)

(* A signOut that is asked for while one runs returns at once. *)
StartSignOut(running) == IF running.pc = "none" THEN At("read", None) ELSE running

(* The refresh came to nothing: clearTokens, then onAuthExpired; the call  *)
(* fails.                                                                  *)
Expired(c) ==
    /\ call[c].pc = "expired"
    /\ store' = Empty
    /\ call' = [call EXCEPT ![c] = NoCall]
    /\ status' = IF c = "me" /\ status = "loading" THEN "unauthenticated" ELSE status
    /\ signIn' = IF c = "me" THEN NoFlow ELSE signIn
    /\ signOut' = IF c = "logout" THEN At("clear", None) ELSE StartSignOut(signOut)
    /\ UNCHANGED <<refresh, faults, history>>
    /\ Backend(token, fresh)

-----------------------------------------------------------------------------
(***************************************************************************)
(* refreshAccessToken, behind refreshWithDedup.  When it ends, every call  *)
(* that waits is sent again - the interceptor attaches the stored token -  *)
(* or expires.                                                             *)
(***************************************************************************)
Finish(pair) ==
    /\ refresh' = NoFlow
    /\ call' = [c \in Calls |->
           IF call[c].pc # "waiting" THEN call[c]
           ELSE IF pair = None THEN [call[c] EXCEPT !.pc = "expired"]
           ELSE [pc |-> "sent", retried |-> TRUE,
                 bearer |-> IF store.access = None THEN pair ELSE store.access]]

MutRefreshRead ==
    /\ refresh.pc = "read"
    /\ \E p \in Known \ {None} : refresh' = At("posted", p)
    /\ UNCHANGED <<backend, store, status, call, signOut, signIn, faults, history>>
RefreshRead ==
    /\ refresh.pc = "read"
    /\ \/ /\ store.refresh # None
          /\ refresh' = At("posted", store.refresh)
          /\ UNCHANGED call
       \/ store.refresh = None /\ Finish(None)
    /\ UNCHANGED <<backend, store, status, signOut, signIn, faults, history>>

(* TokenRefreshView: the token is exchanged, or refused if it is dead. *)
RefreshServe ==
    /\ refresh.pc = "posted"
    /\ UNCHANGED <<store, status, call, signOut, signIn, faults, history>>
    /\ \/ \E p \in Pairs \ Known : /\ token[refresh.pair] = "valid"
                                   /\ refresh' = At("answered", p)
                                   /\ Mints(p, refresh.pair)
       \/ /\ token[refresh.pair] = "dead"
          /\ refresh' = At("failed", None)
          /\ Backend(token, fresh)

(* The request or the reply is lost, or the answer is a 429 or a 5xx; the  *)
(* token may be spent.                                                     *)
RefreshLost ==
    /\ refresh.pc \in {"posted", "answered"}
    /\ faults < MaxFaults
    /\ faults' = faults + 1
    /\ refresh' = At("failed", None)
    /\ excused' = TRUE
    /\ UNCHANGED <<store, status, call, signOut, signIn, cleared>>
    /\ Backend(token, fresh)

(* saveTokens: the access token, then the refresh token. *)
RefreshSaveAccess ==
    /\ refresh.pc = "answered"
    /\ store' = [store EXCEPT !.access = refresh.pair]
    /\ refresh' = At("half", refresh.pair)
    /\ UNCHANGED <<status, call, signOut, signIn, faults, history>>
    /\ Backend(token, fresh)

RefreshSaveRefresh ==
    /\ refresh.pc = "half"
    /\ store' = [store EXCEPT !.refresh = refresh.pair]
    /\ Finish(refresh.pair)
    /\ UNCHANGED <<status, signOut, signIn, faults, history>>
    /\ Backend(token, fresh)

MutRefreshClear ==
    /\ refresh.pc = "failed"
    /\ store' = Empty
    /\ refresh' = NoFlow
    /\ UNCHANGED <<status, call, signOut, signIn, faults, history>>
    /\ Backend(token, fresh)
RefreshClear ==
    /\ refresh.pc = "failed"
    /\ store' = Empty
    /\ Finish(None)
    /\ UNCHANGED <<status, signOut, signIn, faults, history>>
    /\ Backend(token, fresh)

-----------------------------------------------------------------------------
(***************************************************************************)
(* signOut: the screens switch first, the store is cleared last.           *)
(***************************************************************************)
UserSignsOut ==
    /\ status = "authenticated"
    /\ signOut' = StartSignOut(signOut)
    /\ excused' = TRUE
    /\ UNCHANGED <<backend, store, status, call, refresh, signIn, faults, cleared>>

SignOutRead ==
    /\ signOut.pc = "read"
    /\ status' = "unauthenticated"
    /\ \/ /\ store.refresh # None
          /\ signOut' = At("logout", store.refresh)
          /\ call' = [call EXCEPT !["logout"] = Sent]
       \/ /\ store.refresh = None
          /\ signOut' = At("clear", None)
          /\ UNCHANGED call
    /\ UNCHANGED <<backend, store, refresh, signIn, faults, history>>

SignOutClear ==
    /\ signOut.pc = "clear"
    /\ store' = Empty
    /\ signOut' = NoFlow
    /\ cleared' = (refresh.pc = "none" /\ signIn.pc = "none")
    /\ UNCHANGED <<status, call, refresh, signIn, faults, excused>>
    /\ Backend(token, fresh)

-----------------------------------------------------------------------------
(***************************************************************************)
(* signIn and signUp: establishSession saves the tokens and asks who the   *)
(* user is.                                                                *)
(***************************************************************************)
UserSignsIn ==
    /\ status = "unauthenticated"
    /\ signIn.pc = "none"
    /\ signIn' = At("posted", None)
    /\ cleared' = FALSE
    /\ UNCHANGED <<backend, store, status, call, refresh, signOut, faults, excused>>

(* LoginView or RegisterView; refused or lost, nothing has changed. *)
LoginServe ==
    /\ signIn.pc = "posted"
    /\ UNCHANGED <<store, status, call, refresh, signOut, faults, history>>
    /\ \/ \E p \in Pairs \ Known : /\ signIn' = At("answered", p)
                                   /\ Mints(p, None)
       \/ signIn' = NoFlow /\ UNCHANGED backend

SignInSaveAccess ==
    /\ signIn.pc = "answered"
    /\ store' = [store EXCEPT !.access = signIn.pair]
    /\ signIn' = At("half", signIn.pair)
    /\ UNCHANGED <<status, call, refresh, signOut, faults, history>>
    /\ Backend(token, fresh)

SignInSaveRefresh ==
    /\ signIn.pc = "half"
    /\ store' = [store EXCEPT !.refresh = signIn.pair]
    /\ signIn' = At("saved", None)
    /\ UNCHANGED <<status, call, refresh, signOut, faults, history>>
    /\ Backend(token, fresh)

SignInAsk ==
    /\ signIn.pc = "saved"
    /\ call' = [call EXCEPT !["me"] = Sent]
    /\ signIn' = At("asked", None)
    /\ UNCHANGED <<backend, store, status, refresh, signOut, faults, history>>

-----------------------------------------------------------------------------
(* ACCESS_TOKEN_LIFETIME passes. *)
AccessExpires(p) == /\ p \in fresh \cap Known
                    /\ fresh' = fresh \ {p}
                    /\ UNCHANGED <<token, store, status, call, refresh, signOut, signIn,
                                   faults, history>>

(* REFRESH_TOKEN_LIFETIME passes: the access token went long before. *)
SessionExpires(p) == /\ p \in Known \ fresh /\ token[p] = "valid"
                     /\ token' = [token EXCEPT ![p] = "dead"]
                     /\ excused' = TRUE
                     /\ UNCHANGED <<fresh, store, status, call, refresh, signOut, signIn,
                                    faults, cleared>>

(* The app is killed and started anew: only the store remains. *)
Kill == /\ faults < MaxFaults
        /\ faults' = faults + 1
        /\ status' = "mounting"
        /\ call' = [c \in Calls |-> NoCall]
        /\ refresh' = NoFlow /\ signOut' = NoFlow /\ signIn' = NoFlow
        /\ excused' = (excused \/ refresh.pc \in {"answered", "half"}
                               \/ signIn.pc = "half")
        /\ cleared' = FALSE
        /\ UNCHANGED <<store>>
        /\ Backend(token, fresh)

CallStep(c) == Accepted(c) \/ Denied(c) \/ Expired(c)

RefreshStep == RefreshRead \/ RefreshServe \/ RefreshSaveAccess \/ RefreshSaveRefresh \/ RefreshClear

SignOutStep == SignOutRead \/ LogoutAnswered \/ SignOutClear

SignInStep == LoginServe \/ SignInSaveAccess \/ SignInSaveRefresh \/ SignInAsk

Next == \/ Boot
        \/ \E c \in Calls : Ask(c) \/ CallStep(c) \/ Lose(c)
        \/ RefreshStep \/ RefreshLost
        \/ UserSignsOut \/ SignOutStep
        \/ UserSignsIn \/ SignInStep
        \/ \E p \in Pairs : AccessExpires(p) \/ SessionExpires(p)
        \/ Kill

Spec == Init /\ [][Next]_vars

-----------------------------------------------------------------------------
TypeOK == /\ token \in [Pairs -> {"valid", "dead"}] /\ fresh \subseteq Pairs
          /\ store \in [access : Maybe, refresh : Maybe]
          /\ status \in {"mounting", "loading", "authenticated", "unauthenticated"}
          /\ call \in [Calls -> Call]
          /\ refresh \in Flow({"read", "posted", "answered", "half", "failed"})
          /\ signOut \in Flow({"read", "logout", "clear"})
          /\ signIn \in Flow({"posted", "answered", "half", "saved", "asked"})
          /\ faults \in 0..MaxFaults
          /\ excused \in BOOLEAN /\ cleared \in BOOLEAN

(* However many calls meet an expired access token at once, the app never  *)
(* ends a session that is alive: a refresh fails only after a lost reply,  *)
(* a kill in the middle of one, a sign-out or the session's own end        *)
(* (client.ts, "Concurrent 401s share a single refresh call").             *)
NoSpuriousSignOut == refresh.pc = "failed" => excused

(* A call that still runs when the user has signed out never brings        *)
(* tokens back to the device - unless a refresh or a sign-in was under way *)
(* when the store was cleared.                                             *)
SignedOutStaysEmpty == cleared => store = Empty

(* Nothing hangs: the splash screen is up only while the boot call runs,   *)
(* every call that waits has a refresh to wake it, and a sign-out that     *)
(* waits has its logout call under way - also when that call itself meets  *)
(* the 401 that asks for a sign-out (signingOut, "guards against           *)
(* re-entrancy").                                                          *)
NothingHangs == /\ status = "loading" => call["me"].pc # "idle"
                /\ \A c \in Calls : call[c].pc = "waiting" => refresh.pc # "none"
                /\ signOut.pc = "logout" => call["logout"].pc # "idle"

-----------------------------------------------------------------------------
(***************************************************************************)
(* What the documentation says and the code does not keep.                 *)
(***************************************************************************)
Quiet == /\ \A c \in Calls : call[c].pc = "idle"
         /\ refresh.pc = "none" /\ signOut.pc = "none" /\ signIn.pc = "none"

(* ARCHITECTURE.md: logout "returns to Login, tokens removed from secure   *)
(* storage"; AuthContext: a failed boot finds them cleared.                *)
LoginScreenMeansNoTokens == Quiet /\ status = "unauthenticated" => store = Empty

(* The signed-in screens are shown to a device that holds a session.       *)
SignedInMeansTokens == Quiet /\ status = "authenticated" => store # Empty
=============================================================================
