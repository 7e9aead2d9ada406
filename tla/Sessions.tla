------------------------------ MODULE Sessions ------------------------------
(***************************************************************************)
(* One member's account and the sessions opened on it: registration,       *)
(* login, token rotation, logout, password reset, and what others do to    *)
(* the account - the member's and the administrator's profile edits, which *)
(* write whole rows back, suspension, activation and deletion              *)
(* (accounts/views.py, accounts/serializers.py, adminpanel/views.py).      *)
(* Every statement commits on its own.                                     *)
(*                                                                         *)
(* A session is its refresh token.  Rotation is djangorestframework-       *)
(* simplejwt's, as config/settings.py switches it on.                      *)
(***************************************************************************)
EXTENDS Naturals, FiniteSets

CONSTANTS Requests,      \* concurrent requests
          Tokens,        \* refresh tokens
          NoToken,
          MaxPassword    \* bound on password changes

VARIABLES account,    \* no account, account_status, or deleted
          password,   \* the version of the password in force
          token,      \* OutstandingToken and BlacklistedToken
          req,        \* what each request is doing
          lineage,    \* history: the tokens a token was rotated from, and itself
          forked,     \* history: tokens rotated while another call held them
          loggedOut,  \* history: tokens a logout has ended that no rotation crossed
          answered,   \* history: tokens whose logout was answered with a 204
          outlived,   \* history: tokens that were valid when a reset completed
          newest,     \* history: the version the last reset has set
          barred,     \* history: suspended, with no row write under way
          secured     \* history: reset, with no row write under way

histories == <<lineage, forked, loggedOut, answered, outlived, newest, barred, secured>>
vars == <<account, password, token, req, histories>>

AccountStatus == {"ACTIVE", "SUSPENDED"}
Exists == account \in AccountStatus

(* A request keeps what it read: the token it rotates, the account's       *)
(* status and the password of the rows it will write back.                 *)
Request == [pc : {"idle", "register", "mint", "rotate", "logout", "profile", "user", "suspend", "delete"},
            token : Tokens \cup {NoToken},
            status : AccountStatus, password : 0..MaxPassword]

Idle == [pc |-> "idle", token |-> NoToken, status |-> "ACTIVE", password |-> 0]

Init == /\ account = "none" /\ password = 0
        /\ token = [t \in Tokens |-> "unused"]
        /\ req = [r \in Requests |-> Idle]
        /\ lineage = [t \in Tokens |-> {}]
        /\ forked = {} /\ loggedOut = {} /\ answered = {} /\ outlived = {} /\ newest = 0
        /\ barred = FALSE /\ secured = FALSE

Begin(r, pc) == req' = [req EXCEPT ![r] = [Idle EXCEPT !.pc = pc]]
End(r)       == req' = [req EXCEPT ![r] = Idle]

Valid    == {t \in Tokens : token[t] = "valid"}
Rotating(t) == {r \in Requests : req[r].pc = "rotate" /\ req[r].token = t}

(* Row writes under way: what they read may be stale when they land. *)
RowWrites == {r \in Requests : req[r].pc \in {"profile", "user"}}

-----------------------------------------------------------------------------
(***************************************************************************)
(* RegisterView and LoginView.  The user, its profile and its wallet are   *)
(* created together (RegisterSerializer.create, accounts/signals.py); the  *)
(* unique email refuses the second of two registrations that both passed   *)
(* validate_email.                                                         *)
(***************************************************************************)
RegisterCheck(r) ==
    /\ req[r].pc = "idle"
    /\ account = "none"
    /\ Begin(r, "register")
    /\ UNCHANGED <<account, password, token, histories>>

RegisterCreate(r) ==
    /\ req[r].pc = "register"
    /\ \/ account = "none" /\ account' = "ACTIVE" /\ Begin(r, "mint")
       \/ account # "none" /\ UNCHANGED account /\ End(r)
    /\ UNCHANGED <<password, token, histories>>

(* LoginSerializer.validate reads the account, the view mints later. *)
LoginCheck(r) ==
    /\ req[r].pc = "idle"
    /\ account = "ACTIVE"
    /\ Begin(r, "mint")
    /\ UNCHANGED <<account, password, token, histories>>

(* RefreshToken.for_user; the token's row refers to the user's. *)
Mint(r) ==
    /\ req[r].pc = "mint"
    /\ \/ \E t \in Tokens : /\ Exists
                            /\ token[t] = "unused"
                            /\ token' = [token EXCEPT ![t] = "valid"]
                            /\ lineage' = [lineage EXCEPT ![t] = {t}]
       \/ ~Exists /\ UNCHANGED <<token, lineage>>
    /\ End(r)
    /\ UNCHANGED <<account, password, forked, loggedOut, answered, outlived, newest, barred, secured>>

-----------------------------------------------------------------------------
(***************************************************************************)
(* TokenRefreshView with ROTATE_REFRESH_TOKENS and                         *)
(* BLACKLIST_AFTER_ROTATION: the token is checked against the blacklist,   *)
(* then blacklisted and replaced.  It asks whether the user is active, not *)
(* what the profile's account_status says.                                 *)
(***************************************************************************)
RefreshCheck(r, t) ==
    /\ req[r].pc = "idle"
    /\ token[t] = "valid"
    /\ Exists
    /\ req' = [req EXCEPT ![r] = [Idle EXCEPT !.pc = "rotate", !.token = t]]
    /\ forked' = IF Rotating(t) # {} THEN forked \cup {t} ELSE forked
    /\ UNCHANGED <<account, password, token, lineage, loggedOut, answered, outlived,
                   newest, barred, secured>>

MutRefreshRotate(r) ==
    /\ req[r].pc = "rotate"
    /\ Exists
    /\ \E t \in Tokens : /\ token[t] = "unused"
                         /\ token' = [token EXCEPT ![t] = "valid"]
                         /\ lineage' = [lineage EXCEPT ![t] = {t} \cup lineage[req[r].token]]
    /\ End(r)
    /\ UNCHANGED <<account, password, forked, loggedOut, answered, outlived, newest, barred, secured>>
RefreshRotate(r) ==
    /\ req[r].pc = "rotate"
    /\ \/ \E t \in Tokens : /\ Exists
                            /\ token[t] = "unused"
                            /\ token' = [token EXCEPT ![req[r].token] = "blacklisted",
                                                      ![t] = "valid"]
                            /\ lineage' = [lineage EXCEPT ![t] = {t} \cup lineage[req[r].token]]
       \/ ~Exists /\ UNCHANGED <<token, lineage>>
    /\ End(r)
    /\ UNCHANGED <<account, password, forked, loggedOut, answered, outlived, newest, barred, secured>>

(* LogoutView: RefreshToken(...) looks the token up - an invalid or        *)
(* blacklisted one is refused with a 400 -, blacklist() writes its row, or *)
(* finds it there by then (get_or_create).  The answer is a 204.           *)
LogoutCheck(r, t) ==
    /\ req[r].pc = "idle"
    /\ token[t] = "valid" /\ Exists
    /\ req' = [req EXCEPT ![r] = [Idle EXCEPT !.pc = "logout", !.token = t]]
    /\ UNCHANGED <<account, password, token, histories>>

MutLogoutBlacklist(r) ==
    LET t == req[r].token IN
    /\ req[r].pc = "logout"
    /\ loggedOut' = IF token[t] = "valid" /\ Rotating(t) = {}
                    THEN loggedOut \cup {t} ELSE loggedOut
    /\ answered' = answered \cup {t}
    /\ End(r)
    /\ UNCHANGED <<account, password, token, lineage, forked, outlived, newest,
                   barred, secured>>
LogoutBlacklist(r) ==
    LET t == req[r].token IN
    /\ req[r].pc = "logout"
    /\ token' = [token EXCEPT ![t] = "blacklisted"]
    /\ loggedOut' = IF token[t] = "valid" /\ Rotating(t) = {}
                    THEN loggedOut \cup {t} ELSE loggedOut
    /\ answered' = answered \cup {t}
    /\ End(r)
    /\ UNCHANGED <<account, password, lineage, forked, outlived, newest, barred, secured>>

(* PasswordResetView, once the code is accepted (PasswordReset): the new   *)
(* password, and a token that is minted and blacklisted on the spot.       *)
ResetPassword(r) ==
    /\ req[r].pc = "idle"
    /\ Exists
    /\ newest < MaxPassword
    /\ password' = newest + 1 /\ newest' = newest + 1
    /\ outlived' = outlived \cup Valid
    /\ secured' = (RowWrites = {})
    /\ UNCHANGED <<account, token, req, lineage, forked, loggedOut, answered, barred>>

-----------------------------------------------------------------------------
(***************************************************************************)
(* MeView.patch: the profile is read, edited and saved, all its columns.   *)
(***************************************************************************)
ProfileRead(r) ==
    /\ req[r].pc = "idle"
    /\ Exists
    /\ req' = [req EXCEPT ![r] = [Idle EXCEPT !.pc = "profile", !.status = account,
                                              !.password = password]]
    /\ UNCHANGED <<account, password, token, histories>>

(* An UPDATE of a row that is gone is retried as an INSERT, which the      *)
(* missing user refuses.                                                   *)
MutProfileSave(r) ==
    /\ req[r].pc = "profile"
    /\ account' = IF Exists THEN "ACTIVE" ELSE account
    /\ End(r)
    /\ UNCHANGED <<password, token, histories>>
ProfileSave(r) ==
    /\ req[r].pc = "profile"
    /\ account' = IF Exists THEN req[r].status ELSE account
    /\ End(r)
    /\ UNCHANGED <<password, token, histories>>

(***************************************************************************)
(* UserDetailView.patch: user and profile are read together; the user's    *)
(* row is saved, its password with it, then the profile's.                 *)
(***************************************************************************)
AdminRead(r) ==
    /\ req[r].pc = "idle"
    /\ Exists
    /\ req' = [req EXCEPT ![r] = [Idle EXCEPT !.pc = "user", !.status = account,
                                              !.password = password]]
    /\ UNCHANGED <<account, password, token, histories>>

UserSave(r) ==
    /\ req[r].pc = "user"
    /\ password' = IF Exists THEN req[r].password ELSE password
    /\ req' = [req EXCEPT ![r].pc = IF Exists THEN "profile" ELSE "idle"]
    /\ UNCHANGED <<account, token, histories>>

(* UserSuspendView, UserActivateView: only the status column is saved. *)
Suspend(r) ==
    /\ req[r].pc = "idle"
    /\ Exists
    /\ account' = "SUSPENDED"
    /\ barred' = (RowWrites = {})
    /\ UNCHANGED <<password, token, req, lineage, forked, loggedOut, answered, outlived,
                   newest, secured>>

Activate(r) ==
    /\ req[r].pc = "idle"
    /\ Exists
    /\ account' = "ACTIVE"
    /\ barred' = FALSE
    /\ UNCHANGED <<password, token, req, lineage, forked, loggedOut, answered, outlived,
                   newest, secured>>

(* UserDetailView.delete: the audit entry, the suspension, the deletion.   *)
(* A row write may bring the status back in between.                       *)
DeleteLog(r) ==
    /\ req[r].pc = "idle"
    /\ Exists
    /\ Begin(r, "suspend")
    /\ UNCHANGED <<account, password, token, histories>>

DeleteSuspend(r) ==
    /\ req[r].pc = "suspend"
    /\ account' = IF Exists THEN "SUSPENDED" ELSE account
    /\ req' = [req EXCEPT ![r].pc = "delete"]
    /\ UNCHANGED <<password, token, histories>>

DeleteUser(r) ==
    /\ req[r].pc = "delete"
    /\ account' = "deleted"
    /\ End(r)
    /\ UNCHANGED <<password, token, histories>>

(* The worker dies: what its statements committed stays. *)
Crash(r) == /\ req[r].pc # "idle"
            /\ End(r)
            /\ UNCHANGED <<account, password, token, histories>>

Next == \E r \in Requests :
    \/ RegisterCheck(r) \/ RegisterCreate(r) \/ LoginCheck(r) \/ Mint(r)
    \/ \E t \in Tokens : RefreshCheck(r, t) \/ LogoutCheck(r, t)
    \/ RefreshRotate(r) \/ LogoutBlacklist(r) \/ ResetPassword(r)
    \/ ProfileRead(r) \/ ProfileSave(r) \/ AdminRead(r) \/ UserSave(r)
    \/ Suspend(r) \/ Activate(r)
    \/ DeleteLog(r) \/ DeleteSuspend(r) \/ DeleteUser(r)
    \/ Crash(r)

Spec == Init /\ [][Next]_vars

-----------------------------------------------------------------------------
TypeOK == /\ account \in AccountStatus \cup {"none", "deleted"}
          /\ password \in 0..MaxPassword /\ newest \in 0..MaxPassword
          /\ token \in [Tokens -> {"unused", "valid", "blacklisted"}]
          /\ req \in [Requests -> Request]
          /\ lineage \in [Tokens -> SUBSET Tokens]
          /\ forked \subseteq Tokens /\ loggedOut \subseteq Tokens
          /\ answered \subseteq Tokens /\ outlived \subseteq Tokens
          /\ barred \in BOOLEAN /\ secured \in BOOLEAN

(* A logout ends the session it names: nothing that was ever rotated from  *)
(* the token still refreshes - provided no rotation of it was under way    *)
(* when the logout blacklisted it, or went through since the logout looked *)
(* it up (LogoutView, "Blacklist the supplied refresh token").             *)
LogoutEndsSession == \A t \in Valid : lineage[t] \cap loggedOut = {}

(* A login is one session: however often its token is rotated, one of its  *)
(* descendants refreshes - provided no two rotations of a token overlapped *)
(* (ROTATE_REFRESH_TOKENS with BLACKLIST_AFTER_ROTATION).                  *)
OneTokenPerLogin ==
    \A s, t \in Valid : s # t /\ lineage[s] \cap lineage[t] # {}
                            => lineage[s] \cap lineage[t] \cap forked # {}

(* A suspension lasts until an administrator lifts it, and a new password  *)
(* until the next reset: only a row write that had begun before can undo   *)
(* them (UserSuspendView; PasswordResetSerializer.save).                   *)
UndoneOnlyByStraddlingWrite ==
    /\ barred => account # "ACTIVE"
    /\ secured => password = newest

-----------------------------------------------------------------------------
(***************************************************************************)
(* What the documentation says and the code does not keep.                 *)
(***************************************************************************)

(* PRESENTATION_QA_GUIDE.md: logout "blacklists the refresh token          *)
(* server-side immediately": once it is answered, the session is over.     *)
AnsweredLogoutEndsSession == \A t \in Valid : lineage[t] \cap answered = {}

(* accounts/views.py, PasswordResetView: "Invalidate every outstanding     *)
(* session ... all refresh tokens are unusable now".                       *)
ResetEndsSessions == outlived \cap Valid = {}

(* adminpanel/views.py, UserSuspendView: "a suspended user immediately     *)
(* loses login capability" - until an administrator activates it.          *)
SuspensionHolds ==
    [][account = "SUSPENDED" /\ account' = "ACTIVE" => \E r \in Requests : Activate(r)]_vars

(* PRESENTATION_QA_GUIDE.md: "suspension revokes both new sessions and     *)
(* ongoing activity": no token is handed to a suspended account.           *)
SuspendedGetsNoToken ==
    [][account = "SUSPENDED" => {t \in Tokens : token'[t] = "valid"} \subseteq Valid]_vars
=============================================================================
