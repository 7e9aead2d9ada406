----------------------------- MODULE MCAccounts -----------------------------
(***************************************************************************)
(* The accounts app on a small instance.  A user's reset codes             *)
(* (PasswordReset) and an account's sessions (Sessions) share no row, so   *)
(* one run checks them side by side: Init chooses which of the two moves,  *)
(* the other stays in its initial state.                                   *)
(***************************************************************************)
EXTENDS PasswordReset, TLC

CONSTANTS Tokens, NoToken, MaxPassword

ASSUME AccountsAssumption == MaxPassword \in Nat

VARIABLES part,    \* which of the two moves
          account, password, token, call, lineage, forked, loggedOut, answered,
          outlived, newest, barred, secured

Session == INSTANCE Sessions WITH req <- call

sessionVars == <<account, password, token, call, lineage, forked, loggedOut,
                 answered, outlived, newest, barred, secured>>
allVars == <<vars, part, sessionVars>>

MCInit == Init /\ Session!Init /\ part \in {"codes", "sessions"}

MCNext == \/ part = "codes" /\ Next /\ UNCHANGED <<part, sessionVars>>
          \/ part = "sessions" /\ Session!Next /\ UNCHANGED <<part, vars>>

MCSpec == MCInit /\ [][MCNext]_allVars

MCTypeOK == TypeOK /\ Session!TypeOK /\ part \in {"codes", "sessions"}

(* The properties of Sessions, for the configurations. *)
LogoutEndsSession == Session!LogoutEndsSession
OneTokenPerLogin == Session!OneTokenPerLogin
UndoneOnlyByStraddlingWrite == Session!UndoneOnlyByStraddlingWrite
AnsweredLogoutEndsSession == Session!AnsweredLogoutEndsSession
ResetEndsSessions == Session!ResetEndsSessions
SuspensionHolds == Session!SuspensionHolds
SuspendedGetsNoToken == Session!SuspendedGetsNoToken

AccountSymmetry == Permutations(Requests) \cup Permutations(Tokens)
=============================================================================
