----------------------------- MODULE MCScreens -----------------------------
(***************************************************************************)
(* The hearts (Favorites) and three screens of the app (ConversationScreen,*)
(* ProductFeed, PaymentScreen) on small instances.  They share nothing but *)
(* the session, whose errors they take as those of the network, so one run *)
(* checks the four side by side: Init chooses which one moves, the others  *)
(* stay in their initial states.                                           *)
(***************************************************************************)
EXTENDS Naturals, TLC

CONSTANTS HttpCalls, PAGE_SIZE, MaxMessages,     \* ConversationScreen
          FeedCalls, Filters, LastPage,          \* ProductFeed
          PaymentCalls, MaxAttempts,             \* PaymentScreen
          Users, Products, Nobody                \* Favorites

(* Nobody stands for a phone on which nobody is signed in; a page holds a  *)
(* message at least (_paginate takes the maximum with 1).                  *)
ASSUME ScreensAssumption == Nobody \notin Users /\ PAGE_SIZE \in Nat \ {0}

VARIABLES part,    \* which of the four moves
          messages, chatCall, shown, older, loaded, excuse,
          filter, feedCall, list, next, busy, gap,
          server, attempts, paymentCall, screen, poller, mounted, timers, settled, strays,
          account, saved, onSale, hearts, heartCall, doubt

Chat == INSTANCE ConversationScreen WITH Calls <- HttpCalls, call <- chatCall,
                                         history <- messages
Feed == INSTANCE ProductFeed WITH Calls <- FeedCalls, call <- feedCall, excused <- gap
Payment == INSTANCE PaymentScreen WITH Calls <- PaymentCalls, call <- paymentCall
Heart == INSTANCE Favorites WITH Calls <- HttpCalls, call <- heartCall

chatVars == <<messages, chatCall, shown, older, loaded, excuse>>
feedVars == <<filter, feedCall, list, next, busy, gap>>
paymentVars == <<server, attempts, paymentCall, screen, poller, mounted, timers, settled, strays>>
heartVars == <<account, saved, onSale, hearts, heartCall, doubt>>
allVars == <<part, chatVars, feedVars, paymentVars, heartVars>>

Parts == {"chat", "feed", "payment", "hearts"}

(* Of the initial states of a part that stays still, one is enough. *)
MCInit == /\ part \in Parts
          /\ Chat!Init /\ Feed!Init /\ Payment!Init /\ Heart!Init
          /\ part # "feed" => filter = "home" /\ feedCall[1].kind = "initial"
          /\ part # "payment" => server.pay = "none" /\ paymentCall[1].kind = "load"

MCNext ==
    \/ part = "chat" /\ Chat!Next /\ UNCHANGED <<part, feedVars, paymentVars, heartVars>>
    \/ part = "feed" /\ Feed!Next /\ UNCHANGED <<part, chatVars, paymentVars, heartVars>>
    \/ part = "payment" /\ Payment!Next /\ UNCHANGED <<part, chatVars, feedVars, heartVars>>
    \/ part = "hearts" /\ Heart!Next /\ UNCHANGED <<part, chatVars, feedVars, paymentVars>>

MCSpec == MCInit /\ [][MCNext]_allVars

MCTypeOK == /\ part \in Parts
            /\ Chat!TypeOK /\ Feed!TypeOK /\ Payment!TypeOK /\ Heart!TypeOK

(* The properties of the screens, for the configurations. *)
NothingIsSkipped == Chat!NothingIsSkipped
FeedIsOneListing == Feed!FeedIsOneListing
PendingIsPolled == Payment!PendingIsPolled
HeartsAreFavorites == Heart!HeartsAreFavorites
NewMessagesAreShown == Chat!NewMessagesAreShown
ListedAsFiltered == Feed!ListedAsFiltered
ScrollGoesOn == Feed!ScrollGoesOn
FailedIsTheNewest == Payment!FailedIsTheNewest
GoesBackOnce == Payment!GoesBackOnce
FavoriteCanBeRemoved == Heart!FavoriteCanBeRemoved
NobodyHasNoHearts == Heart!NobodyHasNoHearts

MCLastPage == [f \in Filters |-> 3]

CallSymmetry == Permutations(HttpCalls)

(* An excuse stays, and of a screen that has one nothing is claimed: the   *)
(* run need not go on from there.                                          *)
NothingIsExcused == excuse = {}
=============================================================================
