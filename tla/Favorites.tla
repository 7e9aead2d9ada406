------------------------------ MODULE Favorites ------------------------------
(***************************************************************************)
(* The hearts of the app (context/FavoritesContext.tsx) and the favorites  *)
(* the server keeps (FavoriteView): a tap fills or empties the heart at    *)
(* once, sends the request and takes the tap back if it fails; signing in  *)
(* loads the set.  Requests are served, answered and lost in any order,    *)
(* accounts change on one phone, and products go off sale.                 *)
(***************************************************************************)
EXTENDS Naturals

CONSTANTS Users, Products,
          Calls,             \* identities of calls under way
          Nobody

VARIABLES account,   \* whose session it is, or Nobody's
          saved,     \* the Favorite rows of each user
          onSale,    \* the products that are ACTIVE
          hearts,    \* favoriteIds
          call,      \* the calls under way
          doubt      \* history: the products whose heart may be wrong

vars == <<account, saved, onSale, hearts, call, doubt>>

NoCall == [kind |-> "none", pc |-> "idle", of |-> Nobody, on |-> {}, cancelled |-> FALSE]

Init == /\ account = Nobody
        /\ saved = [u \in Users |-> {}]
        /\ onSale = Products
        /\ hearts = {}
        /\ call = [c \in Calls |-> NoCall]
        /\ doubt = {}

Toggled == UNION {call[c].on : c \in {d \in Calls : call[d].kind \in {"add", "remove"}}}
Loading == \E c \in Calls : call[c].kind = "load" /\ ~ call[c].cancelled

Send(c, kind, of, on) ==
    /\ call[c] = NoCall
    /\ call' = [call EXCEPT ![c] = [kind |-> kind, pc |-> "sent", of |-> of, on |-> on,
                                    cancelled |-> FALSE]]

-----------------------------------------------------------------------------
(***************************************************************************)
(* The app.  A toggle that is still under way when the account changes     *)
(* leaves its product in doubt, and so does one that meets another toggle  *)
(* of the product or the load.                                             *)
(***************************************************************************)
SignIn(c, u) == /\ account = Nobody
                /\ account' = u
                /\ Send(c, "load", u, {})
                /\ doubt' = Toggled
                /\ UNCHANGED <<saved, onSale, hearts>>

SignOut == /\ account # Nobody
           /\ account' = Nobody
           /\ hearts' = {}
           /\ call' = [c \in Calls |-> IF call[c].kind = "load"
                                       THEN [call[c] EXCEPT !.cancelled = TRUE] ELSE call[c]]
           /\ UNCHANGED <<saved, onSale, doubt>>

ToggleFavorite(c, p) ==
    /\ account # Nobody
    /\ IF p \in hearts
       THEN hearts' = hearts \ {p} /\ Send(c, "remove", account, {p})
       ELSE hearts' = hearts \cup {p} /\ Send(c, "add", account, {p})
    /\ doubt' = IF p \in Toggled \/ Loading THEN doubt \cup {p} ELSE doubt
    /\ UNCHANGED <<account, saved, onSale>>

(* A load that fails leaves the set as it is. *)
MutReply(c) ==
    /\ call[c].pc \in {"done", "failed"}
    /\ hearts' = CASE call[c].kind = "load" /\ call[c].pc = "done" -> call[c].on
                   [] call[c].kind = "add" /\ call[c].pc = "failed" -> hearts \ call[c].on
                   [] call[c].kind = "remove" /\ call[c].pc = "failed" -> hearts \cup call[c].on
                   [] OTHER -> hearts
    /\ doubt' = IF call[c].kind = "load" /\ call[c].pc = "failed" /\ ~ call[c].cancelled
                THEN Products ELSE doubt
    /\ call' = [call EXCEPT ![c] = NoCall]
    /\ UNCHANGED <<account, saved, onSale>>
Reply(c) ==
    /\ call[c].pc \in {"done", "failed"}
    /\ hearts' = CASE call[c].kind = "load" /\ call[c].pc = "done" /\ ~ call[c].cancelled
                          -> call[c].on
                   [] call[c].kind = "add" /\ call[c].pc = "failed" -> hearts \ call[c].on
                   [] call[c].kind = "remove" /\ call[c].pc = "failed" -> hearts \cup call[c].on
                   [] OTHER -> hearts
    /\ doubt' = IF call[c].kind = "load" /\ call[c].pc = "failed" /\ ~ call[c].cancelled
                THEN Products ELSE doubt
    /\ call' = [call EXCEPT ![c] = NoCall]
    /\ UNCHANGED <<account, saved, onSale>>

(* An error, or the answer of a request that was served is lost. *)
Lose(c) == /\ call[c].pc \in {"sent", "done"}
           /\ call' = [call EXCEPT ![c].pc = "failed", ![c].of = Nobody]
           /\ doubt' = IF call[c].pc = "done" THEN doubt \cup call[c].on ELSE doubt
           /\ UNCHANGED <<account, saved, onSale, hearts>>

-----------------------------------------------------------------------------
(***************************************************************************)
(* The server: post and delete look for an ACTIVE product, get does not.   *)
(***************************************************************************)
Get(c) == /\ call[c].pc = "sent" /\ call[c].kind = "load"
          /\ call' = [call EXCEPT ![c].pc = "done", ![c].of = Nobody, ![c].on = saved[call[c].of]]
          /\ UNCHANGED <<account, saved, onSale, hearts, doubt>>

Post(c) == /\ call[c].pc = "sent" /\ call[c].kind = "add"
           /\ IF call[c].on \subseteq onSale
              THEN /\ saved' = [saved EXCEPT ![call[c].of] = @ \cup call[c].on]
                   /\ call' = [call EXCEPT ![c].pc = "done", ![c].of = Nobody]
              ELSE call' = [call EXCEPT ![c].pc = "failed", ![c].of = Nobody] /\ UNCHANGED saved
           /\ UNCHANGED <<account, onSale, hearts, doubt>>

Delete(c) == /\ call[c].pc = "sent" /\ call[c].kind = "remove"
             /\ IF call[c].on \subseteq onSale \cap saved[call[c].of]
                THEN /\ saved' = [saved EXCEPT ![call[c].of] = @ \ call[c].on]
                     /\ call' = [call EXCEPT ![c].pc = "done", ![c].of = Nobody]
                ELSE call' = [call EXCEPT ![c].pc = "failed", ![c].of = Nobody] /\ UNCHANGED saved
             /\ UNCHANGED <<account, onSale, hearts, doubt>>

(* Sold, removed, or put on sale again. *)
StatusChanges(p) == /\ onSale' = IF p \in onSale THEN onSale \ {p} ELSE onSale \cup {p}
                    /\ UNCHANGED <<account, saved, hearts, call, doubt>>

Next == \/ SignOut
        \/ \E p \in Products : StatusChanges(p)
        \/ \E c \in Calls : \/ \E u \in Users : SignIn(c, u)
                            \/ \E p \in Products : ToggleFavorite(c, p)
                            \/ Get(c) \/ Post(c) \/ Delete(c) \/ Lose(c) \/ Reply(c)

Spec == Init /\ [][Next]_vars

-----------------------------------------------------------------------------
TypeOK == /\ account \in Users \cup {Nobody}
          /\ saved \in [Users -> SUBSET Products]
          /\ {onSale, hearts, doubt} \subseteq SUBSET Products
          /\ call \in [Calls -> [kind : {"none", "load", "add", "remove"},
                                 pc : {"idle", "sent", "done", "failed"},
                                 of : Users \cup {Nobody}, on : SUBSET Products,
                                 cancelled : BOOLEAN]]

(* At rest the hearts are the favorites of whoever is signed in: a refused *)
(* tap is taken back, without touching other products, and a set that was  *)
(* loaded for another account is never shown - unless the answer of the    *)
(* load, or of a toggle that was served, was lost, or the toggle met       *)
(* another one of the product, a load or a change of account.              *)
HeartsAreFavorites ==
    account # Nobody /\ (\A c \in Calls : call[c] = NoCall)
        => \A p \in Products \ doubt : p \in hearts <=> p \in saved[account]

-----------------------------------------------------------------------------
(***************************************************************************)
(* What the documentation says and the code does not keep.                 *)
(***************************************************************************)
(* catalog/views.py: "DELETE /api/favorites/<product_id>/ -> remove": not  *)
(* of a product that has been sold; its heart stays.                       *)
FavoriteCanBeRemoved ==
    [][\A c \in Calls : Delete(c) /\ call[c].on \subseteq saved[call[c].of]
                          => saved' # saved]_vars

(* The taps of one account are not taken back in another's, or nobody's:   *)
(* "rollback on failure" (FavoritesContext.tsx) does.                      *)
NobodyHasNoHearts == account = Nobody => hearts = {}
=============================================================================
