---------------------------- MODULE Conversations ----------------------------
(***************************************************************************)
(* The chat of two users, as the server keeps it (chat/services.py and     *)
(* views.py): their threads, found or created by context - about a         *)
(* product, or directly -, the messages in them, and the notification that *)
(* every message sends to the other (notifications/services.py).           *)
(*                                                                         *)
(* Every handler runs in autocommit mode.  A product is never deleted      *)
(* while both users stay, and bodies are left out.                         *)
(***************************************************************************)
EXTENDS Naturals, Sequences, FiniteSets

CONSTANTS Contexts,       \* what two users can talk about
          Openers,        \* who can open a thread in each context
          Requests,       \* request threads
          MaxThreads,     \* bound: threads
          MaxMessages     \* bound: messages

VARIABLES threads,    \* the Conversation rows, oldest first, by context
          messages,   \* the Message rows: thread, sender, is_read
          notices,    \* the Notification rows: whom, of which message, is_read
          req,        \* what each request has left to do
          crossed,    \* history: contexts opened by two requests at once
          unsaid      \* history: messages whose notification was lost

vars == <<threads, messages, notices, req, crossed, unsaid>>

Users == {"buyer", "seller"}
Other(u) == IF u = "buyer" THEN "seller" ELSE "buyer"

Idle == [pc |-> "idle", key |-> "none"]

Init == /\ threads = <<>> /\ messages = <<>> /\ notices = <<>>
        /\ req = [r \in Requests |-> Idle]
        /\ crossed = {} /\ unsaid = {}

Go(r, pc, key) == req' = [req EXCEPT ![r] = [pc |-> pc, key |-> key]]
End(r) == req' = [req EXCEPT ![r] = Idle]

-----------------------------------------------------------------------------
(***************************************************************************)
(* get_or_create_conversation: looks for a thread of the two about the     *)
(* same product - None for a direct one -, then creates one.               *)
(***************************************************************************)
MutExisting(c) == {n \in DOMAIN threads : threads[n] = c /\ n = Len(threads)}
Existing(c) == {n \in DOMAIN threads : threads[n] = c}

Opening(c) == {s \in Requests : req[s].pc = "create" /\ req[s].key = c}

OpenLook(r, u, c) ==
    /\ req[r].pc = "idle"
    /\ u \in Openers[c]
    /\ IF Existing(c) = {} THEN Go(r, "create", c) ELSE UNCHANGED req
    /\ crossed' = IF Existing(c) = {} /\ Opening(c) # {} THEN crossed \cup {c} ELSE crossed
    /\ UNCHANGED <<threads, messages, notices, unsaid>>

OpenCreate(r) ==
    /\ req[r].pc = "create"
    /\ Len(threads) < MaxThreads
    /\ threads' = Append(threads, req[r].key)
    /\ End(r)
    /\ UNCHANGED <<messages, notices, crossed, unsaid>>

-----------------------------------------------------------------------------
(***************************************************************************)
(* create_message: the row, then the notification.                         *)
(***************************************************************************)
Post(r, u, t) ==
    /\ req[r].pc = "idle"
    /\ t \in DOMAIN threads /\ Len(messages) < MaxMessages
    /\ messages' = Append(messages, [thread |-> t, sender |-> u, read |-> FALSE])
    /\ Go(r, "notify", Len(messages) + 1)
    /\ UNCHANGED <<threads, notices, crossed, unsaid>>

MutRecipient(m) == messages[1].sender
Recipient(m) == Other(messages[m].sender)

NotifyRecipient(r) ==
    /\ req[r].pc = "notify"
    /\ notices' = Append(notices, [user |-> Recipient(req[r].key), about |-> req[r].key,
                                   read |-> FALSE])
    /\ End(r)
    /\ UNCHANGED <<threads, messages, crossed, unsaid>>

(* The insert fails and is swallowed, or the process dies. *)
Break(r) ==
    /\ req[r].pc # "idle"
    /\ End(r)
    /\ unsaid' = IF req[r].pc = "notify" THEN unsaid \cup {req[r].key} ELSE unsaid
    /\ UNCHANGED <<threads, messages, notices, crossed>>

-----------------------------------------------------------------------------
(***************************************************************************)
(* Reading.                                                                *)
(***************************************************************************)
(* MarkThreadReadView *)
MarkThreadRead(u, t) ==
    /\ t \in DOMAIN threads
    /\ messages' = [m \in DOMAIN messages |->
           IF messages[m].thread = t /\ messages[m].sender # u
           THEN [messages[m] EXCEPT !.read = TRUE] ELSE messages[m]]
    /\ UNCHANGED <<threads, notices, req, crossed, unsaid>>

(* NotificationReadView, NotificationReadAllView: one notification, or all *)
(* of the caller's.                                                        *)
ReadNotices(u, which) ==
    /\ which # {}
    /\ notices' = [n \in DOMAIN notices |-> IF n \in which
                       THEN [notices[n] EXCEPT !.read = TRUE] ELSE notices[n]]
    /\ UNCHANGED <<threads, messages, req, crossed, unsaid>>

Unread(u) == {n \in DOMAIN notices : notices[n].user = u /\ ~ notices[n].read}

Next == \/ \E r \in Requests, u \in Users :
              \/ \E c \in Contexts : OpenLook(r, u, c)
              \/ \E t \in 1..MaxThreads : Post(r, u, t)
        \/ \E r \in Requests : OpenCreate(r) \/ NotifyRecipient(r) \/ Break(r)
        \/ \E u \in Users :
              \/ \E t \in 1..MaxThreads : MarkThreadRead(u, t)
              \/ \E n \in Unread(u) : ReadNotices(u, {n})
              \/ ReadNotices(u, Unread(u))

Spec == Init /\ [][Next]_vars

-----------------------------------------------------------------------------
TypeOK == /\ threads \in Seq(Contexts)
          /\ messages \in Seq([thread : 1..MaxThreads, sender : Users, read : BOOLEAN])
          /\ notices \in Seq([user : Users, about : 1..MaxMessages, read : BOOLEAN])
          /\ \A r \in Requests :
                 \/ req[r].pc = "idle" /\ req[r].key = "none"
                 \/ req[r].pc = "create" /\ req[r].key \in Contexts
                 \/ req[r].pc = "notify" /\ req[r].key \in DOMAIN messages
          /\ crossed \subseteq Contexts /\ unsaid \subseteq 1..MaxMessages

(* Two users have one thread about a product and one direct thread, except *)
(* where two requests looked for it before either had created it.          *)
OneThreadUnlessCrossed ==
    \A s, t \in DOMAIN threads : s # t /\ threads[s] = threads[t] => threads[s] \in crossed

(* The recipient, and nobody else, is told of every message exactly once,  *)
(* unless that notification was lost; whatever other requests do meanwhile *)
(* (create_message, _notify_recipient).                                    *)
About(m) == {n \in DOMAIN notices : notices[n].about = m}
Sending(m) == \E r \in Requests : req[r].pc = "notify" /\ req[r].key = m

RecipientIsTold ==
    \A m \in DOMAIN messages :
        /\ \A n \in About(m) : notices[n].user # messages[m].sender
        /\ Cardinality(About(m)) = IF Sending(m) \/ m \in unsaid THEN 0 ELSE 1

-----------------------------------------------------------------------------
(***************************************************************************)
(* What the documentation says and the code does not keep.                 *)
(***************************************************************************)
(* "starting a chat ... reuses an existing conversation between the same   *)
(* two users about the same product rather than duplicating it".           *)
OneThreadPerContext == \A s, t \in DOMAIN threads : threads[s] = threads[t] => s = t

(* "the caller's conversations, most recently active first": rows are      *)
(* ordered by updated_at, which no message touches.                        *)
Posts(t) == {m \in DOMAIN messages : messages[m].thread = t}
MostRecentlyActiveFirst ==
    \A s, t \in DOMAIN threads : s < t /\ Posts(t) # {} =>
        \A m \in Posts(s) : \E n \in Posts(t) : n > m
=============================================================================
