-------------------------- MODULE ConversationScreen --------------------------
(***************************************************************************)
(* One conversation on the screen of a phone (screens/chat/                *)
(* ConversationScreen.tsx, api/chat.ts) against the history that the       *)
(* server pages out (MessageView, newest first): the first page, older     *)
(* pages on scrolling, a poll every few seconds and one's own messages.    *)
(*                                                                         *)
(* The server counts the messages in one query and lists a page in the     *)
(* next.  Replies come in any order, or not at all.  A message is known by *)
(* its id, its place in the history.  Marking the thread as read, which    *)
(* changes nothing on the screen, is Conversations' MarkThreadRead.        *)
(***************************************************************************)
EXTENDS Naturals, Sequences, SequencesExt

CONSTANTS Calls,         \* identities of calls under way
          PAGE_SIZE,
          MaxMessages    \* bound: messages in the conversation

VARIABLES history,   \* number of messages the server has
          call,      \* the calls under way
          shown,     \* the messages on the screen, in the order of their bubbles
          older,     \* hasMore and nextPage
          loaded,    \* hasLoadedInitial
          excuse     \* history: ways in which the screen loses a message

vars == <<history, call, shown, older, loaded, excuse>>

NoCall == [kind |-> "none", pc |-> "idle", page |-> 0, newest |-> 0, total |-> 0, top |-> 0]

Init == /\ history = 0
        /\ call = [c \in Calls |-> NoCall]
        /\ shown = <<>>
        /\ older = [more |-> FALSE, page |-> 2]
        /\ loaded = FALSE
        /\ excuse = {}

Running(kind) == {c \in Calls : call[c].kind = kind}
Newest == IF shown = <<>> THEN 0 ELSE Last(shown)

(* The poll has no use for the count that comes with its page. *)
Start(c, kind, page, newest) ==
    /\ call[c] = NoCall
    /\ call' = [call EXCEPT ![c] = [NoCall EXCEPT !.kind = kind,
                                                  !.pc = IF kind = "poll" THEN "list" ELSE "sent",
                                                  !.page = page, !.newest = newest]]

-----------------------------------------------------------------------------
(***************************************************************************)
(* The user and the timer.                                                 *)
(***************************************************************************)
(* loadInitial, when the screen opens and when it is pulled down. *)
LoadInitial(c) ==
    /\ Running("initial") = {}
    /\ Start(c, "initial", 1, 0)
    /\ UNCHANGED <<history, shown, older, loaded, excuse>>

(* While the first page loads the spinner takes the whole screen. *)
Usable == loaded /\ Running("initial") = {}

LoadOlder(c) ==
    /\ Usable
    /\ older.more /\ Running("older") = {}
    /\ Start(c, "older", older.page, 0)
    /\ UNCHANGED <<history, shown, older, loaded, excuse>>

Poll(c) ==
    /\ loaded
    /\ Start(c, "poll", 1, Newest)
    /\ UNCHANGED <<history, shown, older, loaded, excuse>>

HandleSend(c) ==
    /\ Usable
    /\ Running("send") = {}
    /\ Start(c, "send", 0, 0)
    /\ UNCHANGED <<history, shown, older, loaded, excuse>>

-----------------------------------------------------------------------------
(***************************************************************************)
(* The server, and the other user.                                         *)
(***************************************************************************)
PeerPosts == /\ history < MaxMessages
             /\ history' = history + 1
             /\ UNCHANGED <<call, shown, older, loaded, excuse>>

Post(c) == /\ call[c].pc = "sent" /\ call[c].kind = "send"
           /\ history < MaxMessages
           /\ history' = history + 1
           /\ call' = [call EXCEPT ![c].pc = "reply", ![c].top = history + 1]
           /\ UNCHANGED <<shown, older, loaded, excuse>>

(* _paginate: the count, then the page. *)
Count(c) == /\ call[c].pc = "sent" /\ call[c].kind # "send"
            /\ call' = [call EXCEPT ![c].pc = "list", ![c].total = history]
            /\ UNCHANGED <<history, shown, older, loaded, excuse>>

List(c) == /\ call[c].pc = "list"
           /\ call' = [call EXCEPT ![c].pc = "reply", ![c].top = history]
           /\ UNCHANGED <<history, shown, older, loaded, excuse>>

(* Messages first to last, oldest first; what is below so many pages of a  *)
(* history of n, and a page of it.                                         *)
Run(first, last) == [k \in 1..(last + 1 - first) |-> first + k - 1]

Below(n, pages) == IF n > pages * PAGE_SIZE THEN n - pages * PAGE_SIZE ELSE 0

Page(n, p) == Run(Below(n, p) + 1, Below(n, p - 1))

MutHasMore(x) == x.total > x.page * PAGE_SIZE + 1
HasMore(x) == x.total > x.page * PAGE_SIZE

-----------------------------------------------------------------------------
(***************************************************************************)
(* The replies.  excuse tells how a message may be lost: the count and the *)
(* page disagree; a page begins above the newest message on the screen, so *)
(* many have come since the last poll; one's own message becomes the newest*)
(* before an earlier one was polled; a page that was asked for before the  *)
(* screen was reloaded comes after it.                                     *)
(***************************************************************************)
Answered(c, kind) == call[c].pc = "reply" /\ call[c].kind = kind

Torn(x) == IF x.top > x.total THEN {"torn"} ELSE {}

Burst(below, newest) == IF below > newest THEN {"burst"} ELSE {}

InitialReply(c) ==
    /\ Answered(c, "initial")
    /\ shown' = Page(call[c].top, 1)
    /\ older' = [more |-> HasMore(call[c]), page |-> 2]
    /\ loaded' = TRUE
    /\ excuse' = (excuse \cup Torn(call[c]))
                     \cup IF \E d \in Calls \ {c} : call[d].kind # "none"
                          THEN {"reloaded"} ELSE {}
    /\ call' = [call EXCEPT ![c] = NoCall]
    /\ UNCHANGED <<history>>

OlderReply(c) ==
    /\ Answered(c, "older")
    /\ shown' = Page(call[c].top, call[c].page) \o shown
    /\ older' = [more |-> HasMore(call[c]), page |-> older.page + 1]
    /\ excuse' = (excuse \cup Torn(call[c]))
                     \cup Burst(Below(call[c].top, call[c].page), Newest)
    /\ call' = [call EXCEPT ![c] = NoCall]
    /\ UNCHANGED <<history, loaded>>

(* pollNewMessages: the ids of page 1 that are greater than newest. *)
PollReply(c) ==
    LET x == call[c]
        below == Below(x.top, 1)
    IN  /\ Answered(c, "poll")
        /\ shown' = shown \o Run((IF below > x.newest THEN below ELSE x.newest) + 1, x.top)
        /\ excuse' = excuse \cup Burst(below, x.newest)
        /\ call' = [call EXCEPT ![c] = NoCall]
        /\ UNCHANGED <<history, older, loaded>>

SendReply(c) ==
    /\ Answered(c, "send")
    /\ shown' = Append(shown, call[c].top)
    /\ excuse' = excuse \cup IF call[c].top > Newest + 1 THEN {"sent"} ELSE {}
    /\ call' = [call EXCEPT ![c] = NoCall]
    /\ UNCHANGED <<history, older, loaded>>

(* An error, a timeout: the screen stays as it is. *)
NoReply(c) == /\ call[c].pc # "idle"
              /\ call' = [call EXCEPT ![c] = NoCall]
              /\ UNCHANGED <<history, shown, older, loaded, excuse>>

Next == \/ PeerPosts
        \/ \E c \in Calls : \/ LoadInitial(c) \/ LoadOlder(c) \/ Poll(c) \/ HandleSend(c)
                            \/ Post(c) \/ Count(c) \/ List(c)
                            \/ InitialReply(c) \/ OlderReply(c) \/ PollReply(c) \/ SendReply(c)
                            \/ NoReply(c)

Spec == Init /\ [][Next]_vars

-----------------------------------------------------------------------------
TypeOK == /\ history \in 0..MaxMessages
          /\ call \in [Calls -> [kind : {"none", "initial", "older", "poll", "send"},
                                 pc : {"idle", "sent", "list", "reply"},
                                 page : Nat, newest : Nat, total : Nat, top : Nat]]
          /\ shown \in Seq(1..MaxMessages)
          /\ older \in [more : BOOLEAN, page : Nat]
          /\ loaded \in BOOLEAN
          /\ excuse \subseteq {"torn", "burst", "sent", "reloaded"}

OnScreen == {shown[k] : k \in DOMAIN shown}

(* Between the oldest and the newest message on the screen none is missing *)
(* and the oldest is the first of the history once there are no more       *)
(* pages, however polls, pages and replies interleave - except in the four *)
(* ways that excuse names.                                                 *)
NothingIsSkipped ==
    excuse = {} /\ Usable =>
        \A m \in 1..history :
            m \notin OnScreen => \/ older.more /\ \A k \in OnScreen : k > m
                                 \/ \A k \in OnScreen : k < m

-----------------------------------------------------------------------------
(***************************************************************************)
(* What the documentation says and the code does not keep.                 *)
(***************************************************************************)
(* The screen polls "every 5 seconds while focused and shows new           *)
(* messages": not the one that came before one's own.                      *)
NewMessagesAreShown ==
    "burst" \notin excuse /\ "torn" \notin excuse /\ "reloaded" \notin excuse /\ shown # <<>> =>
        \A m \in Head(shown)..Last(shown) : m \in OnScreen
=============================================================================
