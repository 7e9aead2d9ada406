---------------------------- MODULE ServicesProof ----------------------------
(***************************************************************************)
(* Proofs about the services MCServices checks side by side, each of them  *)
(* for any values of its constants: the gateway's client, the              *)
(* conversations, the pictures of a listing, the cart lines, the           *)
(* announcements of a payment, the pages of an order and the row locks of  *)
(* the payments.  At the end, the run's own specification.                 *)
(***************************************************************************)
EXTENDS MCServices, FiniteSetTheorems, WellFoundedInduction, TLAPS

(***************************************************************************)
(* Gateway: a request that has been carried out has ended, and each        *)
(* attempt takes a token at most.                                          *)
(***************************************************************************)
Attempted == IF gatewayCall.retried THEN 2 ELSE 0

ClientInv ==
    /\ gatewayCall \in [pc : {"idle", "authenticate", "open"}, retried : BOOLEAN]
    /\ sent \in Nat /\ done \in Nat
    /\ gatewayCall.pc = "authenticate" => done = 0 /\ sent <= Attempted
    /\ gatewayCall.pc = "open" => done = 0 /\ sent <= Attempted + 1
    /\ gatewayCall.pc # "idle" => result = "none"
    /\ RetryIsHarmless

LEMMA ClientInitInv == Client!Init => ClientInv
BY DEF Client!Init, Client!Idle, ClientInv, RetryIsHarmless, Client!RetryIsHarmless,
       Client!CarriedOutOnce

LEMMA ClientNextInv == ClientInv /\ [Client!Next]_(Client!vars) => ClientInv'
<1> SUFFICES ASSUME ClientInv, [Client!Next]_(Client!vars) PROVE ClientInv'
  OBVIOUS
<1> USE DEF ClientInv, Attempted, RetryIsHarmless, Client!RetryIsHarmless, Client!CarriedOutOnce
<1>1. CASE UNCHANGED Client!vars
  BY <1>1 DEF Client!vars
<1>2. CASE Client!Begin
  BY <1>2 DEF Client!Begin
<1>3. CASE Client!Authenticated
  BY <1>3 DEF Client!Authenticated
<1>4. CASE Client!NotAuthenticated
  BY <1>4 DEF Client!NotAuthenticated, Client!Return, Client!Idle, Client!Results
<1>5. CASE Client!Expire
  BY <1>5 DEF Client!Expire
<1>6. CASE Client!Answered
  BY <1>6 DEF Client!Answered, Client!Return, Client!Idle
<1>7. CASE Client!Unreachable
  BY <1>7 DEF Client!Unreachable, Client!Return, Client!Idle
<1>8. CASE Client!AnswerLost
  BY <1>8 DEF Client!AnswerLost, Client!Return, Client!Idle
<1>9. CASE Client!Failed
  BY <1>9 DEF Client!Failed, Client!Return, Client!Idle
<1>10. CASE Client!Unauthorized
  <2>1. CASE gatewayCall.retried
    <3>1. Client!Return("http_error") /\ sent' = sent + 1 /\ done' = done
      BY <1>10, <2>1 DEF Client!Unauthorized
    <3>2. gatewayCall' = Client!Idle /\ result' = "http_error"
      BY <3>1 DEF Client!Return
    <3>3. gatewayCall.pc = "open" /\ Attempted = 2
      BY <1>10, <2>1 DEF Client!Unauthorized
    <3>4. done = 0 /\ sent <= 3
      BY <3>3
    <3> QED
      BY <3>1, <3>2, <3>4 DEF Client!Idle
  <2>2. CASE ~ gatewayCall.retried
    <3>1. PICK x : x = [gatewayCall EXCEPT !.pc = "authenticate", !.retried = TRUE]
      OBVIOUS
    <3>2. /\ x \in [pc : {"idle", "authenticate", "open"}, retried : BOOLEAN]
          /\ x.pc = "authenticate" /\ x.retried
      BY <3>1
    <3>3. gatewayCall' = x /\ sent' = sent + 1 /\ UNCHANGED <<done, result>>
      BY <1>10, <2>2, <3>1 DEF Client!Unauthorized
    <3>4. gatewayCall.pc = "open"
      BY <1>10 DEF Client!Unauthorized
    <3> QED
      BY <2>2, <3>2, <3>3, <3>4
  <2> QED
    BY <2>1, <2>2
<1> QED
  BY <1>1, <1>2, <1>3, <1>4, <1>5, <1>6, <1>7, <1>8, <1>9, <1>10 DEF Client!Next

(* RetryIsHarmless: no call of the gateway's client has two effects or     *)
(* sends more than four requests, for any number of calls.                 *)
THEOREM ClientRetriesSafely == Client!Spec => []RetryIsHarmless
<1>1. ClientInv => RetryIsHarmless
  BY DEF ClientInv
<1> QED
  BY <1>1, ClientInitInv, ClientNextInv, PTL DEF Client!Spec

-----------------------------------------------------------------------------
(***************************************************************************)
(* Conversations: two requests that are about to create the same thread    *)
(* have crossed, and so has one whose thread has come to exist.            *)
(***************************************************************************)
ChatKeys == Contexts \cup Nat \cup {"none"}
ChatWork == [pc : {"idle", "create", "notify"}, key : ChatKeys]
Message  == [thread : Nat, sender : Chat!Users, read : BOOLEAN]
Notice   == [user : Chat!Users, about : Nat, read : BOOLEAN]

ChatTypes ==
    /\ threads \in Seq(Contexts) /\ messages \in Seq(Message) /\ notices \in Seq(Notice)
    /\ chatReq \in [Requests -> ChatWork]
    /\ \A r \in Requests : /\ chatReq[r].pc = "create" => chatReq[r].key \in Contexts
                           /\ chatReq[r].pc = "notify" => chatReq[r].key \in DOMAIN messages

Creates(r, c) == chatReq[r].pc = "create" /\ chatReq[r].key = c

ThreadInv ==
    /\ OneThreadUnlessCrossed
    /\ \A r, s \in Requests, c \in Contexts :
          r # s /\ Creates(r, c) /\ Creates(s, c) => c \in crossed
    /\ \A r \in Requests, t \in DOMAIN threads : Creates(r, threads[t]) => threads[t] \in crossed

(* What a message's sender has yet to tell is told to the other, once.     *)
Notifies(r, m) == chatReq[r].pc = "notify" /\ chatReq[r].key = m

Untold(m) == \A n \in DOMAIN notices : notices[n].about # m
AllSaid(m) == \A r \in Requests : ~ Notifies(r, m)

NoticeDue(m) == (\E r \in Requests : Notifies(r, m)) /\ m \notin unsaid /\ Untold(m)
NoticeLost(m) == AllSaid(m) /\ m \in unsaid /\ Untold(m)
NoticeGiven(m) == AllSaid(m) /\ m \notin unsaid /\ ~ Untold(m)

NoticeOf(m) == NoticeDue(m) \/ NoticeLost(m) \/ NoticeGiven(m)

NoticeInv ==
    /\ \A r, s \in Requests, m \in DOMAIN messages : Notifies(r, m) /\ Notifies(s, m) => r = s
    /\ \A n \in DOMAIN notices :
          /\ notices[n].about \in DOMAIN messages
          /\ notices[n].user = Chat!Other(messages[notices[n].about].sender)
          /\ \A k \in DOMAIN notices : notices[k].about = notices[n].about => k = n
    /\ \A m \in DOMAIN messages : NoticeOf(m)
    /\ unsaid \subseteq DOMAIN messages

ChatInv == ChatTypes /\ ThreadInv /\ NoticeInv

LEMMA ChatInitInv == Chat!Init => ChatInv
BY DEF Chat!Init, Chat!Idle, ChatInv, ChatTypes, ChatWork, ChatKeys, ThreadInv, NoticeInv,
       Notifies, NoticeOf, Creates, OneThreadUnlessCrossed, Chat!OneThreadUnlessCrossed

(* One request's work is replaced. *)
LEMMA ChatGo ==
    ASSUME chatReq \in [Requests -> ChatWork], NEW r \in Requests,
           NEW pc \in {"idle", "create", "notify"}, NEW key \in ChatKeys, Chat!Go(r, pc, key)
    PROVE  /\ chatReq' \in [Requests -> ChatWork]
           /\ chatReq'[r].pc = pc /\ chatReq'[r].key = key
           /\ \A s \in Requests : s # r => chatReq'[s] = chatReq[s]
<1>1. PICK x : x = [pc |-> pc, key |-> key]
  OBVIOUS
<1>2. x \in ChatWork /\ x.pc = pc /\ x.key = key
  BY <1>1 DEF ChatWork
<1>3. chatReq' = [chatReq EXCEPT ![r] = x]
  BY <1>1 DEF Chat!Go
<1> QED
  BY <1>2, <1>3

LEMMA ChatEnd ==
    ASSUME chatReq \in [Requests -> ChatWork], NEW r \in Requests, Chat!End(r)
    PROVE  /\ chatReq' \in [Requests -> ChatWork]
           /\ chatReq'[r].pc = "idle"
           /\ \A s \in Requests : s # r => chatReq'[s] = chatReq[s]
<1>1. PICK x : x = Chat!Idle
  OBVIOUS
<1>2. x \in ChatWork /\ x.pc = "idle"
  BY <1>1 DEF ChatWork, ChatKeys, Chat!Idle
<1>3. chatReq' = [chatReq EXCEPT ![r] = x]
  BY <1>1 DEF Chat!End
<1> QED
  BY <1>2, <1>3

(* A step that changes the work of request r only.                         *)
ChatOthers(r) == /\ chatReq' \in [Requests -> ChatWork]
                 /\ \A s \in Requests : s # r => chatReq'[s] = chatReq[s]

(* Nothing that concerns the threads: r neither was nor is creating one.   *)
LEMMA ThreadStays ==
    ASSUME ThreadInv, UNCHANGED threads, crossed \subseteq crossed',
           \A c : \A r \in Requests : Creates(r, c)' => Creates(r, c)
    PROVE  ThreadInv'
BY DEF ThreadInv, OneThreadUnlessCrossed, Chat!OneThreadUnlessCrossed

(* Nothing that concerns the notices.                                      *)
LEMMA NoticeStays ==
    ASSUME NoticeInv, UNCHANGED <<messages, notices, unsaid>>,
           \A m : \A r \in Requests : Notifies(r, m)' <=> Notifies(r, m)
    PROVE  NoticeInv'
BY Zenon DEF NoticeInv, NoticeOf, NoticeDue, NoticeLost, NoticeGiven, Untold, AllSaid

LEMMA ChatOpenLook ==
    ASSUME ChatInv, NEW r \in Requests, NEW u \in Chat!Users, NEW c \in Contexts,
           Chat!OpenLook(r, u, c)
    PROVE  ChatInv'
<1>1. /\ chatReq[r].pc = "idle" /\ UNCHANGED <<threads, messages, notices, unsaid>>
      /\ crossed \subseteq crossed'
  BY DEF Chat!OpenLook
<1>2. CASE Chat!Existing(c) # {}
  <2>1. UNCHANGED chatReq
    BY <1>2 DEF Chat!OpenLook
  <2>2. ThreadInv' /\ NoticeInv'
    BY <1>1, <2>1, ThreadStays, NoticeStays DEF ChatInv, Creates, Notifies
  <2> QED
    BY <1>1, <2>1, <2>2 DEF ChatInv, ChatTypes
<1>3. CASE Chat!Existing(c) = {}
  <2>1. /\ chatReq' \in [Requests -> ChatWork]
        /\ chatReq'[r].pc = "create" /\ chatReq'[r].key = c
        /\ \A s \in Requests : s # r => chatReq'[s] = chatReq[s]
    BY <1>3, ChatGo DEF Chat!OpenLook, ChatInv, ChatTypes, ChatKeys
  <2>2. ChatTypes'
    BY <1>1, <2>1 DEF ChatInv, ChatTypes
  <2>3. NoticeInv'
    BY <1>1, <2>1, NoticeStays DEF ChatInv, Notifies
  <2>4. \A t \in DOMAIN threads : threads[t] # c
    BY <1>3 DEF Chat!Existing
  <2>5. \A s \in Requests : Creates(s, c) => c \in crossed'
    BY <1>3 DEF Chat!OpenLook, Chat!Opening, Creates
  <2>6. ThreadInv'
    BY <1>1, <2>1, <2>4, <2>5
       DEF ChatInv, ThreadInv, Creates, OneThreadUnlessCrossed, Chat!OneThreadUnlessCrossed
  <2> QED
    BY <2>2, <2>3, <2>6 DEF ChatInv
<1> QED
  BY <1>2, <1>3

LEMMA ChatOpenCreate ==
    ASSUME ChatInv, NEW r \in Requests, Chat!OpenCreate(r)
    PROVE  ChatInv'
<1>1. PICK c \in Contexts : chatReq[r].pc = "create" /\ chatReq[r].key = c
  BY DEF Chat!OpenCreate, ChatInv, ChatTypes
<1>2. threads' = Append(threads, c) /\ UNCHANGED <<messages, notices, crossed, unsaid>>
  BY <1>1 DEF Chat!OpenCreate
<1>3. /\ chatReq' \in [Requests -> ChatWork] /\ chatReq'[r].pc = "idle"
      /\ \A s \in Requests : s # r => chatReq'[s] = chatReq[s]
  BY ChatEnd DEF Chat!OpenCreate, ChatInv, ChatTypes
<1>4. ChatTypes'
  <2>1. threads' \in Seq(Contexts)
    BY <1>2 DEF ChatInv, ChatTypes
  <2> QED
    BY <1>2, <1>3, <2>1 DEF ChatInv, ChatTypes
<1>5. NoticeInv'
  BY <1>1, <1>2, <1>3, NoticeStays DEF ChatInv, Notifies
<1>6. /\ DOMAIN threads' = DOMAIN threads \cup {Len(threads) + 1}
      /\ threads'[Len(threads) + 1] = c
      /\ \A t \in DOMAIN threads : threads'[t] = threads[t] /\ t # Len(threads) + 1
  BY <1>2 DEF ChatInv, ChatTypes
<1>7. \A t \in DOMAIN threads : threads[t] = c => c \in crossed
  BY <1>1 DEF ChatInv, ThreadInv, Creates
<1>8. \A s \in Requests : s # r /\ Creates(s, c) => c \in crossed
  BY <1>1 DEF ChatInv, ThreadInv, Creates
<1>9. ThreadInv'
  BY <1>1, <1>2, <1>3, <1>6, <1>7, <1>8
     DEF ChatInv, ThreadInv, Creates, OneThreadUnlessCrossed, Chat!OneThreadUnlessCrossed
<1> QED
  BY <1>4, <1>5, <1>9 DEF ChatInv

LEMMA ChatPost ==
    ASSUME ChatInv, NEW r \in Requests, NEW u \in Chat!Users, NEW t, Chat!Post(r, u, t)
    PROVE  ChatInv'
<1>0. PICK m : m = Len(messages) + 1
  OBVIOUS
<1>1. PICK x : x = [thread |-> t, sender |-> u, read |-> FALSE]
  OBVIOUS
<1>2. x \in Message /\ x.sender = u
  BY <1>1 DEF Chat!Post, ChatInv, ChatTypes, Message
<1>3. /\ messages' = Append(messages, x) /\ UNCHANGED <<threads, notices, crossed, unsaid>>
      /\ chatReq[r].pc = "idle"
  BY <1>1 DEF Chat!Post
<1>4. /\ m \in Nat /\ m \notin DOMAIN messages
      /\ messages' \in Seq(Message) /\ DOMAIN messages' = DOMAIN messages \cup {m}
      /\ \A k \in DOMAIN messages : messages'[k] = messages[k]
  BY <1>0, <1>2, <1>3 DEF ChatInv, ChatTypes
<1>5. /\ chatReq' \in [Requests -> ChatWork]
      /\ chatReq'[r].pc = "notify" /\ chatReq'[r].key = m
      /\ \A s \in Requests : s # r => chatReq'[s] = chatReq[s]
  BY <1>0, <1>4, ChatGo DEF Chat!Post, ChatInv, ChatTypes, ChatKeys
<1>6. ChatTypes'
  BY <1>3, <1>4, <1>5 DEF ChatInv, ChatTypes
<1>7. ThreadInv'
  BY <1>3, <1>5, ThreadStays DEF ChatInv, Creates
<1>8. \A s \in Requests : ~ Notifies(s, m)
  BY <1>4 DEF ChatInv, ChatTypes, Notifies
<1>9. \A s \in Requests, k \in DOMAIN messages : Notifies(s, k)' <=> Notifies(s, k)
  BY <1>3, <1>4, <1>5 DEF Notifies
<1>10. \A s \in Requests : Notifies(s, m)' <=> s = r
  BY <1>5, <1>8 DEF Notifies
<1>11. \A n \in DOMAIN notices : notices[n].about # m
  BY <1>4 DEF ChatInv, NoticeInv
<1>12. \A k \in DOMAIN messages : NoticeOf(k)'
  BY <1>3, <1>9, Zenon
     DEF ChatInv, NoticeInv, NoticeOf, NoticeDue, NoticeLost, NoticeGiven, Untold, AllSaid
<1>13. NoticeOf(m)'
  <2>1. Notifies(r, m)' /\ m \notin unsaid' /\ Untold(m)'
    BY <1>3, <1>4, <1>10, <1>11 DEF ChatInv, NoticeInv, Untold
  <2> QED
    BY <2>1, Zenon DEF NoticeOf, NoticeDue
<1>14. \A s, q \in Requests, k \in DOMAIN messages' :
          Notifies(s, k)' /\ Notifies(q, k)' => s = q
  <2>1. \A s, q \in Requests, k \in DOMAIN messages :
           Notifies(s, k)' /\ Notifies(q, k)' => s = q
    BY <1>9, Zenon DEF ChatInv, NoticeInv
  <2> QED
    BY <1>4, <1>10, <2>1
<1>15. unsaid' \subseteq DOMAIN messages'
  BY <1>3, <1>4 DEF ChatInv, NoticeInv
<1>16. \A n \in DOMAIN notices' :
          /\ notices'[n].about \in DOMAIN messages'
          /\ notices'[n].user = Chat!Other(messages'[notices'[n].about].sender)
          /\ \A k \in DOMAIN notices' : notices'[k].about = notices'[n].about => k = n
  BY <1>3, <1>4, Zenon DEF ChatInv, NoticeInv
<1>17. NoticeInv'
  BY <1>4, <1>12, <1>13, <1>14, <1>15, <1>16, Zenon DEF NoticeInv
<1> QED
  BY <1>6, <1>7, <1>17 DEF ChatInv

LEMMA ChatNotify ==
    ASSUME ChatInv, NEW r \in Requests, Chat!NotifyRecipient(r)
    PROVE  ChatInv'
<1>1. PICK m \in DOMAIN messages : Notifies(r, m)
  BY DEF Chat!NotifyRecipient, ChatInv, ChatTypes, Notifies
<1>2. PICK x : x = [user |-> Chat!Other(messages[m].sender), about |-> m, read |-> FALSE]
  OBVIOUS
<1>3. x \in Notice /\ x.user = Chat!Other(messages[m].sender) /\ x.about = m
  BY <1>2 DEF Notice, Chat!Other, Chat!Users, ChatInv, ChatTypes
<1>4. notices' = Append(notices, x) /\ UNCHANGED <<threads, messages, crossed, unsaid>>
  BY <1>1, <1>2 DEF Chat!NotifyRecipient, Chat!Recipient, Notifies
<1>5. /\ chatReq' \in [Requests -> ChatWork] /\ chatReq'[r].pc = "idle"
      /\ \A s \in Requests : s # r => chatReq'[s] = chatReq[s]
  BY ChatEnd DEF Chat!NotifyRecipient, ChatInv, ChatTypes
<1>6. /\ notices' \in Seq(Notice) /\ DOMAIN notices' = DOMAIN notices \cup {Len(notices) + 1}
      /\ Len(notices) + 1 \notin DOMAIN notices /\ notices'[Len(notices) + 1] = x
      /\ \A n \in DOMAIN notices : notices'[n] = notices[n]
  BY <1>3, <1>4 DEF ChatInv, ChatTypes
<1>7. ChatTypes'
  BY <1>4, <1>5, <1>6 DEF ChatInv, ChatTypes
<1>8. ThreadInv'
  BY <1>1, <1>4, <1>5, ThreadStays DEF ChatInv, Creates, Notifies
<1>9. m \notin unsaid /\ \A n \in DOMAIN notices : notices[n].about # m
  BY <1>1 DEF ChatInv, NoticeInv, NoticeOf, NoticeDue, NoticeLost, NoticeGiven, Untold, AllSaid
<1>10. \A s \in Requests, k \in DOMAIN messages : Notifies(s, k)' <=> Notifies(s, k) /\ s # r
  BY <1>5 DEF Notifies
<1>11. \A s \in Requests : ~ Notifies(s, m)'
  BY <1>1, <1>10 DEF ChatInv, NoticeInv
<1>12. \A k \in DOMAIN messages : ~ Notifies(r, k) \/ k = m
  BY <1>1 DEF Notifies
<1>13. \A k \in DOMAIN messages :
          k # m => \A s \in Requests : Notifies(s, k)' <=> Notifies(s, k)
  BY <1>10, <1>12
<1>14. \A n \in DOMAIN notices' :
          /\ notices'[n].about \in DOMAIN messages
          /\ notices'[n].user = Chat!Other(messages[notices'[n].about].sender)
          /\ \A k \in DOMAIN notices' : notices'[k].about = notices'[n].about => k = n
  BY <1>3, <1>6, <1>9, Zenon DEF ChatInv, NoticeInv
<1>15. \A k \in DOMAIN messages : NoticeOf(k)'
  <2> TAKE k \in DOMAIN messages
  <2>1. CASE k = m
    <3>1. ~ Untold(m)' /\ AllSaid(m)' /\ m \notin unsaid'
      BY <1>3, <1>4, <1>6, <1>9, <1>11 DEF Untold, AllSaid
    <3> QED
      BY <2>1, <3>1 DEF NoticeOf, NoticeGiven
  <2>2. CASE k # m
    <3>1. Untold(k)' <=> Untold(k)
      BY <1>3, <1>6, <2>2 DEF Untold
    <3>2. NoticeOf(k)
      BY DEF ChatInv, NoticeInv
    <3> QED
      BY <1>4, <1>13, <2>2, <3>1, <3>2, Zenon
         DEF NoticeOf, NoticeDue, NoticeLost, NoticeGiven, AllSaid
  <2> QED
    BY <2>1, <2>2
<1>16. NoticeInv'
  BY <1>4, <1>10, <1>14, <1>15, Zenon DEF ChatInv, NoticeInv
<1> QED
  BY <1>7, <1>8, <1>16 DEF ChatInv

LEMMA ChatBreak ==
    ASSUME ChatInv, NEW r \in Requests, Chat!Break(r)
    PROVE  ChatInv'
<1>1. UNCHANGED <<threads, messages, notices, crossed>>
  BY DEF Chat!Break
<1>2. /\ chatReq' \in [Requests -> ChatWork] /\ chatReq'[r].pc = "idle"
      /\ \A s \in Requests : s # r => chatReq'[s] = chatReq[s]
  BY ChatEnd DEF Chat!Break, ChatInv, ChatTypes
<1>3. ChatTypes'
  BY <1>1, <1>2 DEF ChatInv, ChatTypes
<1>4. ThreadInv'
  BY <1>1, <1>2, ThreadStays DEF ChatInv, Creates
<1>5. CASE chatReq[r].pc # "notify"
  BY <1>1, <1>2, <1>3, <1>4, <1>5, NoticeStays DEF Chat!Break, ChatInv, Notifies
<1>6. CASE chatReq[r].pc = "notify"
  <2>1. PICK m \in DOMAIN messages : Notifies(r, m)
    BY <1>6 DEF ChatInv, ChatTypes, Notifies
  <2>2. unsaid' = unsaid \cup {m}
    BY <1>6, <2>1 DEF Chat!Break, Notifies
  <2>3. m \notin unsaid /\ \A n \in DOMAIN notices : notices[n].about # m
    BY <2>1 DEF ChatInv, NoticeInv, NoticeOf, NoticeDue, NoticeLost, NoticeGiven, Untold, AllSaid
  <2>4. \A s \in Requests, k \in DOMAIN messages : Notifies(s, k)' <=> Notifies(s, k) /\ s # r
    BY <1>2 DEF Notifies
  <2>5. \A s \in Requests : ~ Notifies(s, m)'
    BY <2>1, <2>4 DEF ChatInv, NoticeInv
  <2>6. \A k \in DOMAIN messages :
            k # m => \A s \in Requests : Notifies(s, k)' <=> Notifies(s, k)
    BY <2>1, <2>4 DEF Notifies
  <2>7. NoticeLost(m)' /\ \A k \in DOMAIN messages : k # m => NoticeOf(k)'
    BY <1>1, <2>2, <2>3, <2>5, <2>6, Zenon DEF ChatInv, NoticeInv, NoticeOf, NoticeDue, NoticeLost, NoticeGiven, Untold, AllSaid
  <2>8. NoticeInv'
    <3>1. \A k \in DOMAIN messages : NoticeOf(k)'
      BY <2>7, Zenon DEF NoticeOf
    <3>2. unsaid' \subseteq DOMAIN messages
      BY <2>1, <2>2 DEF ChatInv, NoticeInv
    <3>3. \A s, q \in Requests, k \in DOMAIN messages :
             Notifies(s, k)' /\ Notifies(q, k)' => s = q
      BY <2>4 DEF ChatInv, NoticeInv
    <3> QED
      BY <1>1, <3>1, <3>2, <3>3, Zenon DEF ChatInv, NoticeInv
  <2> QED
    BY <1>3, <1>4, <2>8 DEF ChatInv
<1> QED
  BY <1>5, <1>6

LEMMA ChatRead ==
    ASSUME ChatInv, NEW u, NEW t, Chat!MarkThreadRead(u, t)
    PROVE  ChatInv'
<1>1. UNCHANGED <<threads, notices, chatReq, crossed, unsaid>>
  BY DEF Chat!MarkThreadRead
<1>2. /\ messages' \in Seq(Message) /\ DOMAIN messages' = DOMAIN messages
      /\ \A m \in DOMAIN messages : messages'[m].sender = messages[m].sender
  <2>1. \A m \in DOMAIN messages :
           /\ messages'[m] \in Message /\ messages'[m].sender = messages[m].sender
    <3> TAKE m \in DOMAIN messages
    <3>1. PICK x : x = [messages[m] EXCEPT !.read = TRUE]
      OBVIOUS
    <3>2. messages[m] \in Message
      BY DEF ChatInv, ChatTypes
    <3>3. x \in Message /\ x.sender = messages[m].sender
      BY <3>1, <3>2 DEF Message
    <3>4. messages'[m] \in {messages[m], x}
      BY <3>1 DEF Chat!MarkThreadRead
    <3> QED
      BY <3>2, <3>3, <3>4
  <2>2. DOMAIN messages = 1..Len(messages) /\ Len(messages) \in Nat
    BY DEF ChatInv, ChatTypes
  <2>3. messages' = [m \in 1..Len(messages) |-> messages'[m]]
    BY <2>2 DEF Chat!MarkThreadRead
  <2>4. messages' \in Seq(Message)
    BY <2>1, <2>2, <2>3
  <2> QED
    BY <2>1, <2>3, <2>4, <2>2
<1>3. ChatTypes'
  BY <1>1, <1>2 DEF ChatInv, ChatTypes
<1>4. ThreadInv'
  BY <1>1, ThreadStays DEF ChatInv, Creates
<1>5. NoticeInv'
  BY <1>1, <1>2, Zenon
     DEF ChatInv, NoticeInv, Notifies, NoticeOf, NoticeDue, NoticeLost, NoticeGiven, Untold, AllSaid
<1> QED
  BY <1>3, <1>4, <1>5 DEF ChatInv

LEMMA ChatReadNotices ==
    ASSUME ChatInv, NEW u, NEW which, Chat!ReadNotices(u, which)
    PROVE  ChatInv'
<1>1. UNCHANGED <<threads, messages, chatReq, crossed, unsaid>>
  BY DEF Chat!ReadNotices
<1>2. /\ notices' \in Seq(Notice) /\ DOMAIN notices' = DOMAIN notices
      /\ \A n \in DOMAIN notices : /\ notices'[n].about = notices[n].about
                                   /\ notices'[n].user = notices[n].user
  <2>1. \A n \in DOMAIN notices :
           /\ notices'[n] \in Notice
           /\ notices'[n].about = notices[n].about /\ notices'[n].user = notices[n].user
    <3> TAKE n \in DOMAIN notices
    <3>1. PICK x : x = [notices[n] EXCEPT !.read = TRUE]
      OBVIOUS
    <3>2. notices[n] \in Notice
      BY DEF ChatInv, ChatTypes
    <3>3. x \in Notice /\ x.about = notices[n].about /\ x.user = notices[n].user
      BY <3>1, <3>2 DEF Notice
    <3>4. notices'[n] \in {notices[n], x}
      BY <3>1 DEF Chat!ReadNotices
    <3> QED
      BY <3>2, <3>3, <3>4
  <2>2. DOMAIN notices = 1..Len(notices) /\ Len(notices) \in Nat
    BY DEF ChatInv, ChatTypes
  <2>3. notices' = [n \in 1..Len(notices) |-> notices'[n]]
    BY <2>2 DEF Chat!ReadNotices
  <2>4. notices' \in Seq(Notice)
    BY <2>1, <2>2, <2>3
  <2> QED
    BY <2>1, <2>3, <2>4, <2>2
<1>3. ChatTypes'
  BY <1>1, <1>2 DEF ChatInv, ChatTypes
<1>4. ThreadInv'
  BY <1>1, ThreadStays DEF ChatInv, Creates
<1>5. \A m \in DOMAIN messages : NoticeOf(m)' <=> NoticeOf(m)
  <2>1. \A m : Untold(m)' <=> Untold(m)
    BY <1>2 DEF Untold
  <2> QED
    BY <1>1, <2>1, Zenon
       DEF NoticeOf, NoticeDue, NoticeLost, NoticeGiven, AllSaid, Notifies
<1>6. \A n \in DOMAIN notices' :
         /\ notices'[n].about \in DOMAIN messages
         /\ notices'[n].user = Chat!Other(messages[notices'[n].about].sender)
         /\ \A k \in DOMAIN notices' : notices'[k].about = notices'[n].about => k = n
  BY <1>2 DEF ChatInv, NoticeInv
<1>7. NoticeInv'
  BY <1>1, <1>5, <1>6, Zenon DEF ChatInv, NoticeInv, Notifies
<1> QED
  BY <1>3, <1>4, <1>7 DEF ChatInv

LEMMA ChatNextInv == ChatInv /\ [Chat!Next]_(Chat!vars) => ChatInv'
<1>1. ASSUME ChatInv, UNCHANGED Chat!vars PROVE ChatInv'
  <2>1. UNCHANGED <<threads, messages, notices, chatReq, crossed, unsaid>>
    BY <1>1 DEF Chat!vars
  <2>2. ThreadInv' /\ NoticeInv'
    BY <1>1, <2>1, ThreadStays, NoticeStays DEF ChatInv, Creates, Notifies
  <2> QED
    BY <1>1, <2>1, <2>2 DEF ChatInv, ChatTypes
<1> QED
  BY <1>1, ChatOpenLook, ChatOpenCreate, ChatPost, ChatNotify, ChatBreak, ChatRead,
     ChatReadNotices DEF Chat!Next

(* OneThreadUnlessCrossed: the two have one thread in each context, unless *)
(* two requests looked for it before either had created it.                *)
THEOREM OneThreadEach == Chat!Spec => []OneThreadUnlessCrossed
<1>1. ChatInv => OneThreadUnlessCrossed
  BY DEF ChatInv, ThreadInv
<1> QED
  BY <1>1, ChatInitInv, ChatNextInv, PTL DEF Chat!Spec

(* Conversations has its own instance of FiniteSets. *)
LEMMA ChatCardinality == \A S : Chat!Cardinality(S) = Cardinality(S)
BY DEF Chat!Cardinality, Cardinality

ToldOnce(m) == /\ \A n \in Chat!About(m) : notices[n].user # messages[m].sender
               /\ Cardinality(Chat!About(m))
                      = IF Chat!Sending(m) \/ m \in unsaid THEN 0 ELSE 1

(* RecipientIsTold: of every message, exactly once, unless that was lost.  *)
THEOREM EveryMessageIsTold == Chat!Spec => []RecipientIsTold
<1>1. ChatInv => RecipientIsTold
  <2> SUFFICES ASSUME ChatInv, NEW m \in DOMAIN messages PROVE ToldOnce(m)
    <3>1. (\A k \in DOMAIN messages : ToldOnce(k)) => RecipientIsTold
      BY ChatCardinality DEF RecipientIsTold, Chat!RecipientIsTold, ToldOnce
    <3> QED
      BY <3>1
  <2>0. NoticeOf(m)
    BY DEF ChatInv, NoticeInv
  <2>1. \A n \in Chat!About(m) : notices[n].user # messages[m].sender
    <3>1. messages[m] \in Message
      BY DEF ChatInv, ChatTypes
    <3>2. messages[m].sender \in Chat!Users
      BY <3>1 DEF Message
    <3> QED
      BY <3>2 DEF ChatInv, NoticeInv, Chat!About, Chat!Other, Chat!Users
  <2>2. Chat!Sending(m) <=> \E r \in Requests : Notifies(r, m)
    BY DEF Chat!Sending, Notifies
  <2>3. CASE Chat!Sending(m) \/ m \in unsaid
    <3>1. Chat!About(m) = {}
      BY <2>0, <2>2, <2>3
         DEF NoticeOf, NoticeDue, NoticeLost, NoticeGiven, Untold, AllSaid, Chat!About
    <3> QED
      BY <2>1, <2>3, <3>1, FS_EmptySet DEF ToldOnce
  <2>4. CASE ~ (Chat!Sending(m) \/ m \in unsaid)
    <3>1. PICK n \in DOMAIN notices : notices[n].about = m
      BY <2>0, <2>2, <2>4 DEF NoticeOf, NoticeDue, NoticeLost, NoticeGiven, Untold
    <3>2. Chat!About(m) = {n}
      BY <3>1 DEF ChatInv, NoticeInv, Chat!About
    <3> QED
      BY <2>1, <2>4, <3>2, FS_Singleton DEF ToldOnce
  <2> QED
    BY <2>3, <2>4
<1> QED
  BY <1>1, ChatInitInv, ChatNextInv, PTL DEF Chat!Spec

-----------------------------------------------------------------------------
(***************************************************************************)
(* Gallery: a picture that was neither lost nor misread is on the disk as  *)
(* it was uploaded, or in the database only, unless it never was anywhere; *)
(* and each request knows of one picture, or none, that leads.             *)
(***************************************************************************)
Ids  == Picture!Ids
Live == Picture!Live
Primaries == Picture!Primaries

(* The records, whatever their orders are. *)
IsRow(x) == x \in [state : {"unborn", "live", "deleted"}, primary : BOOLEAN, order : {x.order}]
IsWork(w) == w \in [pc : {"idle", "create", "demote", "promote", "delete", "next"}, todo : Int,
                    first : BOOLEAN, lead : BOOLEAN, order : {w.order}, id : Int]

PictureTypes ==
    /\ image = [i \in Ids |-> image[i]] /\ \A i \in Ids : IsRow(image[i])
    /\ disk \in [Ids -> Picture!Bytes] /\ stored \in [Ids -> Picture!Bytes]
    /\ imageReq = [r \in Requests |-> imageReq[r]] /\ \A r \in Requests : IsWork(imageReq[r])
    /\ listed = [i \in Ids |-> listed[i]] /\ \A i \in Ids : IsRow(listed[i])
    /\ disturbed \in BOOLEAN /\ diskLost \in BOOLEAN

Kept(i) == /\ stored[i] \in {"none", "picture"}
           /\ disk[i] = "picture" \/ (disk[i] = "none" /\ stored[i] = "picture")

Never(i) == /\ disk[i] = "none" /\ stored[i] = "none"
            /\ image[i].state # "live" /\ listed[i] = Picture!NoImage

KeptInv == \A i \in Ids :
              /\ image[i].state = "unborn" => disk[i] = "none" /\ stored[i] = "none"
              /\ i \notin lost \cup misread => Kept(i) \/ Never(i)
              /\ listed[i] # Picture!NoImage => listed[i].state = "live"

Single == \A i, j \in Primaries : i = j

OneLeads == Single /\ (~ diskLost /\ Live # {} => Primaries # {})

(* What a request counts on, while it is the only one. *)
Phase(w) ==
    /\ w.pc \in {"create", "delete"} => OneLeads
    /\ w.pc = "create" /\ ~ (w.first /\ w.lead) /\ ~ diskLost => Primaries # {}
    /\ w.pc \in {"demote", "promote", "delete"} => w.id \in Live
    /\ w.pc = "promote" => Primaries \subseteq {w.id}
    /\ w.pc = "delete" => (w.lead <=> image[w.id].primary)
    /\ w.pc = "next" => Primaries = {}

AtWork(r) == imageReq[r].pc # "idle"

SerialInv ==
    ~ disturbed =>
        /\ ~ diskLost => \A i \in Live : disk[i] # "none"
        /\ \A r, s \in Requests : AtWork(r) /\ AtWork(s) => r = s
        /\ \A r \in Requests : AtWork(r) => Phase(imageReq[r])
        /\ (\A r \in Requests : ~ AtWork(r)) => OneLeads

PictureInv == PictureTypes /\ KeptInv /\ SerialInv

LEMMA PictureInitInv == Picture!Init => PictureInv
<1> SUFFICES ASSUME Picture!Init PROVE PictureInv
  OBVIOUS
<1> USE DEF Picture!Init, Picture!Ids, Ids
<1>1. \A i \in Ids : image[i].state = "unborn" /\ IsRow(image[i])
  BY DEF Picture!NoImage, IsRow
<1>0. \A i \in Ids : listed[i] = Picture!NoImage /\ IsRow(listed[i])
  BY DEF Picture!NoImage, IsRow
<1>2. \A r \in Requests : imageReq[r].pc = "idle" /\ IsWork(imageReq[r])
  BY DEF Picture!Idle, IsWork
<1>3. Live = {}
  BY <1>1 DEF Live, Picture!Live
<1>4. PictureTypes
  BY <1>0, <1>1, <1>2 DEF PictureTypes, Picture!Bytes
<1>5. KeptInv
  BY <1>0, <1>1 DEF KeptInv, Never
<1>6. SerialInv
  BY <1>2, <1>3 DEF SerialInv, AtWork, OneLeads, Single, Primaries, Picture!Primaries, Live
<1> QED
  BY <1>4, <1>5, <1>6 DEF PictureInv

LEMMA PictureGo ==
    ASSUME PictureTypes, NEW r \in Requests, NEW x, IsWork(x),
           imageReq' = [imageReq EXCEPT ![r] = x]
    PROVE  /\ imageReq' = [q \in Requests |-> imageReq'[q]]
           /\ \A q \in Requests : IsWork(imageReq'[q])
           /\ imageReq'[r] = x
           /\ \A q \in Requests : q # r => imageReq'[q] = imageReq[q]
BY Zenon DEF PictureTypes

LEMMA IdleIsWork == IsWork(Picture!Idle) /\ Picture!Idle.pc = "idle"
BY DEF IsWork, Picture!Idle

LEMMA NoImageIsRow == IsRow(Picture!NoImage)
BY DEF IsRow, Picture!NoImage

LEMMA RestIsWork ==
    ASSUME NEW w, IsWork(w)
    PROVE  /\ IsWork(Picture!Rest(w)) /\ Picture!Rest(w).pc \in {"idle", "create"}
           /\ Picture!Rest(w).pc = "create" => ~ Picture!Rest(w).first
<1>1. PICK x : x = [w EXCEPT !.pc = "create", !.first = FALSE, !.lead = FALSE, !.id = 0]
  OBVIOUS
<1>2. x = [pc |-> "create", todo |-> w.todo, first |-> FALSE, lead |-> FALSE,
           order |-> w.order, id |-> 0]
  BY <1>1 DEF IsWork
<1>3. w.todo \in Int
  BY DEF IsWork
<1>4. IsWork(x) /\ x.pc = "create" /\ ~ x.first
  BY <1>2, <1>3 DEF IsWork
<1>5. Picture!Rest(w) \in {Picture!Idle, x}
  BY <1>1 DEF Picture!Rest
<1> QED
  BY <1>4, <1>5, IdleIsWork

(* The only request goes on. *)
LEMMA SerialGo ==
    ASSUME PictureInv, NEW r \in Requests, ~ disturbed, UNCHANGED diskLost,
           AtWork(r) \/ \A q \in Requests : ~ AtWork(q),
           \A q \in Requests : q # r => imageReq'[q] = imageReq[q],
           AtWork(r)' => Phase(imageReq[r])', ~ AtWork(r)' => OneLeads',
           ~ diskLost => \A i \in Live' : disk'[i] # "none"
    PROVE  SerialInv'
<1>1. \A q \in Requests : q # r => ~ AtWork(q)
  BY DEF PictureInv, SerialInv
<1>2. \A q \in Requests : q # r => ~ AtWork(q)'
  BY <1>1 DEF AtWork
<1> QED
  BY <1>2, Zenon DEF SerialInv

LEMMA Undisturbed ==
    ASSUME PictureInv, ~ disturbed
    PROVE  /\ ~ diskLost => \A i \in Live : disk[i] # "none"
           /\ \A r \in Requests : AtWork(r) => Phase(imageReq[r])
           /\ (\A r \in Requests : ~ AtWork(r)) => OneLeads
BY DEF PictureInv, SerialInv

(* The pictures stay; a request begins. *)
LEMMA PictureBegin ==
    ASSUME PictureInv, NEW r \in Requests, NEW x, IsWork(x), x.pc # "idle",
           Picture!Begin(r, x), OneLeads => Phase(x)
    PROVE  PictureInv'
<1>1. /\ imageReq[r].pc = "idle" /\ imageReq' = [imageReq EXCEPT ![r] = x]
      /\ disturbed' = (disturbed \/ \E q \in Requests : imageReq[q].pc # "idle")
      /\ UNCHANGED <<image, disk, stored, listed, lost, misread, diskLost>>
  BY DEF Picture!Begin
<1>2. /\ imageReq' = [q \in Requests |-> imageReq'[q]]
      /\ \A q \in Requests : IsWork(imageReq'[q])
      /\ imageReq'[r] = x
      /\ \A q \in Requests : q # r => imageReq'[q] = imageReq[q]
  BY <1>1, PictureGo DEF PictureInv
<1>3. disturbed' \in BOOLEAN
  BY <1>1, Zenon DEF PictureInv, PictureTypes
<1>4. PictureTypes'
  BY <1>1, <1>2, <1>3, Zenon DEF PictureInv, PictureTypes
<1>5. KeptInv'
  BY <1>1 DEF PictureInv, KeptInv, Kept, Never
<1>6. SerialInv'
  <2>1. CASE disturbed'
    BY <2>1 DEF SerialInv
  <2>2. CASE ~ disturbed'
    <3>1. ~ disturbed /\ \A q \in Requests : ~ AtWork(q)
      BY <1>1, <2>2 DEF AtWork
    <3>2. OneLeads /\ (~ diskLost => \A i \in Live : disk[i] # "none")
      BY <3>1, Undisturbed
    <3>3. Live' = Live /\ Primaries' = Primaries
      BY <1>1 DEF Live, Primaries, Picture!Live, Picture!Primaries
    <3>4. Phase(x)' /\ AtWork(r)'
      BY <1>1, <1>2, <3>2, <3>3, Zenon DEF Phase, AtWork, OneLeads, Single
    <3>5. Phase(imageReq[r])'
      BY <1>2, <3>4, Zenon
    <3> QED
      BY <1>1, <1>2, <3>1, <3>2, <3>3, <3>4, <3>5, SerialGo
  <2> QED
    BY <2>1, <2>2
<1> QED
  BY <1>4, <1>5, <1>6 DEF PictureInv

LEMMA PictureUploadRead ==
    ASSUME PictureInv, NEW r \in Requests, NEW n \in 1..2, NEW lead \in BOOLEAN,
           Picture!UploadRead(r, n, lead)
    PROVE  PictureInv'
<1>1. PICK b \in BOOLEAN : b = (lead \/ Picture!Primaries = {})
  BY Zenon
<1>2. PICK x : x = [pc |-> "create", todo |-> n, first |-> TRUE, id |-> 0, lead |-> b,
                    order |-> Picture!MaxOrder]
  OBVIOUS
<1>3. IsWork(x) /\ x.pc = "create" /\ x.lead = b
  BY <1>2 DEF IsWork
<1>4. Picture!Begin(r, x)
  BY <1>1, <1>2, Zenon DEF Picture!UploadRead
<1>5. Primaries = {} => x.lead
  BY <1>1, <1>3 DEF Primaries
<1>6. OneLeads => Phase(x)
  BY <1>2, <1>3, <1>5 DEF Phase
<1> QED
  BY <1>3, <1>4, <1>6, PictureBegin

LEMMA PictureDeleteRead ==
    ASSUME PictureInv, NEW r \in Requests, NEW i \in Ids, Picture!DeleteRead(r, i)
    PROVE  PictureInv'
<1>1. i \in Live /\ i \in Int
  BY DEF Picture!DeleteRead, Live, Ids, Picture!Ids
<1>2. PICK x : x = [Picture!Idle EXCEPT !.pc = "delete", !.id = i, !.lead = image[i].primary]
  OBVIOUS
<1>3. image[i].primary \in BOOLEAN
  BY DEF PictureInv, PictureTypes, IsRow
<1>4. IsWork(x) /\ x.pc = "delete" /\ x.id = i /\ x.lead = image[i].primary
  <2>1. x = [pc |-> "delete", todo |-> 0, first |-> FALSE, lead |-> image[i].primary,
             order |-> 0, id |-> i]
    BY <1>2 DEF Picture!Idle
  <2> QED
    BY <1>1, <1>3, <2>1 DEF IsWork
<1>5. Picture!Begin(r, x)
  BY <1>2 DEF Picture!DeleteRead
<1>6. OneLeads => Phase(x)
  BY <1>1, <1>4 DEF Phase
<1> QED
  BY <1>4, <1>5, <1>6, PictureBegin

(* A request that works goes on or ends; nothing is disturbed by that.     *)
LEMMA PictureGoesOn ==
    ASSUME PictureInv, NEW r \in Requests, NEW x, IsWork(x), AtWork(r),
           imageReq' = [imageReq EXCEPT ![r] = x], UNCHANGED <<listed, diskLost, disturbed>>,
           image' = [i \in Ids |-> image'[i]], \A i \in Ids : IsRow(image'[i]),
           disk' \in [Ids -> Picture!Bytes], stored' \in [Ids -> Picture!Bytes],
           KeptInv',
           ~ disturbed => /\ x.pc # "idle" => Phase(x)'
                          /\ x.pc = "idle" => OneLeads'
                          /\ ~ diskLost => \A i \in Live' : disk'[i] # "none"
    PROVE  PictureInv'
<1>1. /\ imageReq' = [q \in Requests |-> imageReq'[q]]
      /\ \A q \in Requests : IsWork(imageReq'[q])
      /\ imageReq'[r] = x
      /\ \A q \in Requests : q # r => imageReq'[q] = imageReq[q]
  BY PictureGo DEF PictureInv
<1>2. Ids' = Ids
  BY DEF Ids, Picture!Ids
<1>3. PictureTypes'
  BY <1>1, <1>2, Zenon DEF PictureInv, PictureTypes
<1>4. CASE disturbed
  BY <1>3, <1>4 DEF PictureInv, SerialInv
<1>5. CASE ~ disturbed
  <2>1. AtWork(r)' <=> x.pc # "idle"
    BY <1>1 DEF AtWork
  <2>2. Phase(x)' => Phase(imageReq[r])'
    BY <1>1, Zenon
  <2>3. SerialInv'
    BY <1>1, <1>5, <2>1, <2>2, SerialGo
  <2> QED
    BY <1>3, <2>3 DEF PictureInv
<1> QED
  BY <1>4, <1>5

LEMMA PictureWork ==
    ASSUME PictureInv, NEW r \in Requests
    PROVE  /\ IsWork(imageReq[r])
           /\ AtWork(r) /\ ~ disturbed => Phase(imageReq[r])
BY DEF PictureInv, PictureTypes, SerialInv

LEMMA PictureUploadCreate ==
    ASSUME PictureInv, NEW r \in Requests, Picture!UploadCreate(r)
    PROVE  PictureInv'
<1>1. PICK i \in Ids :
        /\ image[i].state = "unborn"
        /\ image' = [image EXCEPT ![i] = [state |-> "live", primary |-> FALSE,
                                          order |-> imageReq[r].order + 1]]
        /\ Picture!Save(i, "picture")
        /\ LET work == [imageReq[r] EXCEPT !.todo = imageReq[r].todo - 1,
                                           !.order = imageReq[r].order + 1]
           IN imageReq' = [imageReq EXCEPT ![r] = IF work.first /\ work.lead
                                                  THEN [work EXCEPT !.pc = "demote", !.id = i]
                                                  ELSE Picture!Rest(work)]
  BY DEF Picture!UploadCreate, Ids
<1>2. PICK w : w = imageReq[r]
  OBVIOUS
<1>3. IsWork(w) /\ w.pc = "create" /\ (~ disturbed => Phase(w))
  BY <1>2, PictureWork DEF Picture!UploadCreate, AtWork
<1>4. PICK y : y = [state |-> "live", primary |-> FALSE, order |-> w.order + 1]
  OBVIOUS
<1>5. IsRow(y) /\ y.state = "live" /\ y.primary = FALSE
  BY <1>4 DEF IsRow
<1>6. /\ image' = [j \in Ids |-> image'[j]] /\ \A j \in Ids : IsRow(image'[j])
      /\ image'[i] = y /\ \A j \in Ids : j # i => image'[j] = image[j]
  <2>1. image' = [image EXCEPT ![i] = y]
    BY <1>1, <1>2, <1>4
  <2> QED
    BY <1>5, <2>1, Zenon DEF PictureInv, PictureTypes
<1>7. UNCHANGED <<listed, lost, misread, diskLost, disturbed>>
  BY DEF Picture!UploadCreate
<1>8. /\ disk' \in [Ids -> Picture!Bytes] /\ stored' \in [Ids -> Picture!Bytes]
      /\ disk'[i] = "picture" /\ stored'[i] \in {stored[i], "picture"}
      /\ \A j \in Ids : j # i => disk'[j] = disk[j] /\ stored'[j] = stored[j]
  <2>1. PICK copy \in {"none", "picture"} : stored' = [stored EXCEPT ![i] = copy]
    BY <1>1 DEF Picture!Save
  <2>2. disk' = [disk EXCEPT ![i] = "picture"]
    BY <1>1 DEF Picture!Save
  <2>3. disk \in [Ids -> Picture!Bytes] /\ stored \in [Ids -> Picture!Bytes]
    BY DEF PictureInv, PictureTypes
  <2>4. stored[i] = "none"
    BY <1>1 DEF PictureInv, KeptInv
  <2> QED
    BY <2>1, <2>2, <2>3, <2>4 DEF Picture!Bytes
<1>9. KeptInv'
  <2>1. Ids' = Ids
    BY DEF Ids, Picture!Ids
  <2>2. stored[i] = "none"
    BY <1>1 DEF PictureInv, KeptInv
  <2> QED
    BY <1>5, <1>6, <1>7, <1>8, <2>1, <2>2 DEF PictureInv, KeptInv, Kept, Never
<1>10. Live' = Live \cup {i} /\ i \notin Live /\ Primaries' = Primaries
  <2>1. Live' = Live \cup {i} /\ i \notin Live
    BY <1>1, <1>5, <1>6 DEF Live, Picture!Live, Ids, Picture!Ids
  <2> QED
    BY <1>5, <1>6, <2>1 DEF Live, Picture!Live, Primaries, Picture!Primaries, Ids, Picture!Ids
<1>11. Phase(w) /\ ~ (w.first /\ w.lead) => (~ diskLost => Primaries # {}) /\ OneLeads'
  <2>1. Primaries \subseteq Live
    BY DEF Primaries, Picture!Primaries, Live
  <2> QED
    BY <1>3, <1>7, <1>10, <2>1 DEF Phase, OneLeads, Single
<1>12. ~ disturbed /\ ~ diskLost => \A j \in Live' : disk'[j] # "none"
  BY <1>8, <1>10, Undisturbed DEF Live, Picture!Live, Ids
<1>13. i \in Int
  BY DEF Ids, Picture!Ids
<1>14. PICK v : v = [w EXCEPT !.todo = w.todo - 1, !.order = w.order + 1]
  OBVIOUS
<1>15. v = [pc |-> "create", todo |-> w.todo - 1, first |-> w.first, lead |-> w.lead,
            order |-> w.order + 1, id |-> w.id]
  BY <1>3, <1>14 DEF IsWork
<1>16. IsWork(v) /\ v.first = w.first /\ v.lead = w.lead
  <2>1. w.todo - 1 \in Int /\ w.first \in BOOLEAN /\ w.lead \in BOOLEAN /\ w.id \in Int
    BY <1>3 DEF IsWork
  <2> QED
    BY <1>15, <2>1 DEF IsWork
<1>17. imageReq' = [imageReq EXCEPT ![r] = IF v.first /\ v.lead
                                           THEN [v EXCEPT !.pc = "demote", !.id = i]
                                           ELSE Picture!Rest(v)]
  BY <1>1, <1>2, <1>14
<1>18. CASE w.first /\ w.lead
  <2>1. PICK x : x = [v EXCEPT !.pc = "demote", !.id = i]
    OBVIOUS
  <2>2. x = [pc |-> "demote", todo |-> w.todo - 1, first |-> w.first, lead |-> w.lead,
             order |-> w.order + 1, id |-> i]
    BY <1>15, <2>1
  <2>3. w.todo - 1 \in Int /\ w.first \in BOOLEAN /\ w.lead \in BOOLEAN
    BY <1>3 DEF IsWork
  <2>4. IsWork(x) /\ x.pc = "demote" /\ x.id = i
    BY <1>13, <2>2, <2>3 DEF IsWork
  <2>5. imageReq' = [imageReq EXCEPT ![r] = x]
    BY <1>16, <1>17, <1>18, <2>1
  <2>6. Phase(x)'
    BY <1>10, <2>4 DEF Phase
  <2> QED
    BY <1>2, <1>3, <1>6, <1>7, <1>8, <1>9, <1>12, <2>4, <2>5, <2>6, PictureGoesOn DEF AtWork
<1>19. CASE ~ (w.first /\ w.lead)
  <2>1. PICK x : x = Picture!Rest(v)
    OBVIOUS
  <2>2. IsWork(x) /\ x.pc \in {"idle", "create"}
    BY <1>16, <2>1, RestIsWork
  <2>3. imageReq' = [imageReq EXCEPT ![r] = x]
    BY <1>16, <1>17, <1>19, <2>1
  <2>4. Phase(w) => Phase(x)' /\ OneLeads'
    BY <1>7, <1>10, <1>11, <1>19, <2>2 DEF Phase
  <2> QED
    BY <1>2, <1>3, <1>6, <1>7, <1>8, <1>9, <1>12, <2>2, <2>3, <2>4, PictureGoesOn DEF AtWork
<1> QED
  BY <1>18, <1>19

(* The files stay, and so does every row's state. *)
LEMMA SameState ==
    ASSUME PictureInv, UNCHANGED <<disk, stored, listed, lost, misread>>,
           \A i \in Ids : image'[i].state = image[i].state
    PROVE  KeptInv' /\ Live' = Live
BY DEF PictureInv, KeptInv, Kept, Never, Live, Picture!Live, Ids, Picture!Ids

LEMMA PictureUploadDemote ==
    ASSUME PictureInv, NEW r \in Requests, Picture!UploadDemote(r)
    PROVE  PictureInv'
<1>1. PICK w : w = imageReq[r]
  OBVIOUS
<1>2. IsWork(w) /\ w.pc = "demote" /\ (~ disturbed => Phase(w))
  BY <1>1, PictureWork DEF Picture!UploadDemote, AtWork
<1>3. PICK x : x = [w EXCEPT !.pc = "promote"]
  OBVIOUS
<1>4. IsWork(x) /\ x.pc = "promote" /\ x.id = w.id
  <2>1. x = [pc |-> "promote", todo |-> w.todo, first |-> w.first, lead |-> w.lead,
             order |-> w.order, id |-> w.id]
    BY <1>2, <1>3 DEF IsWork
  <2>2. w.todo \in Int /\ w.first \in BOOLEAN /\ w.lead \in BOOLEAN /\ w.id \in Int
    BY <1>2 DEF IsWork
  <2> QED
    BY <2>1, <2>2 DEF IsWork
<1>5. /\ imageReq' = [imageReq EXCEPT ![r] = x]
      /\ UNCHANGED <<disk, stored, listed, lost, misread, diskLost, disturbed>>
  BY <1>1, <1>3 DEF Picture!UploadDemote
<1>6. image' = [i \in Ids |-> IF i # w.id THEN [image[i] EXCEPT !.primary = FALSE] ELSE image[i]]
  BY <1>1 DEF Picture!UploadDemote, Ids
<1>7. \A i \in Ids : /\ IsRow(image'[i]) /\ image'[i].state = image[i].state
                     /\ i # w.id => ~ image'[i].primary
  <2> TAKE i \in Ids
  <2>1. PICK y : y = [image[i] EXCEPT !.primary = FALSE]
    OBVIOUS
  <2>2. IsRow(image[i])
    BY DEF PictureInv, PictureTypes
  <2>3. y = [state |-> image[i].state, primary |-> FALSE, order |-> image[i].order]
    BY <2>1, <2>2 DEF IsRow
  <2>4. IsRow(y) /\ y.state = image[i].state /\ y.primary = FALSE
    BY <2>2, <2>3 DEF IsRow
  <2>5. image'[i] = IF i # w.id THEN y ELSE image[i]
    BY <1>6, <2>1
  <2> QED
    BY <2>2, <2>4, <2>5
<1>8. image' = [i \in Ids |-> image'[i]]
  BY <1>6
<1>9. KeptInv' /\ Live' = Live
  BY <1>5, <1>7, SameState
<1>10. Primaries' \subseteq {w.id}
  BY <1>7 DEF Primaries, Picture!Primaries, Picture!Live, Ids, Picture!Ids
<1>11. Phase(w) => Phase(x)'
  BY <1>2, <1>4, <1>9, <1>10 DEF Phase
<1>12. ~ disturbed /\ ~ diskLost => \A i \in Live' : disk'[i] # "none"
  BY <1>5, <1>9, Undisturbed
<1>13. disk' \in [Ids -> Picture!Bytes] /\ stored' \in [Ids -> Picture!Bytes]
  BY <1>5 DEF PictureInv, PictureTypes
<1> QED
  BY <1>1, <1>2, <1>4, <1>5, <1>7, <1>8, <1>9, <1>11, <1>12, <1>13, PictureGoesOn DEF AtWork

LEMMA PictureUploadPromote ==
    ASSUME PictureInv, NEW r \in Requests, Picture!UploadPromote(r)
    PROVE  PictureInv'
<1>1. PICK w : w = imageReq[r]
  OBVIOUS
<1>2. /\ IsWork(w) /\ w.pc = "promote" /\ (~ disturbed => Phase(w))
      /\ UNCHANGED <<disk, stored, listed, lost, misread, diskLost, disturbed>>
  BY <1>1, PictureWork DEF Picture!UploadPromote, AtWork
<1>3. disk' \in [Ids -> Picture!Bytes] /\ stored' \in [Ids -> Picture!Bytes]
  BY <1>2 DEF PictureInv, PictureTypes
<1>4. CASE w.id \in Live /\ Picture!Opens(w.id)
  <2>1. /\ image' = [image EXCEPT ![w.id].primary = TRUE]
        /\ imageReq' = [imageReq EXCEPT ![r] = Picture!Rest(w)]
    BY <1>1, <1>4 DEF Picture!UploadPromote, Picture!Promote, Live
  <2>2. w.id \in Ids
    BY <1>4 DEF Live, Picture!Live, Ids
  <2>3. PICK y : y = [image[w.id] EXCEPT !.primary = TRUE]
    OBVIOUS
  <2>4. IsRow(image[w.id])
    BY <2>2 DEF PictureInv, PictureTypes
  <2>5. y = [state |-> image[w.id].state, primary |-> TRUE, order |-> image[w.id].order]
    BY <2>3, <2>4 DEF IsRow
  <2>6. IsRow(y) /\ y.state = image[w.id].state /\ y.primary = TRUE
    BY <2>4, <2>5 DEF IsRow
  <2>7. /\ image' = [i \in Ids |-> image'[i]] /\ \A i \in Ids : IsRow(image'[i])
        /\ image'[w.id] = y /\ \A i \in Ids : i # w.id => image'[i] = image[i]
    <3>1. image' = [image EXCEPT ![w.id] = y]
      BY <2>1, <2>3
    <3> QED
      BY <2>2, <2>6, <3>1, Zenon DEF PictureInv, PictureTypes
  <2>8. \A i \in Ids : image'[i].state = image[i].state
    BY <2>6, <2>7
  <2>9. KeptInv' /\ Live' = Live
    BY <1>2, <2>8, SameState
  <2>10. Primaries' = Primaries \cup {w.id}
    BY <1>4, <2>2, <2>6, <2>7, <2>9
       DEF Primaries, Picture!Primaries, Live, Picture!Live, Ids, Picture!Ids
  <2>11. PICK x : x = Picture!Rest(w)
    OBVIOUS
  <2>12. IsWork(x) /\ x.pc \in {"idle", "create"}
    BY <1>2, <2>11, RestIsWork
  <2>13. Phase(w) => Phase(x)' /\ OneLeads'
    BY <1>2, <1>4, <2>9, <2>10, <2>12 DEF Phase, OneLeads, Single
  <2>14. ~ disturbed /\ ~ diskLost => \A i \in Live' : disk'[i] # "none"
    BY <1>2, <2>9, Undisturbed
  <2> QED
    BY <1>1, <1>2, <1>3, <2>1, <2>7, <2>9, <2>11, <2>12, <2>13, <2>14, PictureGoesOn DEF AtWork
<1>5. CASE ~ (w.id \in Live /\ Picture!Opens(w.id))
  <2>1. imageReq' = [imageReq EXCEPT ![r] = Picture!Idle] /\ UNCHANGED image
    BY <1>1, <1>5 DEF Picture!UploadPromote, Picture!Promote, Picture!End, Live
  <2>2. ~ disturbed => OneLeads'
    <3>1. Live' = Live /\ Primaries' = Primaries /\ diskLost' = diskLost
      BY <1>2, <2>1 DEF Live, Primaries, Picture!Live, Picture!Primaries
    <3>2. ~ disturbed => Phase(w) /\ diskLost
      BY <1>2, <1>5, Undisturbed DEF Phase, Picture!Opens
    <3> QED
      BY <1>2, <3>1, <3>2 DEF Phase, OneLeads, Single
  <2>5. ~ disturbed /\ ~ diskLost => \A i \in Live' : disk'[i] # "none"
    BY <1>2, <2>1, Undisturbed DEF Live, Picture!Live
  <2>3. KeptInv'
    BY <1>2, <2>1, SameState
  <2>4. image' = [i \in Ids |-> image'[i]] /\ \A i \in Ids : IsRow(image'[i])
    BY <2>1 DEF PictureInv, PictureTypes
  <2> QED
    BY <1>1, <1>2, <1>3, <2>1, <2>2, <2>3, <2>4, <2>5, IdleIsWork, PictureGoesOn DEF AtWork
<1> QED
  BY <1>4, <1>5

(* A picture's row goes, its file stays.                                   *)
LEMMA RowGoes ==
    ASSUME PictureInv, NEW i, image' = [image EXCEPT ![i] = Picture!Gone],
           UNCHANGED <<disk, stored, listed, lost, misread>>
    PROVE  /\ image' = [j \in Ids |-> image'[j]] /\ \A j \in Ids : IsRow(image'[j])
           /\ disk' \in [Ids -> Picture!Bytes] /\ stored' \in [Ids -> Picture!Bytes]
           /\ KeptInv'
           /\ Live' = Live \ {i} /\ Primaries' = Primaries \ {i}
<1>1. PICK y : y = Picture!Gone
  OBVIOUS
<1>2. IsRow(y) /\ y.state = "deleted" /\ y.primary = FALSE
  BY <1>1 DEF Picture!Gone, IsRow
<1>3. /\ image' = [j \in Ids |-> image'[j]] /\ \A j \in Ids : IsRow(image'[j])
      /\ \A j \in Ids : image'[j] = IF j = i THEN y ELSE image[j]
  BY <1>1, <1>2, Zenon DEF PictureInv, PictureTypes
<1>4. disk' \in [Ids -> Picture!Bytes] /\ stored' \in [Ids -> Picture!Bytes]
  BY DEF PictureInv, PictureTypes
<1>5. Ids' = Ids
  BY DEF Ids, Picture!Ids
<1>6. KeptInv'
  BY <1>2, <1>3, <1>5 DEF PictureInv, KeptInv, Kept, Never
<1>7. Live' = Live \ {i} /\ Primaries' = Primaries \ {i}
  BY <1>2, <1>3 DEF Live, Primaries, Picture!Live, Picture!Primaries, Ids, Picture!Ids
<1> QED
  BY <1>3, <1>4, <1>6, <1>7

LEMMA PictureDeleteRow ==
    ASSUME PictureInv, NEW r \in Requests, Picture!DeleteRow(r)
    PROVE  PictureInv'
<1>1. PICK w : w = imageReq[r]
  OBVIOUS
<1>2. /\ IsWork(w) /\ w.pc = "delete" /\ (~ disturbed => Phase(w))
      /\ image' = [image EXCEPT ![w.id] = Picture!Gone]
      /\ UNCHANGED <<disk, stored, listed, lost, misread, diskLost, disturbed>>
  BY <1>1, PictureWork DEF Picture!DeleteRow, AtWork
<1>3. PICK x : x = IF w.lead THEN [Picture!Idle EXCEPT !.pc = "next"] ELSE Picture!Idle
  OBVIOUS
<1>4. IsWork(x) /\ x.pc = IF w.lead THEN "next" ELSE "idle"
  <2>1. PICK y : y = [Picture!Idle EXCEPT !.pc = "next"]
    OBVIOUS
  <2>2. y = [pc |-> "next", todo |-> 0, first |-> FALSE, lead |-> FALSE, order |-> 0, id |-> 0]
    BY <2>1 DEF Picture!Idle
  <2>3. IsWork(y) /\ y.pc = "next"
    BY <2>2 DEF IsWork
  <2> QED
    BY <1>3, <2>1, <2>3, IdleIsWork
<1>5. imageReq' = [imageReq EXCEPT ![r] = x]
  BY <1>1, <1>3 DEF Picture!DeleteRow, Picture!End
<1>6. ~ disturbed => /\ w.id \in Live
                     /\ w.lead => Primaries' = {}
                     /\ ~ w.lead => OneLeads'
  <2>1. ~ disturbed => w.id \in Live /\ OneLeads /\ (w.lead <=> image[w.id].primary)
    BY <1>2 DEF Phase
  <2>2. w.id \in Live => image[w.id].state = "live" /\ (image[w.id].primary <=> w.id \in Primaries)
    BY DEF Live, Primaries, Picture!Live, Picture!Primaries
  <2>3. Live' = Live \ {w.id} /\ Primaries' = Primaries \ {w.id}
    BY <1>2, RowGoes
  <2> QED
    BY <1>2, <2>1, <2>2, <2>3 DEF OneLeads, Single
<1>7. ~ disturbed => (x.pc # "idle" => Phase(x)') /\ (x.pc = "idle" => OneLeads')
  BY <1>2, <1>4, <1>6 DEF Phase
<1>8. ~ disturbed /\ ~ diskLost => \A j \in Live' : disk'[j] # "none"
  BY <1>2, RowGoes, Undisturbed
<1> QED
  BY <1>1, <1>2, <1>4, <1>5, <1>7, <1>8, RowGoes, PictureGoesOn DEF AtWork

LEMMA PictureDeleteNext ==
    ASSUME PictureInv, NEW r \in Requests, Picture!DeleteNext(r)
    PROVE  PictureInv'
<1>1. PICK w : w = imageReq[r]
  OBVIOUS
<1>2. /\ IsWork(w) /\ w.pc = "next" /\ (~ disturbed => Phase(w))
      /\ UNCHANGED <<image, disk, stored, listed, lost, misread, diskLost, disturbed>>
  BY <1>1, PictureWork DEF Picture!DeleteNext, AtWork
<1>3. /\ disk' \in [Ids -> Picture!Bytes] /\ stored' \in [Ids -> Picture!Bytes]
      /\ image' = [i \in Ids |-> image'[i]] /\ \A i \in Ids : IsRow(image'[i])
  BY <1>2 DEF PictureInv, PictureTypes
<1>4. KeptInv' /\ Live' = Live /\ Primaries' = Primaries
  BY <1>2, SameState DEF Primaries, Live, Picture!Primaries, Picture!Live
<1>5. ~ disturbed /\ ~ diskLost => \A j \in Live' : disk'[j] # "none"
  BY <1>2, <1>4, Undisturbed
<1>6. CASE Live = {} /\ imageReq' = [imageReq EXCEPT ![r] = Picture!Idle]
  <2>1. OneLeads'
    BY <1>4, <1>6 DEF OneLeads, Single, Primaries, Picture!Primaries, Live
  <2> QED
    BY <1>1, <1>2, <1>3, <1>4, <1>5, <1>6, <2>1, IdleIsWork, PictureGoesOn DEF AtWork
<1>7. ASSUME NEW i \in Live, imageReq' = [imageReq EXCEPT ![r].pc = "promote", ![r].id = i]
      PROVE  PictureInv'
  <2>1. PICK x : x = [w EXCEPT !.pc = "promote", !.id = i]
    OBVIOUS
  <2>2. i \in Int
    BY DEF Live, Picture!Live, Picture!Ids
  <2>3. IsWork(x) /\ x.pc = "promote" /\ x.id = i
    <3>1. x = [pc |-> "promote", todo |-> w.todo, first |-> w.first, lead |-> w.lead,
               order |-> w.order, id |-> i]
      BY <1>2, <2>1 DEF IsWork
    <3>2. w.todo \in Int /\ w.first \in BOOLEAN /\ w.lead \in BOOLEAN
      BY <1>2 DEF IsWork
    <3> QED
      BY <2>2, <3>1, <3>2 DEF IsWork
  <2>4. imageReq' = [imageReq EXCEPT ![r] = x]
    BY <1>1, <1>7, <2>1 DEF PictureInv, PictureTypes
  <2>5. Phase(w) => Phase(x)'
    BY <1>2, <1>4, <2>3 DEF Phase
  <2> QED
    BY <1>1, <1>2, <1>3, <1>4, <1>5, <2>3, <2>4, <2>5, PictureGoesOn DEF AtWork
<1> QED
  BY <1>6, <1>7 DEF Picture!DeleteNext, Picture!End, Live

LEMMA PictureLoseDisk == ASSUME PictureInv, Picture!LoseDisk PROVE PictureInv'
<1>1. /\ disk' = [i \in Ids |-> "none"] /\ imageReq' = [r \in Requests |-> Picture!Idle]
      /\ lost' = lost \cup {i \in Ids : disk[i] = "picture" /\ stored[i] = "none"}
      /\ diskLost' = TRUE
      /\ disturbed' = (disturbed \/ \E r \in Requests : imageReq[r].pc # "idle")
      /\ listed' = [i \in Ids |-> Picture!NoImage]
      /\ UNCHANGED <<image, stored, misread>>
  BY DEF Picture!LoseDisk, Ids
<1>2. disturbed' \in BOOLEAN
  BY <1>1, Zenon DEF PictureInv, PictureTypes
<1>3. Ids' = Ids
  BY DEF Ids, Picture!Ids
<1>4. PictureTypes'
  <2>1. disk' \in [Ids -> Picture!Bytes]
    BY <1>1 DEF Picture!Bytes
  <2>2. /\ imageReq' = [r \in Requests |-> imageReq'[r]]
        /\ \A r \in Requests : IsWork(imageReq'[r])
    BY <1>1, IdleIsWork
  <2> QED
    BY <1>1, <1>2, <1>3, <2>1, <2>2, NoImageIsRow, Zenon DEF PictureInv, PictureTypes
<1>5. KeptInv'
  BY <1>1, <1>3 DEF PictureInv, KeptInv, Kept, Never
<1>6. \A r \in Requests : ~ AtWork(r)'
  BY <1>1, IdleIsWork DEF AtWork
<1>7. Live' = Live /\ Primaries' = Primaries
  BY <1>1 DEF Live, Primaries, Picture!Live, Picture!Primaries
<1>8. ~ disturbed' => OneLeads'
  <2>1. ~ disturbed' => ~ disturbed /\ \A r \in Requests : ~ AtWork(r)
    BY <1>1 DEF AtWork
  <2> QED
    BY <1>1, <1>7, <2>1, Undisturbed DEF OneLeads, Single
<1>9. SerialInv'
  BY <1>1, <1>6, <1>8 DEF SerialInv
<1> QED
  BY <1>4, <1>5, <1>9 DEF PictureInv

LEMMA PictureCrash ==
    ASSUME PictureInv, NEW r \in Requests, Picture!Crash(r)
    PROVE  PictureInv'
<1>1. /\ imageReq' = [imageReq EXCEPT ![r] = Picture!Idle] /\ disturbed' = TRUE
      /\ UNCHANGED <<image, disk, stored, listed, lost, misread, diskLost>>
  BY DEF Picture!Crash, Picture!End
<1>2. PICK x : x = Picture!Idle
  OBVIOUS
<1>3. IsWork(x)
  BY <1>2, IdleIsWork
<1>4. /\ imageReq' = [q \in Requests |-> imageReq'[q]]
      /\ \A q \in Requests : IsWork(imageReq'[q])
  BY <1>1, <1>2, <1>3, PictureGo DEF PictureInv
<1>5. PictureTypes'
  BY <1>1, <1>4 DEF PictureInv, PictureTypes
<1>6. KeptInv'
  BY <1>1 DEF PictureInv, KeptInv, Kept, Never
<1> QED
  BY <1>1, <1>5, <1>6 DEF PictureInv, SerialInv

(* The files of the rows grow; no row and no request moves, whatever the   *)
(* command has listed.                                                     *)
LEMMA FilesGrow ==
    ASSUME PictureInv, UNCHANGED <<image, imageReq, diskLost, disturbed>>,
           listed' = [i \in Ids |-> listed'[i]], \A i \in Ids : IsRow(listed'[i]),
           disk' \in [Ids -> Picture!Bytes], stored' \in [Ids -> Picture!Bytes], KeptInv',
           \A i \in Ids : disk[i] # "none" => disk'[i] # "none"
    PROVE  PictureInv'
<1>1. PictureTypes'
  <2>1. Ids' = Ids
    BY DEF Ids, Picture!Ids
  <2> QED
    BY <2>1, Zenon DEF PictureInv, PictureTypes
<1>2. Live' = Live /\ Primaries' = Primaries /\ Live \subseteq Ids
  BY DEF Live, Primaries, Picture!Live, Picture!Primaries, Ids
<1>3. \A r \in Requests : Phase(imageReq[r]) => Phase(imageReq[r])'
  BY <1>2 DEF Phase, OneLeads, Single
<1>4. OneLeads => OneLeads'
  BY <1>2 DEF OneLeads, Single
<1>5. SerialInv'
  BY <1>2, <1>3, <1>4 DEF PictureInv, SerialInv, AtWork
<1> QED
  BY <1>1, <1>5 DEF PictureInv

LEMMA PictureBackfillDisk ==
    ASSUME PictureInv, NEW i \in Ids, Picture!BackfillDisk(i)
    PROVE  PictureInv'
<1>1. /\ i \in Live /\ stored[i] = "none" /\ disk[i] # "none"
      /\ stored' = [stored EXCEPT ![i] = disk[i]]
      /\ UNCHANGED <<image, disk, imageReq, listed, lost, misread, diskLost, disturbed>>
  BY DEF Picture!BackfillDisk, Live
<1>2. disk' \in [Ids -> Picture!Bytes] /\ stored' \in [Ids -> Picture!Bytes]
  BY <1>1 DEF PictureInv, PictureTypes
<1>3. image[i].state = "live"
  BY <1>1 DEF Live, Picture!Live
<1>4. KeptInv'
  BY <1>1, <1>2, <1>3 DEF PictureInv, PictureTypes, KeptInv, Kept, Never, Ids, Picture!Ids
<1>5. listed' = [j \in Ids |-> listed'[j]] /\ \A j \in Ids : IsRow(listed'[j])
  BY <1>1 DEF PictureInv, PictureTypes
<1> QED
  BY <1>1, <1>2, <1>4, <1>5, FilesGrow

(* The command lists rows as they are, or forgets its list. *)
LEMMA PictureRegenerateBegin == ASSUME PictureInv, Picture!RegenerateBegin PROVE PictureInv'
<1>1. /\ listed' = [i \in Ids |-> IF i \in Live /\ disk[i] = "none" THEN image[i]
                                  ELSE Picture!NoImage]
      /\ UNCHANGED <<image, disk, stored, imageReq, lost, misread, diskLost, disturbed>>
  BY DEF Picture!RegenerateBegin, Ids, Live
<1>2. listed' = [i \in Ids |-> listed'[i]]
  BY <1>1
<1>3. \A i \in Ids : /\ IsRow(listed'[i])
                     /\ listed'[i] # Picture!NoImage => listed'[i].state = "live"
                                                       /\ image[i].state = "live"
  <2>1. \A i \in Ids : IsRow(image[i])
    BY DEF PictureInv, PictureTypes
  <2> QED
    BY <1>1, <2>1, NoImageIsRow DEF Live, Picture!Live
<1>4. KeptInv'
  BY <1>1, <1>3 DEF PictureInv, KeptInv, Kept, Never, Ids, Picture!Ids
<1>5. disk' \in [Ids -> Picture!Bytes] /\ stored' \in [Ids -> Picture!Bytes]
  BY <1>1 DEF PictureInv, PictureTypes
<1> QED
  BY <1>1, <1>2, <1>3, <1>4, <1>5, FilesGrow

LEMMA PictureRegenerateDies == ASSUME PictureInv, Picture!RegenerateDies PROVE PictureInv'
<1>1. /\ listed' = [i \in Ids |-> Picture!NoImage]
      /\ UNCHANGED <<image, disk, stored, imageReq, lost, misread, diskLost, disturbed>>
  BY DEF Picture!RegenerateDies, Ids
<1>2. listed' = [i \in Ids |-> listed'[i]] /\ \A i \in Ids : IsRow(listed'[i])
  BY <1>1, NoImageIsRow
<1>3. KeptInv'
  BY <1>1 DEF PictureInv, KeptInv, Kept, Never, Ids, Picture!Ids
<1>4. disk' \in [Ids -> Picture!Bytes] /\ stored' \in [Ids -> Picture!Bytes]
  BY <1>1 DEF PictureInv, PictureTypes
<1> QED
  BY <1>1, <1>2, <1>3, <1>4, FilesGrow

(* One listed row less. *)
LEMMA ListShrinks ==
    ASSUME PictureInv, NEW i, listed' = [listed EXCEPT ![i] = Picture!NoImage]
    PROVE  /\ listed' = [j \in Ids |-> listed'[j]] /\ \A j \in Ids : IsRow(listed'[j])
           /\ \A j \in Ids : listed'[j] = IF j = i THEN Picture!NoImage ELSE listed[j]
BY NoImageIsRow, Zenon DEF PictureInv, PictureTypes

(* A row is passed over, or written back as it was listed.  If that        *)
(* changes it, the command has disturbed a request.                        *)
LEMMA PictureRegenerate ==
    ASSUME PictureInv, NEW i \in Ids, NEW failed \in BOOLEAN,
           Picture!RegenerateMissing(i, failed)
    PROVE  PictureInv'
<1>1. /\ listed[i] # Picture!NoImage /\ listed' = [listed EXCEPT ![i] = Picture!NoImage]
      /\ UNCHANGED <<imageReq, lost, diskLost>>
  BY DEF Picture!RegenerateMissing
<1>2. /\ listed' = [j \in Ids |-> listed'[j]] /\ \A j \in Ids : IsRow(listed'[j])
      /\ \A j \in Ids : listed'[j] = IF j = i THEN Picture!NoImage ELSE listed[j]
  BY <1>1, ListShrinks
<1>3. CASE UNCHANGED <<image, disk, stored, misread, disturbed>>
  <2>1. KeptInv'
    <3>1. \A j \in Ids : Kept(j) => Kept(j)'
      BY <1>3 DEF Kept
    <3>2. \A j \in Ids : Never(j) => Never(j)'
      BY <1>2, <1>3 DEF Never
    <3> QED
      BY <1>1, <1>2, <1>3, <3>1, <3>2 DEF PictureInv, KeptInv, Ids, Picture!Ids
  <2>2. disk' \in [Ids -> Picture!Bytes] /\ stored' \in [Ids -> Picture!Bytes]
    BY <1>3 DEF PictureInv, PictureTypes
  <2> QED
    BY <1>1, <1>2, <1>3, <2>1, <2>2, FilesGrow
<1>4. ASSUME ~ Picture!BytesAvailable(i, failed), image' = [image EXCEPT ![i] = listed[i]],
             Picture!Save(i, "placeholder"),
             misread' = IF failed /\ stored[i] # "none" THEN misread \cup {i} ELSE misread,
             disturbed' = (disturbed \/ image[i] # listed[i])
      PROVE  PictureInv'
  <2>1. disk[i] = "none" /\ (stored[i] # "none" => failed)
    BY <1>4 DEF Picture!BytesAvailable
  <2>2. /\ disk' \in [Ids -> Picture!Bytes] /\ stored' \in [Ids -> Picture!Bytes]
        /\ disk'[i] # "none"
        /\ \A j \in Ids : j # i => disk'[j] = disk[j] /\ stored'[j] = stored[j]
    BY <1>4 DEF Picture!Save, PictureInv, PictureTypes, Picture!Bytes
  <2>3. IsRow(listed[i]) /\ listed[i].state = "live"
    BY <1>1 DEF PictureInv, PictureTypes, KeptInv
  <2>4. /\ image' = [j \in Ids |-> image'[j]] /\ \A j \in Ids : IsRow(image'[j])
        /\ \A j \in Ids : image'[j] = IF j = i THEN listed[i] ELSE image[j]
    BY <1>4, <2>3, Zenon DEF PictureInv, PictureTypes
  <2>5. i \in lost' \cup misread'
    <3>1. ASSUME i \notin lost \cup misread PROVE stored[i] # "none"
      BY <1>1, <2>1, <3>1 DEF PictureInv, KeptInv, Kept, Never
    <3> QED
      BY <1>1, <1>4, <2>1, <3>1
  <2>6. KeptInv'
    <3>1. Ids' = Ids
      BY DEF Ids, Picture!Ids
    <3>2. /\ image'[i].state # "unborn" /\ listed'[i] = Picture!NoImage
      BY <1>2, <2>3, <2>4
    <3>3. ASSUME NEW j \in Ids, j # i
          PROVE  /\ image'[j].state = "unborn" => disk'[j] = "none" /\ stored'[j] = "none"
                 /\ j \notin lost' \cup misread' => Kept(j)' \/ Never(j)'
                 /\ listed'[j] # Picture!NoImage => listed'[j].state = "live"
      <4>1. /\ image'[j] = image[j] /\ disk'[j] = disk[j] /\ stored'[j] = stored[j]
            /\ listed'[j] = listed[j] /\ (j \notin lost' \cup misread' => j \notin lost \cup misread)
        BY <1>1, <1>2, <1>4, <2>2, <2>4, <3>3
      <4> QED
        BY <4>1 DEF PictureInv, KeptInv, Kept, Never
    <3> QED
      BY <2>5, <3>1, <3>2, <3>3 DEF KeptInv
  <2>7. CASE image[i] = listed[i]
    <3>1. image' = image
      BY <2>4, <2>7, Zenon DEF PictureInv, PictureTypes
    <3>2. disturbed' = disturbed
      BY <1>4, <2>7, Zenon DEF PictureInv, PictureTypes
    <3> QED
      BY <1>1, <1>2, <2>2, <2>6, <3>1, <3>2, FilesGrow
  <2>8. CASE image[i] # listed[i]
    <3>1. disturbed' = TRUE
      BY <1>4, <2>8
    <3>2. PictureTypes'
      <4>1. Ids' = Ids /\ disturbed' \in BOOLEAN
        BY <3>1 DEF Ids, Picture!Ids
      <4> QED
        BY <1>1, <1>2, <2>2, <2>4, <4>1, Zenon DEF PictureInv, PictureTypes
    <3> QED
      BY <2>6, <3>1, <3>2 DEF PictureInv, SerialInv
  <2> QED
    BY <2>7, <2>8
<1> QED
  BY <1>3, <1>4 DEF Picture!RegenerateMissing

LEMMA PictureNextInv == PictureInv /\ [Picture!Next]_(Picture!vars) => PictureInv'
<1>1. ASSUME PictureInv, UNCHANGED Picture!vars PROVE PictureInv'
  <2>1. KeptInv'
    BY <1>1 DEF Picture!vars, PictureInv, KeptInv, Kept, Never
  <2>2. /\ listed' = [i \in Ids |-> listed'[i]] /\ \A i \in Ids : IsRow(listed'[i])
        /\ disk' \in [Ids -> Picture!Bytes] /\ stored' \in [Ids -> Picture!Bytes]
    BY <1>1 DEF Picture!vars, PictureInv, PictureTypes
  <2> QED
    BY <1>1, <2>1, <2>2, FilesGrow DEF Picture!vars
<1> QED
  BY <1>1, PictureLoseDisk, PictureBackfillDisk, PictureRegenerate,
     PictureRegenerateBegin, PictureRegenerateDies, PictureUploadRead,
     PictureUploadCreate, PictureUploadDemote, PictureUploadPromote, PictureDeleteRead,
     PictureDeleteRow, PictureDeleteNext, PictureCrash DEF Picture!Next, Ids

(* OnePrimaryAtRest: requests that come one after the other, each over its *)
(* four steps, never leave two primary images, and exactly one while the   *)
(* disk is there.                                                          *)
THEOREM OneImageLeads == Picture!Spec => []OnePrimaryAtRest
<1>1. \A S : Picture!Cardinality(S) = Cardinality(S)
  BY DEF Picture!Cardinality, Cardinality
<1>2. PictureInv => OnePrimaryAtRest
  <2> SUFFICES ASSUME PictureInv, Picture!AtRest, ~ disturbed
               PROVE  /\ Cardinality(Primaries) <= 1
                      /\ ~ diskLost /\ Live # {} => Primaries # {}
    BY <1>1 DEF OnePrimaryAtRest, Picture!OnePrimaryAtRest, Live, Primaries
  <2>1. OneLeads
    BY Undisturbed DEF Picture!AtRest, AtWork
  <2>2. CASE Primaries = {}
    BY <2>1, <2>2, FS_EmptySet DEF OneLeads
  <2>3. CASE Primaries # {}
    <3>1. PICK i : Primaries = {i}
      BY <2>1, <2>3 DEF OneLeads, Single
    <3>2. Cardinality(Primaries) = 1
      BY <3>1, FS_Singleton
    <3> QED
      BY <2>3, <3>2
  <2> QED
    BY <2>2, <2>3
<1> QED
  BY <1>2, PictureInitInv, PictureNextInv, PTL DEF Picture!Spec

(* PictureIsKept: a picture is served as it was uploaded unless its only   *)
(* bytes were on a disk that was lost, or a failed look-up hid its copy;   *)
(* nothing is drawn over the others.                                       *)
THEOREM PicturesAreKept == Picture!Spec => []PictureIsKept
<1>1. PictureInv => PictureIsKept
  BY DEF PictureInv, KeptInv, Kept, Never, PictureIsKept, Picture!PictureIsKept, Picture!Served,
         Picture!Live, Ids
<1> QED
  BY <1>1, PictureInitInv, PictureNextInv, PTL DEF Picture!Spec

-----------------------------------------------------------------------------
(***************************************************************************)
(* CartLines: as long as no request has crossed another, the one under way *)
(* has read what is still true.                                            *)
(***************************************************************************)
CartBusy(r) == cartReq[r].pc # "idle"

CartTypes == /\ visitor = [state |-> visitor.state, qty |-> visitor.qty]
             /\ visitor.qty \in [Products -> Nat]
             /\ line = [p \in Products |-> line[p]]
             /\ \A p \in Products : /\ line[p] = [id |-> line[p].id, qty |-> line[p].qty]
                                    /\ line[p].qty \in Nat
                                    /\ line[p].id = 0 => line[p].qty = 0
             /\ rows \in Nat
             /\ cartReq = [r \in Requests |-> cartReq[r]]
             /\ chosen \in [Products -> Nat] /\ ordered \in [Products -> Nat]
             /\ \A p \in own \cap Products : line[p].id = 0 /\ ordered[p] = 0

(* What a request has read. *)
HasRead(w) ==
    /\ w.pc = "patch" => /\ w.product \in Products /\ w.row = line[w.product]
                         /\ line[w.product].id # 0
    /\ w.pc = "merge" => w.lines = visitor.qty
    /\ w.pc = "order" => w.lines = [p \in Products |-> line[p].qty]

HeldOnce(p) == /\ visitor.qty[p] + line[p].qty + ordered[p] <= chosen[p]
               /\ ~ capped => visitor.qty[p] + line[p].qty + ordered[p] = chosen[p]

CartSerial == /\ CartTypes
              /\ \A r, q \in Requests : CartBusy(r) /\ CartBusy(q) => r = q
              /\ \A r \in Requests : HasRead(cartReq[r])
              /\ \A p \in Products : HeldOnce(p)

CartInv == ~ overlapped => CartSerial

LEMMA CartInitInv == Cart!Init => CartInv
<1> SUFFICES ASSUME Cart!Init PROVE CartSerial
  BY DEF CartInv
<1> USE DEF Cart!Init
<1>1. CartTypes
  BY DEF Cart!NoCart, Cart!NoLine, Cart!Empty, CartTypes
<1>2. \A r \in Requests : cartReq[r].pc = "idle"
  BY DEF Cart!Idle
<1>3. \A p \in Products : HeldOnce(p)
  BY DEF Cart!NoCart, Cart!NoLine, Cart!Empty, HeldOnce
<1> QED
  BY <1>1, <1>2, <1>3 DEF CartSerial, CartBusy, HasRead

(* The only request goes on. *)
LEMMA CartGo ==
    ASSUME CartTypes, NEW r \in Requests, NEW x, Cart!Go(r, x), HasRead(x)',
           \A q \in Requests : q # r => ~ CartBusy(q)
    PROVE  /\ cartReq' = [q \in Requests |-> cartReq'[q]]
           /\ \A q, s \in Requests : CartBusy(q)' /\ CartBusy(s)' => q = s
           /\ \A q \in Requests : HasRead(cartReq[q])'
<1>1. cartReq' = [cartReq EXCEPT ![r] = x]
  BY DEF Cart!Go
<1>2. /\ cartReq' = [q \in Requests |-> cartReq'[q]]
      /\ cartReq'[r] = x
      /\ \A q \in Requests : q # r => cartReq'[q] = cartReq[q]
  BY <1>1, Zenon DEF CartTypes
<1>3. \A q \in Requests : q # r => ~ CartBusy(q)'
  BY <1>2 DEF CartBusy
<1>4. \A q \in Requests : q # r => HasRead(cartReq[q])'
  BY <1>3 DEF CartBusy, HasRead
<1>5. HasRead(cartReq[r])'
  BY <1>2, Zenon
<1> QED
  BY <1>2, <1>3, <1>4, <1>5

(* No request is under way. *)
LEMMA CartCalm ==
    ASSUME CartInv, ~ (overlapped \/ Cart!Busy)
    PROVE  CartSerial /\ \A r \in Requests : ~ CartBusy(r)
BY DEF CartInv, Cart!Busy, CartBusy

LEMMA CartChosen ==
    ASSUME CartTypes, NEW p \in Products, NEW n \in 1..MAX_QUANTITY, Cart!Choose(p, n)
    PROVE  /\ chosen' \in [Products -> Nat] /\ chosen'[p] = chosen[p] + n
           /\ \A q \in Products : q # p => chosen'[q] = chosen[q]
BY DEF Cart!Choose, CartTypes

LEMMA CartVisitorAdds ==
    ASSUME CartInv, UNCHANGED own, NEW p \in Products, NEW n \in 1..MAX_QUANTITY, Cart!VisitorAdds(p, n)
    PROVE  CartInv'
<1> SUFFICES ASSUME ~ overlapped' PROVE CartSerial'
  BY DEF CartInv
<1>1. CartSerial /\ \A r \in Requests : ~ CartBusy(r)
  BY CartCalm DEF Cart!VisitorAdds
<1>2. /\ visitor.qty[p] = 0 /\ Cart!Choose(p, n)
      /\ visitor' = [state |-> "live", qty |-> [visitor.qty EXCEPT ![p] = n]]
      /\ UNCHANGED <<line, rows, cartReq, ordered, capped>>
  BY DEF Cart!VisitorAdds
<1>3. /\ chosen' \in [Products -> Nat] /\ chosen'[p] = chosen[p] + n
      /\ \A q \in Products : q # p => chosen'[q] = chosen[q]
  BY <1>1, <1>2, CartChosen DEF CartSerial
<1>4. /\ visitor'.qty \in [Products -> Nat] /\ visitor'.qty[p] = n
      /\ \A q \in Products : q # p => visitor'.qty[q] = visitor.qty[q]
  BY <1>1, <1>2 DEF CartSerial, CartTypes
<1>5. CartTypes'
  BY <1>1, <1>2, <1>3, <1>4 DEF CartSerial, CartTypes
<1>6. \A q \in Products : HeldOnce(q)'
  <2> TAKE q \in Products
  <2>1. HeldOnce(q) /\ line[q].qty \in Nat /\ ordered[q] \in Nat /\ chosen[q] \in Nat
    BY <1>1 DEF CartSerial, CartTypes
  <2>2. visitor.qty[q] \in Nat
    BY <1>1 DEF CartSerial, CartTypes
  <2> QED
    BY <1>2, <1>3, <1>4, <2>1, <2>2 DEF HeldOnce
<1> QED
  BY <1>1, <1>2, <1>5, <1>6 DEF CartSerial, CartBusy, HasRead

LEMMA CartUserAdds ==
    ASSUME CartInv, UNCHANGED own, NEW p \in Products, NEW n \in 1..MAX_QUANTITY, Cart!UserAdds(p, n)
    PROVE  CartInv'
<1> SUFFICES ASSUME ~ overlapped' PROVE CartSerial'
  BY DEF CartInv
<1>1. CartSerial /\ \A r \in Requests : ~ CartBusy(r)
  BY CartCalm DEF Cart!UserAdds
<1>2. /\ line[p].id = 0 /\ p \notin own /\ Cart!Choose(p, n)
      /\ line' = [line EXCEPT ![p] = [id |-> rows + 1, qty |-> n]] /\ rows' = rows + 1
      /\ UNCHANGED <<visitor, cartReq, ordered, capped>>
  BY DEF Cart!UserAdds, Cart!InCart
<1>3. /\ chosen' \in [Products -> Nat] /\ chosen'[p] = chosen[p] + n
      /\ \A q \in Products : q # p => chosen'[q] = chosen[q]
  BY <1>1, <1>2, CartChosen DEF CartSerial
<1>4. /\ line' = [q \in Products |-> line'[q]] /\ line'[p] = [id |-> rows + 1, qty |-> n]
      /\ \A q \in Products : q # p => line'[q] = line[q]
  BY <1>1, <1>2, Zenon DEF CartSerial, CartTypes
<1>5. CartTypes'
  BY <1>1, <1>2, <1>3, <1>4 DEF CartSerial, CartTypes
<1>6. \A q \in Products : HeldOnce(q)'
  <2> TAKE q \in Products
  <2>1. HeldOnce(q) /\ visitor.qty[q] \in Nat /\ ordered[q] \in Nat /\ chosen[q] \in Nat
    BY <1>1 DEF CartSerial, CartTypes
  <2>2. line[q].qty \in Nat /\ line[p].qty = 0
    BY <1>1, <1>2 DEF CartSerial, CartTypes
  <2> QED
    BY <1>2, <1>3, <1>4, <2>1, <2>2 DEF HeldOnce
<1> QED
  BY <1>1, <1>2, <1>5, <1>6 DEF CartSerial, CartBusy, HasRead

LEMMA CartUserRemoves ==
    ASSUME CartInv, UNCHANGED own, NEW p \in Products, Cart!UserRemoves(p)
    PROVE  CartInv'
<1> SUFFICES ASSUME ~ overlapped' PROVE CartSerial'
  BY DEF CartInv
<1>1. CartSerial /\ \A r \in Requests : ~ CartBusy(r)
  BY CartCalm DEF Cart!UserRemoves
<1>2. /\ line' = [line EXCEPT ![p] = [id |-> 0, qty |-> 0]]
      /\ chosen' = [chosen EXCEPT ![p] = IF chosen[p] >= line[p].qty
                                         THEN chosen[p] - line[p].qty ELSE 0]
      /\ UNCHANGED <<visitor, rows, cartReq, ordered, capped>>
  BY DEF Cart!UserRemoves, Cart!NoLine
<1>3. /\ line' = [q \in Products |-> line'[q]] /\ line'[p] = [id |-> 0, qty |-> 0]
      /\ \A q \in Products : q # p => line'[q] = line[q]
  BY <1>1, <1>2, Zenon DEF CartSerial, CartTypes
<1>4. /\ line[p].qty \in Nat /\ chosen[p] \in Nat /\ visitor.qty[p] \in Nat
      /\ ordered[p] \in Nat /\ HeldOnce(p)
  BY <1>1 DEF CartSerial, CartTypes
<1>5. /\ chosen' \in [Products -> Nat] /\ chosen'[p] = chosen[p] - line[p].qty
      /\ \A q \in Products : q # p => chosen'[q] = chosen[q]
  BY <1>1, <1>2, <1>4 DEF CartSerial, CartTypes, HeldOnce
<1>6. CartTypes'
  BY <1>1, <1>2, <1>3, <1>5 DEF CartSerial, CartTypes
<1>7. \A q \in Products : HeldOnce(q)'
  BY <1>1, <1>2, <1>3, <1>4, <1>5 DEF CartSerial, HeldOnce
<1> QED
  BY <1>1, <1>2, <1>6, <1>7 DEF CartSerial, CartBusy, HasRead

(* The anonymous cart is looked at, or expires. *)
LEMMA CartLooks ==
    ASSUME CartInv, UNCHANGED own, NEW state, visitor' = [visitor EXCEPT !.state = state],
           UNCHANGED <<line, rows, cartReq, chosen, ordered, overlapped, capped>>
    PROVE  CartInv'
<1> SUFFICES ASSUME CartSerial PROVE CartSerial'
  BY DEF CartInv
<1>1. visitor' = [state |-> state, qty |-> visitor.qty]
  BY DEF CartSerial, CartTypes
<1>2. visitor'.qty = visitor.qty /\ CartTypes'
  BY <1>1 DEF CartSerial, CartTypes
<1>3. \A r \in Requests : HasRead(cartReq[r])'
  BY <1>2 DEF CartSerial, HasRead
<1>4. \A p \in Products : HeldOnce(p)'
  BY <1>2 DEF CartSerial, HeldOnce
<1> QED
  BY <1>2, <1>3, <1>4 DEF CartSerial, CartBusy

(* The carts stay; a request begins, goes on or ends. *)
LEMMA CartStep ==
    ASSUME CartSerial, UNCHANGED own, NEW r \in Requests, NEW x, Cart!Go(r, x), HasRead(x),
           \A q \in Requests : q # r => ~ CartBusy(q),
           UNCHANGED <<visitor, line, rows, chosen, ordered, capped>>
    PROVE  CartSerial'
<1>1. HasRead(x)'
  BY DEF HasRead
<1>2. /\ cartReq' = [q \in Requests |-> cartReq'[q]]
      /\ \A q, s \in Requests : CartBusy(q)' /\ CartBusy(s)' => q = s
      /\ \A q \in Requests : HasRead(cartReq[q])'
  BY <1>1, CartGo DEF CartSerial
<1>3. CartTypes'
  BY <1>2 DEF CartSerial, CartTypes
<1>4. \A p \in Products : HeldOnce(p)'
  BY DEF CartSerial, HeldOnce
<1> QED
  BY <1>2, <1>3, <1>4 DEF CartSerial

LEMMA CartIdle == /\ Cart!Idle.pc = "idle" /\ HasRead(Cart!Idle)
BY DEF Cart!Idle, HasRead

(* A request that is under way is the only one. *)
LEMMA CartAlone ==
    ASSUME CartSerial, NEW r \in Requests, CartBusy(r)
    PROVE  HasRead(cartReq[r]) /\ \A q \in Requests : q # r => ~ CartBusy(q)
BY DEF CartSerial

LEMMA CartPatchRead ==
    ASSUME CartInv, UNCHANGED own, NEW r \in Requests, NEW p \in Products, Cart!PatchRead(r, p)
    PROVE  CartInv'
<1> SUFFICES ASSUME ~ overlapped' PROVE CartSerial'
  BY DEF CartInv
<1>1. CartSerial /\ \A q \in Requests : ~ CartBusy(q)
  BY CartCalm DEF Cart!PatchRead, Cart!Begin
<1>2. PICK x : x = [Cart!Idle EXCEPT !.pc = "patch", !.product = p, !.row = line[p]]
  OBVIOUS
<1>3. x.pc = "patch" /\ x.product = p /\ x.row = line[p]
  BY <1>2 DEF Cart!Idle
<1>4. HasRead(x)
  BY <1>3 DEF Cart!PatchRead, Cart!InCart, HasRead
<1>5. Cart!Go(r, x) /\ UNCHANGED <<visitor, line, rows, chosen, ordered, capped>>
  BY <1>2 DEF Cart!PatchRead, Cart!Begin
<1> QED
  BY <1>1, <1>4, <1>5, CartStep

LEMMA CartPatchSave ==
    ASSUME CartInv, UNCHANGED own, NEW r \in Requests, NEW n \in 1..MAX_QUANTITY, Cart!PatchSave(r, n)
    PROVE  CartInv'
<1> SUFFICES ASSUME CartSerial PROVE CartSerial'
  BY DEF CartInv, Cart!PatchSave
<1>1. cartReq[r].pc = "patch" /\ CartBusy(r)
  BY DEF Cart!PatchSave, CartBusy
<1>2. HasRead(cartReq[r]) /\ \A q \in Requests : q # r => ~ CartBusy(q)
  BY <1>1, CartAlone
<1>3. PICK p \in Products : p = cartReq[r].product
  BY <1>1, <1>2 DEF HasRead
<1>4. cartReq[r].row = line[p] /\ line[p].id # 0
  BY <1>1, <1>2, <1>3 DEF HasRead
<1>5. /\ line' = [line EXCEPT ![p] = [id |-> line[p].id, qty |-> n]]
      /\ chosen' = [chosen EXCEPT ![p] =
             IF n >= line[p].qty THEN chosen[p] + (n - line[p].qty)
             ELSE IF chosen[p] >= line[p].qty - n THEN chosen[p] - (line[p].qty - n) ELSE 0]
      /\ Cart!Go(r, Cart!Idle) /\ UNCHANGED <<visitor, rows, ordered, capped>>
  BY <1>3, <1>4 DEF Cart!PatchSave, Cart!End
<1>6. /\ line' = [q \in Products |-> line'[q]] /\ line'[p] = [id |-> line[p].id, qty |-> n]
      /\ \A q \in Products : q # p => line'[q] = line[q]
  BY <1>5, Zenon DEF CartSerial, CartTypes
<1>7. /\ line[p].qty \in Nat /\ chosen[p] \in Nat /\ visitor.qty[p] \in Nat
      /\ ordered[p] \in Nat /\ HeldOnce(p) /\ n \in Nat
  BY DEF CartSerial, CartTypes
<1>8. /\ chosen' \in [Products -> Nat] /\ chosen'[p] = chosen[p] + n - line[p].qty
      /\ \A q \in Products : q # p => chosen'[q] = chosen[q]
  BY <1>5, <1>7 DEF CartSerial, CartTypes, HeldOnce
<1>9. HasRead(Cart!Idle)'
  BY CartIdle DEF HasRead
<1>10. /\ cartReq' = [q \in Requests |-> cartReq'[q]]
       /\ \A q, s \in Requests : CartBusy(q)' /\ CartBusy(s)' => q = s
       /\ \A q \in Requests : HasRead(cartReq[q])'
  BY <1>2, <1>5, <1>9, CartGo DEF CartSerial
<1>11. CartTypes'
  BY <1>4, <1>5, <1>6, <1>7, <1>8, <1>10 DEF CartSerial, CartTypes
<1>12. \A q \in Products : HeldOnce(q)'
  BY <1>5, <1>6, <1>7, <1>8 DEF CartSerial, HeldOnce
<1> QED
  BY <1>10, <1>11, <1>12 DEF CartSerial

LEMMA CartMergeRead ==
    ASSUME CartInv, UNCHANGED own, NEW r \in Requests, Cart!MergeRead(r)
    PROVE  CartInv'
<1> SUFFICES ASSUME ~ overlapped' PROVE CartSerial'
  BY DEF CartInv
<1>1. CartSerial /\ \A q \in Requests : ~ CartBusy(q)
  BY CartCalm DEF Cart!MergeRead, Cart!Begin
<1>2. PICK pc \in {"read", "merge"} : pc = IF visitor.qty = Cart!Empty THEN "read" ELSE "merge"
  OBVIOUS
<1>3. PICK x : x = [Cart!Idle EXCEPT !.pc = pc, !.lines = visitor.qty]
  OBVIOUS
<1>4. x.pc \in {"read", "merge"} /\ x.lines = visitor.qty
  BY <1>2, <1>3 DEF Cart!Idle
<1>5. Cart!Go(r, x) /\ UNCHANGED <<visitor, line, rows, chosen, ordered, capped>>
  BY <1>2, <1>3, Zenon DEF Cart!MergeRead, Cart!Begin
<1> QED
  BY <1>1, <1>4, <1>5, CartStep DEF HasRead

LEMMA CartOrderRead ==
    ASSUME CartInv, UNCHANGED own, NEW r \in Requests, Cart!OrderRead(r)
    PROVE  CartInv'
<1> SUFFICES ASSUME CartSerial PROVE CartSerial'
  BY DEF CartInv, Cart!OrderRead
<1>1. CartBusy(r) /\ UNCHANGED <<visitor, line, rows, chosen, ordered, capped>>
  BY DEF Cart!OrderRead, CartBusy
<1>2. PICK x : x = [Cart!Idle EXCEPT !.pc = "order", !.lines = Cart!Quantities]
  OBVIOUS
<1>3. x.pc = "order" /\ x.lines = [p \in Products |-> line[p].qty]
  BY <1>2 DEF Cart!Idle, Cart!Quantities
<1>4. Cart!Go(r, x) \/ Cart!Go(r, Cart!Idle)
  BY <1>2 DEF Cart!OrderRead, Cart!End
<1>5. HasRead(x) /\ HasRead(Cart!Idle)
  BY <1>3, CartIdle DEF HasRead
<1> QED
  BY <1>1, <1>4, <1>5, CartAlone, CartStep

LEMMA CartCrash ==
    ASSUME CartInv, UNCHANGED own, NEW r \in Requests, Cart!Crash(r)
    PROVE  CartInv'
<1> SUFFICES ASSUME CartSerial PROVE CartSerial'
  BY DEF CartInv, Cart!Crash
<1>1. /\ CartBusy(r) /\ UNCHANGED <<visitor, line, rows, chosen, ordered, capped>>
      /\ Cart!Go(r, Cart!Idle)
  BY DEF Cart!Crash, Cart!End, CartBusy
<1> QED
  BY <1>1, CartIdle, CartAlone, CartStep

LEMMA CartOrderWrite ==
    ASSUME CartInv, UNCHANGED own, NEW r \in Requests, Cart!OrderWrite(r)
    PROVE  CartInv'
<1> SUFFICES ASSUME CartSerial PROVE CartSerial'
  BY DEF CartInv, Cart!OrderWrite
<1>1. cartReq[r].pc = "order" /\ CartBusy(r)
  BY DEF Cart!OrderWrite, CartBusy
<1>2. HasRead(cartReq[r]) /\ \A q \in Requests : q # r => ~ CartBusy(q)
  BY <1>1, CartAlone
<1>3. cartReq[r].lines = [p \in Products |-> line[p].qty]
  BY <1>1, <1>2 DEF HasRead
<1>4. /\ ordered' = [p \in Products |-> ordered[p] + line[p].qty]
      /\ line' = [p \in Products |-> Cart!NoLine]
      /\ Cart!Go(r, Cart!Idle) /\ UNCHANGED <<visitor, rows, chosen, capped>>
  BY <1>3 DEF Cart!OrderWrite, Cart!End
<1>5. HasRead(Cart!Idle)'
  BY CartIdle DEF HasRead
<1>6. /\ cartReq' = [q \in Requests |-> cartReq'[q]]
      /\ \A q, s \in Requests : CartBusy(q)' /\ CartBusy(s)' => q = s
      /\ \A q \in Requests : HasRead(cartReq[q])'
  BY <1>2, <1>4, <1>5, CartGo DEF CartSerial
<1>7. CartTypes'
  BY <1>4, <1>6 DEF CartSerial, CartTypes, Cart!NoLine
<1>8. \A q \in Products : HeldOnce(q)'
  <2> TAKE q \in Products
  <2>1. HeldOnce(q) /\ ordered[q] \in Nat /\ line[q].qty \in Nat
    BY DEF CartSerial, CartTypes
  <2>2. visitor.qty[q] \in Nat /\ line'[q].qty = 0 /\ ordered'[q] = ordered[q] + line[q].qty
    BY <1>4 DEF CartSerial, CartTypes, Cart!NoLine
  <2> QED
    BY <1>4, <2>1, <2>2 DEF HeldOnce
<1> QED
  BY <1>6, <1>7, <1>8 DEF CartSerial

LEMMA CartMergeWrite ==
    ASSUME CartInv, UNCHANGED own, NEW r \in Requests, Cart!MergeWrite(r)
    PROVE  CartInv'
<1> SUFFICES ASSUME CartSerial PROVE CartSerial'
  BY DEF CartInv, Cart!MergeWrite
<1>1. cartReq[r].pc = "merge" /\ CartBusy(r)
  BY DEF Cart!MergeWrite, CartBusy
<1>2. HasRead(cartReq[r]) /\ \A q \in Requests : q # r => ~ CartBusy(q)
  BY <1>1, CartAlone
<1>3. cartReq[r].lines = visitor.qty
  BY <1>1, <1>2 DEF HasRead
<1>4. PICK lines : lines = Cart!Bought(visitor.qty)
  OBVIOUS
<1>5. /\ lines \in [Products -> Nat]
       /\ \A p \in Products : lines[p] = IF p \in own THEN 0 ELSE visitor.qty[p]
  BY <1>4 DEF Cart!Bought, CartSerial, CartTypes
<1>6. PICK new : new = Cart!New(lines)
  OBVIOUS
<1>7. /\ line' \in Cart!Merged(lines)
      /\ rows' = rows + Cart!Cardinality(new)
      /\ capped' = (capped \/ \E p \in Products : line[p].qty + lines[p] > MAX_QUANTITY)
      /\ visitor' = Cart!NoCart
      /\ Cart!Go(r, [Cart!Idle EXCEPT !.pc = "read"])
      /\ chosen' = [p \in Products |-> IF p \in own THEN 0 ELSE chosen[p]]
      /\ UNCHANGED ordered
  BY <1>3, <1>6, <1>4 DEF Cart!MergeWrite
<1>8. /\ line' \in [Products -> [id : 0..MaxRows, qty : 0..MAX_QUANTITY]]
      /\ \A p \in Products :
            line'[p].qty = IF line[p].qty + lines[p] < MAX_QUANTITY
                           THEN line[p].qty + lines[p] ELSE MAX_QUANTITY
      /\ \A p \in Products \ new : line'[p].id = line[p].id
      /\ {line'[p].id : p \in new} = (rows + 1)..(rows + Cart!Cardinality(new))
  BY <1>6, <1>7 DEF Cart!Merged, Cart!Quantity, Cart!Lowest
<1>9. Cart!Cardinality(new) \in Nat
  <2>1. \A S : Cart!Cardinality(S) = Cardinality(S)
    BY DEF Cart!Cardinality, Cardinality
  <2>2. IsFiniteSet(new)
    BY <1>6, CartAssumption, FS_Subset DEF Cart!New
  <2> QED
    BY <2>1, <2>2, FS_CardinalityType
<1>10. MAX_QUANTITY \in Nat /\ rows \in Nat
  BY CartAssumption DEF CartSerial, CartTypes
<1>11. PICK x : x = [Cart!Idle EXCEPT !.pc = "read"]
  OBVIOUS
<1>12. HasRead(x)' /\ Cart!Go(r, x)
  BY <1>7, <1>11 DEF Cart!Idle, HasRead
<1>13. /\ cartReq' = [q \in Requests |-> cartReq'[q]]
       /\ \A q, s \in Requests : CartBusy(q)' /\ CartBusy(s)' => q = s
       /\ \A q \in Requests : HasRead(cartReq[q])'
  BY <1>2, <1>12, CartGo DEF CartSerial
<1>14. \A p \in Products :
          /\ line[p].qty \in Nat /\ visitor.qty[p] \in Nat /\ ordered[p] \in Nat
          /\ chosen[p] \in Nat /\ HeldOnce(p)
          /\ line[p].id = 0 => line[p].qty = 0
          /\ p \in own => line[p].id = 0 /\ ordered[p] = 0
  BY DEF CartSerial, CartTypes
<1>15. \A p \in Products : line'[p].id = 0 => line'[p].qty = 0
  <2> SUFFICES ASSUME NEW p \in Products, line'[p].id = 0 PROVE line'[p].qty = 0
    OBVIOUS
  <2>1. p \notin new
    <3>1. p \in new => line'[p].id \in (rows + 1)..(rows + Cart!Cardinality(new))
      BY <1>8
    <3> QED
      BY <1>9, <1>10, <3>1
  <2>2. line[p].id = 0 /\ line[p].qty = 0
    BY <1>8, <1>14, <2>1
  <2>3. lines[p] = 0
    BY <1>6, <1>5, <2>1, <2>2 DEF Cart!New, Cart!InCart
  <2> QED
    BY <1>8, <1>10, <2>2, <2>3
<1>16. CartTypes'
  <2>1. /\ visitor' = [state |-> "none", qty |-> Cart!Empty]
        /\ Cart!Empty \in [Products -> Nat]
    BY <1>7 DEF Cart!NoCart, Cart!Empty
  <2>2. /\ line' = [p \in Products |-> line'[p]]
        /\ \A p \in Products : /\ line'[p] = [id |-> line'[p].id, qty |-> line'[p].qty]
                               /\ line'[p].qty \in Nat
    BY <1>8
  <2>3. \A p \in own \cap Products : line'[p].id = 0 /\ ordered'[p] = 0
    <3> TAKE p \in own \cap Products
    <3>1. p \notin new
      BY <1>6, <1>5 DEF Cart!New
    <3> QED
      BY <1>7, <1>8, <1>14, <3>1
  <2>4. chosen' \in [Products -> Nat]
    BY <1>7, <1>14
  <2> QED
    BY <1>7, <1>9, <1>10, <1>13, <1>15, <2>1, <2>2, <2>3, <2>4 DEF CartSerial, CartTypes
<1>17. \A p \in Products : HeldOnce(p)'
  <2> TAKE p \in Products
  <2>1. /\ visitor'.qty[p] = 0 /\ ordered'[p] = ordered[p]
        /\ chosen'[p] = IF p \in own THEN 0 ELSE chosen[p]
    BY <1>7 DEF Cart!NoCart, Cart!Empty
  <2>2. ~ capped' => ~ capped /\ ~ (line[p].qty + lines[p] > MAX_QUANTITY)
    BY <1>7, Zenon
  <2>3. /\ line'[p].qty <= line[p].qty + lines[p] /\ line'[p].qty \in Nat
        /\ ~ capped' => ~ capped /\ line'[p].qty = line[p].qty + lines[p]
    BY <1>8, <1>10, <1>14, <1>5, <2>2
  <2>4. CASE p \in own
    <3>1. lines[p] = 0 /\ line[p].qty = 0 /\ ordered[p] = 0
      BY <1>14, <1>5, <2>4
    <3> QED
      BY <2>1, <2>3, <2>4, <3>1 DEF HeldOnce
  <2>5. CASE p \notin own
    <3>1. lines[p] = visitor.qty[p]
      BY <1>5, <2>5
    <3> QED
      BY <1>14, <2>1, <2>3, <2>5, <3>1 DEF HeldOnce
  <2> QED
    BY <2>4, <2>5
<1> QED
  BY <1>13, <1>16, <1>17 DEF CartSerial

LEMMA CartNextInv == CartInv /\ [Cart!Next]_(Cart!vars) => CartInv'
<1>1. ASSUME CartInv, UNCHANGED Cart!vars PROVE CartInv'
  BY <1>1 DEF Cart!vars, CartInv, CartSerial, CartTypes, CartBusy, HasRead, HeldOnce
<1>2. ASSUME CartInv, UNCHANGED own, Cart!VisitorLooks \/ Cart!Expires PROVE CartInv'
  BY <1>2, CartLooks DEF Cart!VisitorLooks, Cart!Expires
<1> QED
  BY <1>1, <1>2, CartVisitorAdds, CartUserAdds, CartUserRemoves, CartPatchRead, CartPatchSave,
     CartMergeRead, CartMergeWrite, CartOrderRead, CartOrderWrite, CartCrash DEF Cart!Next

(* ChosenIsHeldOnce: what a customer has chosen is in one of the two carts *)
(* or ordered, once, as long as the requests come one after the other.     *)
THEOREM CartsKeepChoices == Cart!Spec => []ChosenIsHeldOnce
<1>1. CartInv => ChosenIsHeldOnce
  BY DEF CartInv, CartSerial, HeldOnce, ChosenIsHeldOnce, Cart!ChosenIsHeldOnce, Cart!Held
<1> QED
  BY <1>1, CartInitInv, CartNextInv, PTL DEF Cart!Spec

-----------------------------------------------------------------------------
(***************************************************************************)
(* Announcements: whoever is due to know, of the rows that the call sees,  *)
(* is told or still to be told, as long as the call can commit.            *)
(***************************************************************************)
Folk == Payment!People
Notes == [to : Folk \cup {"log"}, reads : BOOLEAN]

IsRows(w) == /\ w = [payment |-> w.payment, order |-> w.order, told |-> w.told,
                     logged |-> w.logged]
             /\ w.told \in [Folk -> Nat] /\ w.logged \in Nat
             /\ w.payment = "pending" => w.logged = 0 /\ \A p \in Folk : w.told[p] = 0

IsCall(c) == c \in [pc : {"idle", "settle", "move", "notes"}, by : Payment!Callers,
                    rows : {c.rows}, broken : BOOLEAN, notes : Seq(Notes)]

DueIf(said, moves) ==
    IF said = "completed" THEN (IF moves THEN Folk ELSE {})
    ELSE IF moves \/ said = "mismatch" THEN {"buyer"} ELSE {}

Said(notes, p) == \E n \in 1..Len(notes) : notes[n].to = p

Reached(said, w, notes, moves) == \A p \in DueIf(said, moves) : w.told[p] > 0 \/ Said(notes, p)

(* The rows the call sees, and whether it moves the order. *)
SeenBy(d, c) == IF c.by # "verify" THEN c.rows ELSE d
Moves(d, c, m) == m \/ (c.by # "verify" /\ c.rows.order # d.order)

Resolving(said, d, c, m, h) ==
    /\ IsCall(c) /\ IsRows(d) /\ IsRows(SeenBy(d, c))
    /\ m => d.payment # "pending"
    /\ c.by # "verify" => /\ d.payment = "pending"
                          /\ c.pc = "settle" => c.rows = d
                          /\ c.pc = "move" => c.rows.order = d.order
    /\ c.pc = "idle" => c.by = "verify"
    /\ c.pc = "move" => said # "mismatch"
    /\ c.pc \in {"move", "notes"} => SeenBy(d, c).payment # "pending"
    /\ c.pc # "notes" => c.notes = <<>>
    /\ c.pc # "notes" \/ c.by = "verify" => ~ c.broken
    /\ ~ h /\ ~ c.broken /\ SeenBy(d, c).payment # "pending" =>
           Reached(said, SeenBy(d, c), c.notes, Moves(d, c, m))

PaymentInv == /\ outcome \in {"completed", "failed", "mismatch"}
              /\ moved \in BOOLEAN
              /\ Resolving(outcome, db, call, moved, hushed)

(* Payment has an instance of the community modules of its own. *)
LEMMA EverySellerListed ==
    \A s \in Sellers : \E n \in DOMAIN Payment!SetToSeq(Sellers) :
        Payment!SetToSeq(Sellers)[n] = s
<1>1. \A S : Payment!Cardinality(S) = Cardinality(S)
  BY DEF Payment!Cardinality, Cardinality
<1>2. PICK k \in Nat : k = Cardinality(Sellers)
  BY AnnounceAssumption, FS_CardinalityType
<1>3. PICK f : f = Payment!SetToSeq(Sellers)
  OBVIOUS
<1>4. \E g \in [1..k -> Sellers] : Payment!IsInjective(g)
  <2>1. ExistsBijection(1..k, Sellers)
    BY AnnounceAssumption, <1>2, FS_CardinalityType
  <2> QED
    BY <2>1 DEF ExistsBijection, Bijection, Injection, IsInjective, Payment!IsInjective
<1>5. f = CHOOSE g \in [1..k -> Sellers] : Payment!IsInjective(g)
  BY <1>1, <1>2, <1>3 DEF Payment!SetToSeq
<1>6. f \in [1..k -> Sellers] /\ Payment!IsInjective(f)
  BY <1>4, <1>5
<1>7. f \in Injection(1..k, Sellers)
  BY <1>6 DEF Injection, IsInjective, Payment!IsInjective
<1>8. Cardinality(1..k) = k
  BY <1>2, FS_Interval
<1>9. f \in Surjection(1..k, Sellers)
  BY <1>2, <1>7, <1>8, AnnounceAssumption, FS_Injection
<1>10. \A s \in Sellers : \E n \in 1..k : f[n] = s
  BY <1>9 DEF Surjection
<1> QED
  BY <1>3, <1>6, <1>10

LEMMA SellersListed ==
    \E k \in Nat : Payment!SetToSeq(Sellers) \in [1..k -> Sellers]
<1>1. \A S : Payment!Cardinality(S) = Cardinality(S)
  BY DEF Payment!Cardinality, Cardinality
<1>2. PICK k \in Nat : k = Cardinality(Sellers)
  BY AnnounceAssumption, FS_CardinalityType
<1>3. \E g \in [1..k -> Sellers] : Payment!IsInjective(g)
  <2>1. ExistsBijection(1..k, Sellers)
    BY AnnounceAssumption, <1>2, FS_CardinalityType
  <2> QED
    BY <2>1 DEF ExistsBijection, Bijection, Injection, IsInjective, Payment!IsInjective
<1>4. Payment!SetToSeq(Sellers) = CHOOSE g \in [1..k -> Sellers] : Payment!IsInjective(g)
  BY <1>1, <1>2 DEF Payment!SetToSeq
<1> QED
  BY <1>3, <1>4

LEMMA SaidInEither ==
    ASSUME NEW s \in Seq(Notes), NEW t \in Seq(Notes), NEW p
    PROVE  s \o t \in Seq(Notes) /\ (Said(s, p) \/ Said(t, p) => Said(s \o t, p))
<1>1. s \o t \in Seq(Notes) /\ Len(s \o t) = Len(s) + Len(t)
  OBVIOUS
<1>2. /\ \A n \in 1..Len(s) : (s \o t)[n] = s[n]
      /\ \A n \in 1..Len(t) : (s \o t)[Len(s) + n] = t[n]
  OBVIOUS
<1>3. ASSUME NEW n \in 1..Len(s), s[n].to = p PROVE Said(s \o t, p)
  <2>1. n \in 1..Len(s \o t) /\ (s \o t)[n].to = p
    BY <1>1, <1>2, <1>3
  <2> QED
    BY <2>1 DEF Said
<1>4. ASSUME NEW n \in 1..Len(t), t[n].to = p PROVE Said(s \o t, p)
  <2>1. Len(s) + n \in 1..Len(s \o t) /\ (s \o t)[Len(s) + n].to = p
    BY <1>1, <1>2, <1>4
  <2> QED
    BY <2>1 DEF Said
<1> QED
  BY <1>1, <1>3, <1>4 DEF Said

LEMMA SaidLater ==
    ASSUME NEW s \in Seq(Notes), s # <<>>, NEW p
    PROVE  /\ Tail(s) \in Seq(Notes) /\ Head(s) \in Notes
           /\ Said(s, p) => Head(s).to = p \/ Said(Tail(s), p)
<1>1. /\ Tail(s) \in Seq(Notes) /\ Head(s) \in Notes /\ Head(s) = s[1]
      /\ Len(Tail(s)) = Len(s) - 1 /\ Len(s) \in Nat
      /\ \A n \in 1..Len(Tail(s)) : Tail(s)[n] = s[n + 1]
  OBVIOUS
<1>2. ASSUME NEW n \in 1..Len(s), s[n].to = p, n # 1 PROVE Said(Tail(s), p)
  <2>1. n - 1 \in 1..Len(Tail(s)) /\ Tail(s)[n - 1].to = p
    BY <1>1, <1>2
  <2> QED
    BY <2>1 DEF Said
<1> QED
  BY <1>1, <1>2 DEF Said

LEMMA PaymentNotesSaid ==
    ASSUME outcome \in {"completed", "failed", "mismatch"}, NEW by \in Payment!Callers
    PROVE  /\ Payment!PaymentNotes(by) \in Seq(Notes)
           /\ outcome = "mismatch" => Said(Payment!PaymentNotes(by), "buyer")
<1>1. PICK s : s = IF outcome = "mismatch" \/ (outcome = "failed" /\ by = "webhook")
                   THEN <<Payment!Note("buyer", TRUE)>> ELSE <<>>
  OBVIOUS
<1>2. PICK t : t = IF by # "reconcile" THEN <<Payment!Note("log", FALSE)>> ELSE <<>>
  OBVIOUS
<1>3. /\ Payment!Note("buyer", TRUE) \in Notes /\ Payment!Note("log", FALSE) \in Notes
      /\ Payment!Note("buyer", TRUE).to = "buyer"
  BY DEF Payment!Note, Notes, Folk, Payment!People
<1>4. s \in Seq(Notes) /\ t \in Seq(Notes)
  <2>1. \A x \in Notes : <<x>> \in Seq(Notes)
    OBVIOUS
  <2>2. <<>> \in Seq(Notes)
    OBVIOUS
  <2> QED
    BY <1>1, <1>2, <1>3, <2>1, <2>2, Zenon
<1>5. outcome = "mismatch" => Said(s, "buyer")
  <2>1. PICK x : x = Payment!Note("buyer", TRUE)
    OBVIOUS
  <2>2. 1 \in 1..Len(<<x>>) /\ <<x>>[1] = x
    OBVIOUS
  <2>3. Said(<<x>>, "buyer")
    BY <1>3, <2>1, <2>2, Zenon DEF Said
  <2> QED
    BY <1>1, <2>1, <2>3
<1>6. Payment!PaymentNotes(by) = s \o t
  BY <1>1, <1>2 DEF Payment!PaymentNotes, Payment!Log
<1> QED
  BY <1>4, <1>5, <1>6, SaidInEither

LEMMA OrderNotesSaid ==
    /\ Payment!OrderNotes \in Seq(Notes)
    /\ Said(Payment!OrderNotes, "buyer")
    /\ outcome = "completed" => \A p \in Folk : Said(Payment!OrderNotes, p)
<1>1. PICK f : f = Payment!SetToSeq(Sellers)
  OBVIOUS
<1>2. PICK k \in Nat : f \in [1..k -> Sellers]
  BY <1>1, SellersListed
<1>3. PICK t : t = [n \in DOMAIN f |-> Payment!Note(f[n], n = 1)]
  OBVIOUS
<1>4. t \in Seq(Notes) /\ Len(t) = k /\ \A n \in 1..k : t[n].to = f[n]
  <2>1. \A n \in 1..k : Payment!Note(f[n], n = 1) \in Notes /\ Payment!Note(f[n], n = 1).to = f[n]
    <3> TAKE n \in 1..k
    <3>1. f[n] \in Folk
      BY <1>2 DEF Folk, Payment!People
    <3>2. PICK b \in BOOLEAN : b = (n = 1)
      BY Zenon
    <3>3. Payment!Note(f[n], n = 1) = [to |-> f[n], reads |-> b]
      BY <3>2, Zenon DEF Payment!Note
    <3> QED
      BY <3>1, <3>3 DEF Notes
  <2>2. t \in [1..k -> Notes]
    BY <1>2, <1>3, <2>1
  <2>3. \A n \in 1..k : t[n] = Payment!Note(f[n], n = 1)
    BY <1>2, <1>3
  <2> QED
    BY <2>1, <2>2, <2>3
<1>5. \A p \in Sellers : Said(t, p)
  BY <1>1, <1>2, <1>4, EverySellerListed DEF Said
<1>6. PICK s : s = <<Payment!Note("log", FALSE), Payment!Note("buyer", TRUE)>>
  OBVIOUS
<1>7. s \in Seq(Notes) /\ Said(s, "buyer")
  BY <1>6 DEF Said, Payment!Note, Notes, Folk, Payment!People
<1>8. PICK u : u = IF outcome = "completed" THEN t ELSE <<>>
  OBVIOUS
<1>9. Payment!OrderNotes = s \o u
  BY <1>1, <1>3, <1>6, <1>8 DEF Payment!OrderNotes, Payment!SellerNotes, Payment!Log
<1>10. u \in Seq(Notes)
  BY <1>4, <1>8
<1>11. outcome = "completed" => \A p \in Folk : Said(s, p) \/ Said(u, p)
  BY <1>5, <1>7, <1>8 DEF Folk, Payment!People
<1> QED
  BY <1>7, <1>9, <1>10, <1>11, SaidInEither

(* No call is under way: what is told is told in the committed rows.       *)
LEMMA PaymentEnds ==
    ASSUME PaymentInv, call' = Payment!Idle, outcome' = outcome, moved' \in BOOLEAN, IsRows(db'),
           moved' => db'.payment # "pending",
           ~ hushed' /\ db'.payment # "pending" => Reached(outcome, db', <<>>, moved')
    PROVE  PaymentInv'
<1>1. PICK c : c = Payment!Idle
  OBVIOUS
<1>2. c.pc = "idle" /\ c.by = "verify" /\ ~ c.broken /\ c.notes = <<>> /\ IsCall(c)
  BY <1>1 DEF Payment!Idle, IsCall, Payment!Callers
<1>3. PICK d : d = db'
  OBVIOUS
<1>4. PICK m \in BOOLEAN : m = moved'
  OBVIOUS
<1>5. PICK h : h = hushed'
  OBVIOUS
<1>6. SeenBy(d, c) = d /\ (Moves(d, c, m) <=> m)
  BY <1>2 DEF SeenBy, Moves
<1>7. ~ h /\ d.payment # "pending" => Reached(outcome, d, c.notes, Moves(d, c, m))
  BY <1>2, <1>3, <1>4, <1>5, <1>6 DEF Reached, DueIf
<1>8. IsRows(d) /\ (m => d.payment # "pending")
  BY <1>3, <1>4
<1>9. Resolving(outcome, d, c, m, h)
  BY <1>2, <1>6, <1>7, <1>8 DEF Resolving
<1>10. Resolving(outcome, db, call, moved, hushed)'
  BY <1>1, <1>3, <1>4, <1>5, <1>9
<1> QED
  BY <1>10 DEF PaymentInv

LEMMA PaymentInitInv == Payment!Init => PaymentInv
<1> SUFFICES ASSUME Payment!Init PROVE PaymentInv
  OBVIOUS
<1>1. PICK known : db = Payment!Fresh(known)
  BY DEF Payment!Init
<1>2. IsRows(db) /\ db.payment = "pending"
  BY <1>1 DEF Payment!Fresh, IsRows, Folk
<1>3. PICK c : c = Payment!Idle
  OBVIOUS
<1>4. c.pc = "idle" /\ c.by = "verify" /\ ~ c.broken /\ c.notes = <<>> /\ IsCall(c)
  BY <1>3 DEF Payment!Idle, IsCall, Payment!Callers
<1>5. call = c /\ moved = FALSE /\ outcome \in {"completed", "failed", "mismatch"}
  BY <1>3 DEF Payment!Init
<1>6. SeenBy(db, call) = db
  BY <1>4, <1>5 DEF SeenBy
<1> QED
  BY <1>2, <1>4, <1>5, <1>6 DEF PaymentInv, Resolving

LEMMA PaymentBegin ==
    ASSUME PaymentInv, NEW by \in Payment!Callers, Payment!Begin(by)
    PROVE  PaymentInv'
<1>1. call.pc = "idle" /\ UNCHANGED <<outcome, db, moved, hushed>>
  BY DEF Payment!Begin
<1>2. /\ call.by = "verify" /\ ~ call.broken /\ call.notes = <<>> /\ IsRows(db)
      /\ moved => db.payment # "pending"
      /\ SeenBy(db, call) = db /\ (Moves(db, call, moved) <=> moved)
  BY <1>1 DEF PaymentInv, Resolving, SeenBy, Moves
<1>3. ~ hushed /\ db.payment # "pending" => Reached(outcome, db, <<>>, moved)
  BY <1>2 DEF PaymentInv, Resolving, Reached, DueIf
<1>4. CASE call' = Payment!Idle
  BY <1>1, <1>2, <1>3, <1>4, PaymentEnds DEF PaymentInv
<1>5. CASE /\ db.payment = "pending" \/ (by = "verify" /\ db.payment = "failed")
           /\ call' = [Payment!Idle EXCEPT !.pc = "settle", !.by = by,
                                           !.rows = IF Payment!InTransaction(by) THEN db ELSE 0]
  <2>1. PICK c : c = [Payment!Idle EXCEPT !.pc = "settle", !.by = by,
                                          !.rows = IF Payment!InTransaction(by) THEN db ELSE 0]
    OBVIOUS
  <2>2. PICK seen : seen = IF by # "verify" THEN db ELSE 0
    OBVIOUS
  <2>3. c = [pc |-> "settle", by |-> by, rows |-> seen, broken |-> FALSE, notes |-> <<>>]
    BY <2>1, <2>2 DEF Payment!Idle, Payment!InTransaction
  <2>4. /\ c.pc = "settle" /\ c.by = by /\ ~ c.broken /\ c.notes = <<>> /\ IsCall(c)
        /\ c.rows = seen
    BY <2>3 DEF IsCall
  <2>5. SeenBy(db, c) = db
    BY <2>2, <2>4 DEF SeenBy
  <2>6. by # "verify" => db.payment = "pending" /\ c.rows = db
    BY <1>5, <2>2, <2>4
  <2>7. moved \in BOOLEAN
    BY DEF PaymentInv
  <2>8. ~ hushed /\ db.payment # "pending" =>
            Reached(outcome, db, c.notes, Moves(db, c, moved))
    BY <1>3, <2>4, <2>6, <2>7 DEF Moves, Reached, DueIf
  <2>9. Resolving(outcome, db, c, moved, hushed)
    BY <1>2, <2>4, <2>5, <2>6, <2>8 DEF Resolving
  <2>10. Resolving(outcome, db, call, moved, hushed)'
    BY <1>1, <1>5, <2>1, <2>9
  <2> QED
    BY <1>1, <2>7, <2>10 DEF PaymentInv
<1> QED
  BY <1>4, <1>5 DEF Payment!Begin

(* The call writes rows, and goes on as next. *)
LEMMA PaymentWrites ==
    ASSUME PaymentInv, call.pc # "idle", NEW w, NEW next, IsRows(w), w.payment # "pending",
           Payment!Write(w, next), IsCall(next), next.by = call.by, ~ next.broken,
           next.pc \in {"move", "notes"},
           next.pc = "move" => /\ outcome # "mismatch" /\ next.notes = <<>>
                               /\ w.order = SeenBy(db, call).order /\ call.pc = "settle",
           UNCHANGED <<outcome, hushed>>,
           moved' \in BOOLEAN, call.by # "verify" => moved' = moved,
           ~ hushed => Reached(outcome, w, next.notes, 
                               moved' \/ (call.by # "verify" /\ w.order # db.order))
    PROVE  PaymentInv'
<1>1. PICK c : c = call'
  OBVIOUS
<1>2. PICK d : d = db'
  OBVIOUS
<1>3. PICK m \in BOOLEAN : m = moved'
  OBVIOUS
<1>4. /\ IsCall(c) /\ c.pc = next.pc /\ c.by = next.by /\ c.notes = next.notes
      /\ c.broken = next.broken
      /\ c.by # "verify" => c.rows = w /\ d = db
      /\ c.by = "verify" => d = w
  <2>1. CASE call.by # "verify"
    <3>1. c = [next EXCEPT !.rows = w] /\ d = db
      BY <1>1, <1>2, <2>1 DEF Payment!Write, Payment!InTransaction
    <3>2. c = [pc |-> next.pc, by |-> next.by, rows |-> w, broken |-> next.broken,
               notes |-> next.notes]
      BY <3>1 DEF IsCall
    <3>3. /\ next.pc \in {"idle", "settle", "move", "notes"} /\ next.by \in Payment!Callers
          /\ next.broken \in BOOLEAN /\ next.notes \in Seq(Notes)
      BY DEF IsCall
    <3> QED
      BY <2>1, <3>1, <3>2, <3>3 DEF IsCall
  <2>2. CASE call.by = "verify"
    BY <1>1, <1>2, <2>2 DEF Payment!Write, Payment!InTransaction
  <2> QED
    BY <2>1, <2>2
<1>5. SeenBy(d, c) = w
  BY <1>4 DEF SeenBy
<1>6. IsRows(d) /\ (c.by # "verify" => d.payment = "pending")
  BY <1>4 DEF PaymentInv, Resolving
<1>7. m => d.payment # "pending"
  BY <1>3, <1>4 DEF PaymentInv, Resolving
<1>8. c.by # "verify" /\ c.pc = "move" => c.rows.order = d.order
  BY <1>4 DEF PaymentInv, Resolving, SeenBy
<1>9. Moves(d, c, m) <=> moved' \/ (call.by # "verify" /\ w.order # db.order)
  BY <1>3, <1>4 DEF Moves
<1>10. ~ hushed => Reached(outcome, w, c.notes, Moves(d, c, m))
  BY <1>4, <1>9 DEF Reached, DueIf
<1>11. Resolving(outcome, d, c, m, hushed)
  BY <1>4, <1>5, <1>6, <1>7, <1>8, <1>10 DEF Resolving
<1>12. Resolving(outcome, db, call, moved, hushed)'
  BY <1>1, <1>2, <1>3, <1>11
<1> QED
  BY <1>12 DEF PaymentInv

(* What the call under way sees. *)
LEMMA PaymentSeen ==
    ASSUME PaymentInv
    PROVE  /\ IsCall(call) /\ IsRows(SeenBy(db, call)) /\ Payment!Rows = SeenBy(db, call)
           /\ call.by \in Payment!Callers /\ moved \in BOOLEAN
           /\ outcome \in {"completed", "failed", "mismatch"}
BY DEF PaymentInv, Resolving, IsCall, SeenBy, Payment!Rows, Payment!InTransaction

LEMMA PaymentSettle == ASSUME PaymentInv, Payment!Settle PROVE PaymentInv'
<1>1. call.pc = "settle" /\ UNCHANGED <<outcome, calls, answer, moved, hushed>>
  BY DEF Payment!Settle
<1>2. PICK v : v = SeenBy(db, call)
  OBVIOUS
<1>3. IsRows(v) /\ Payment!Rows = v
  BY <1>2, PaymentSeen
<1>4. PICK w : w = [v EXCEPT !.payment = IF outcome = "completed" THEN "successful" ELSE "failed"]
  OBVIOUS
<1>5. w = [payment |-> IF outcome = "completed" THEN "successful" ELSE "failed",
           order |-> v.order, told |-> v.told, logged |-> v.logged]
  BY <1>3, <1>4 DEF IsRows
<1>6. IsRows(w) /\ w.payment # "pending" /\ w.order = v.order /\ w.told = v.told
  BY <1>3, <1>5 DEF IsRows
<1>7. PICK notes : notes = IF outcome = "mismatch" THEN Payment!PaymentNotes(call.by) ELSE <<>>
  OBVIOUS
<1>8. notes \in Seq(Notes) /\ (outcome = "mismatch" => Said(notes, "buyer"))
  <2>1. <<>> \in Seq(Notes)
    OBVIOUS
  <2> QED
    BY <1>7, <2>1, PaymentSeen, PaymentNotesSaid
<1>9. PICK next : next = IF outcome = "mismatch"
                         THEN [call EXCEPT !.pc = "notes", !.notes = Payment!PaymentNotes(call.by)]
                         ELSE [call EXCEPT !.pc = "move"]
  OBVIOUS
<1>10. call.notes = <<>> /\ ~ call.broken
  BY <1>1 DEF PaymentInv, Resolving
<1>11. call = [pc |-> call.pc, by |-> call.by, rows |-> call.rows, broken |-> call.broken,
               notes |-> call.notes] /\ call.by \in Payment!Callers /\ call.broken \in BOOLEAN
  BY PaymentSeen DEF IsCall
<1>12. next = [pc |-> IF outcome = "mismatch" THEN "notes" ELSE "move", by |-> call.by,
               rows |-> call.rows, broken |-> call.broken, notes |-> notes]
  BY <1>7, <1>9, <1>10, <1>11
<1>13. /\ IsCall(next) /\ next.by = call.by /\ ~ next.broken /\ next.notes = notes
       /\ next.pc = IF outcome = "mismatch" THEN "notes" ELSE "move"
  BY <1>8, <1>10, <1>11, <1>12 DEF IsCall
<1>14. Payment!Write(w, next)
  BY <1>3, <1>4, <1>9 DEF Payment!Settle
<1>15. call.by # "verify" => w.order = db.order
  BY <1>1, <1>2, <1>6 DEF PaymentInv, Resolving, SeenBy
<1>16. ~ hushed => Reached(outcome, w, notes, moved)
  <2>1. CASE outcome = "mismatch"
    BY <1>8, <2>1 DEF Reached, DueIf
  <2>2. CASE outcome # "mismatch" /\ moved
    <3>1. /\ db.payment # "pending" /\ call.by = "verify"
          /\ ~ hushed => Reached(outcome, v, <<>>, moved)
      BY <1>2, <1>10, <2>2 DEF PaymentInv, Resolving, SeenBy, Moves, Reached, DueIf
    <3> QED
      BY <1>6, <1>7, <2>2, <3>1 DEF Reached
  <2>3. CASE outcome # "mismatch" /\ ~ moved
    BY <2>3 DEF Reached, DueIf
  <2> QED
    BY <2>1, <2>2, <2>3
<1>17. ~ hushed => Reached(outcome, w, next.notes,
                           moved' \/ (call.by # "verify" /\ w.order # db.order))
  BY <1>1, <1>13, <1>15, <1>16 DEF Reached, DueIf
<1> QED
  BY <1>1, <1>2, <1>6, <1>7, <1>13, <1>14, <1>17, PaymentSeen, PaymentWrites

LEMMA PaymentMove == ASSUME PaymentInv, Payment!Move PROVE PaymentInv'
<1>1. call.pc = "move" /\ UNCHANGED <<outcome, hushed>>
  BY DEF Payment!Move
<1>2. PICK v : v = SeenBy(db, call)
  OBVIOUS
<1>3. IsRows(v) /\ Payment!Rows = v /\ v.payment # "pending"
  BY <1>1, <1>2, PaymentSeen DEF PaymentInv, Resolving
<1>4. /\ call.notes = <<>> /\ ~ call.broken /\ outcome # "mismatch"
      /\ call.by # "verify" => v.order = db.order
  BY <1>1, <1>2 DEF PaymentInv, Resolving, SeenBy
<1>5. call = [pc |-> call.pc, by |-> call.by, rows |-> call.rows, broken |-> call.broken,
              notes |-> call.notes] /\ call.by \in Payment!Callers /\ call.broken \in BOOLEAN
  BY PaymentSeen DEF IsCall
<1>6. PICK late : late = Payment!PaymentNotes(call.by)
  OBVIOUS
<1>7. late \in Seq(Notes)
  BY <1>6, PaymentSeen, PaymentNotesSaid
<1>8. CASE v.order = "pending_payment"
  <2>1. PICK w : w = [v EXCEPT !.order = IF outcome = "completed" THEN "paid" ELSE "payment_failed"]
    OBVIOUS
  <2>2. w = [payment |-> v.payment,
             order |-> IF outcome = "completed" THEN "paid" ELSE "payment_failed",
             told |-> v.told, logged |-> v.logged]
    BY <1>3, <2>1 DEF IsRows
  <2>3. IsRows(w) /\ w.payment # "pending"
    BY <1>3, <2>2 DEF IsRows
  <2>4. PICK notes : notes = Payment!OrderNotes \o late
    OBVIOUS
  <2>5. /\ notes \in Seq(Notes) /\ Said(notes, "buyer")
        /\ outcome = "completed" => \A p \in Folk : Said(notes, p)
    BY <1>7, <2>4, OrderNotesSaid, SaidInEither
  <2>6. PICK next : next = [call EXCEPT !.pc = "notes", !.notes = notes]
    OBVIOUS
  <2>7. next = [pc |-> "notes", by |-> call.by, rows |-> call.rows, broken |-> call.broken,
                notes |-> notes]
    BY <1>5, <2>6
  <2>8. /\ IsCall(next) /\ next.by = call.by /\ ~ next.broken /\ next.notes = notes
        /\ next.pc = "notes"
    BY <1>4, <1>5, <2>5, <2>7 DEF IsCall
  <2>9. Payment!Write(w, next) /\ moved' = (moved \/ ~ Payment!InTransaction(call.by))
    BY <1>3, <1>6, <1>8, <2>1, <2>4, <2>6 DEF Payment!Move
  <2>10. moved' \in BOOLEAN
    BY <2>9, Zenon
  <2>11. call.by # "verify" => moved' = moved
    BY <2>9, PaymentSeen DEF Payment!InTransaction
  <2>12. \A m : Reached(outcome, w, next.notes, m)
    BY <2>5, <2>8 DEF Reached, DueIf
  <2> QED
    BY <1>1, <2>3, <2>8, <2>9, <2>10, <2>11, <2>12, PaymentSeen, PaymentWrites
<1>9. CASE v.order # "pending_payment"
  <2>1. PICK next : next = [call EXCEPT !.pc = "notes", !.notes = late]
    OBVIOUS
  <2>2. next = [pc |-> "notes", by |-> call.by, rows |-> call.rows, broken |-> call.broken,
                notes |-> late]
    BY <1>5, <2>1
  <2>3. /\ IsCall(next) /\ next.by = call.by /\ ~ next.broken /\ next.notes = late
        /\ next.pc = "notes" /\ next.rows = call.rows
    BY <1>4, <1>5, <1>7, <2>2 DEF IsCall
  <2>4. call' = next /\ UNCHANGED <<db, moved>>
    BY <1>3, <1>6, <1>9, <2>1 DEF Payment!Move
  <2>5. Payment!Write(v, next)
    <3>1. call.by # "verify" => next = [next EXCEPT !.rows = v]
      BY <1>2, <2>2 DEF SeenBy
    <3> QED
      BY <1>2, <2>4, <3>1 DEF Payment!Write, Payment!InTransaction, SeenBy
  <2>6. ~ hushed => Reached(outcome, v, <<>>, moved)
    BY <1>2, <1>3, <1>4 DEF PaymentInv, Resolving, SeenBy, Moves, Reached, DueIf
  <2>7. ~ hushed => Reached(outcome, v, next.notes, moved)
    BY <2>6 DEF Reached, Said
  <2>8. ~ hushed => Reached(outcome, v, next.notes,
                            moved' \/ (call.by # "verify" /\ v.order # db.order))
    BY <1>4, <2>4, <2>7 DEF Reached, DueIf
  <2> QED
    BY <1>1, <1>3, <2>3, <2>4, <2>5, <2>8, PaymentSeen, PaymentWrites
<1> QED
  BY <1>8, <1>9

LEMMA TellOne ==
    ASSUME NEW v, IsRows(v), v.payment # "pending", NEW to \in Folk \cup {"log"}
    PROVE  /\ IsRows(Payment!Told(v, to)) /\ Payment!Told(v, to).payment # "pending"
           /\ Payment!Told(v, to).order = v.order
           /\ \A p \in Folk : v.told[p] > 0 \/ to = p => Payment!Told(v, to).told[p] > 0
<1>1. "log" \notin Folk
  BY AnnounceAssumption DEF Folk, Payment!People
<1>2. CASE to = "log"
  <2>1. PICK w : w = [v EXCEPT !.logged = v.logged + 1]
    OBVIOUS
  <2>2. w = [payment |-> v.payment, order |-> v.order, told |-> v.told, logged |-> v.logged + 1]
    BY <2>1 DEF IsRows
  <2>3. Payment!Told(v, to) = w
    BY <1>2, <2>1 DEF Payment!Told, Payment!Log
  <2>4. IsRows(w) /\ w.payment # "pending" /\ w.order = v.order /\ w.told = v.told
    BY <2>2 DEF IsRows
  <2> QED
    BY <1>1, <1>2, <2>3, <2>4
<1>3. CASE to # "log"
  <2>1. PICK told : told = [v.told EXCEPT ![to] = v.told[to] + 1]
    OBVIOUS
  <2>2. PICK w : w = [v EXCEPT !.told[to] = v.told[to] + 1]
    OBVIOUS
  <2>3. w = [payment |-> v.payment, order |-> v.order, told |-> told, logged |-> v.logged]
    BY <2>1, <2>2 DEF IsRows
  <2>4. told \in [Folk -> Nat] /\ \A p \in Folk : v.told[p] > 0 \/ to = p => told[p] > 0
    BY <1>3, <2>1 DEF IsRows
  <2>5. Payment!Told(v, to) = w
    BY <1>3, <2>2 DEF Payment!Told, Payment!Log
  <2>6. IsRows(w) /\ w.payment # "pending" /\ w.order = v.order /\ w.told = told
    BY <2>3, <2>4 DEF IsRows
  <2> QED
    BY <2>4, <2>5, <2>6
<1> QED
  BY <1>2, <1>3

LEMMA PaymentAnnounce == ASSUME PaymentInv, Payment!Announce PROVE PaymentInv'
<1>1. /\ call.pc = "notes" /\ call.notes # <<>> /\ ~ call.broken
      /\ UNCHANGED <<outcome, moved, hushed>>
  BY DEF Payment!Announce
<1>2. PICK v : v = SeenBy(db, call)
  OBVIOUS
<1>3. IsRows(v) /\ Payment!Rows = v /\ v.payment # "pending"
  BY <1>1, <1>2, PaymentSeen DEF PaymentInv, Resolving
<1>4. PICK to : to = Head(call.notes).to
  OBVIOUS
<1>5. PICK rest : rest = Tail(call.notes)
  OBVIOUS
<1>6. /\ rest \in Seq(Notes) /\ to \in Folk \cup {"log"}
      /\ \A p : Said(call.notes, p) => to = p \/ Said(rest, p)
  BY <1>1, <1>4, <1>5, PaymentSeen, SaidLater DEF IsCall, Notes
<1>7. PICK w : w = Payment!Told(v, to)
  OBVIOUS
<1>8. /\ IsRows(w) /\ w.payment # "pending" /\ w.order = v.order
      /\ \A p \in Folk : v.told[p] > 0 \/ to = p => w.told[p] > 0
  BY <1>3, <1>6, <1>7, TellOne
<1>9. PICK next : next = [call EXCEPT !.notes = rest]
  OBVIOUS
<1>10. call = [pc |-> call.pc, by |-> call.by, rows |-> call.rows, broken |-> call.broken,
               notes |-> call.notes] /\ call.by \in Payment!Callers /\ call.broken \in BOOLEAN
  BY PaymentSeen DEF IsCall
<1>11. next = [pc |-> call.pc, by |-> call.by, rows |-> call.rows, broken |-> call.broken,
               notes |-> rest]
  BY <1>9, <1>10
<1>12. /\ IsCall(next) /\ next.by = call.by /\ ~ next.broken /\ next.notes = rest
       /\ next.pc = "notes"
  BY <1>1, <1>6, <1>10, <1>11 DEF IsCall
<1>13. Payment!Write(w, next)
  BY <1>3, <1>4, <1>5, <1>7, <1>9 DEF Payment!Announce
<1>14. PICK m : m = Moves(db, call, moved)
  OBVIOUS
<1>15. ~ hushed => Reached(outcome, v, call.notes, m)
  BY <1>1, <1>2, <1>3, <1>14 DEF PaymentInv, Resolving
<1>16. DueIf(outcome, m) \subseteq Folk
  BY DEF DueIf, Folk, Payment!People
<1>17. ~ hushed => Reached(outcome, w, rest, m)
  BY <1>6, <1>8, <1>15, <1>16 DEF Reached
<1>18. m <=> moved' \/ (call.by # "verify" /\ w.order # db.order)
  BY <1>1, <1>2, <1>8, <1>14 DEF Moves, SeenBy
<1>19. ~ hushed => Reached(outcome, w, next.notes,
                           moved' \/ (call.by # "verify" /\ w.order # db.order))
  BY <1>12, <1>17, <1>18 DEF Reached, DueIf
<1> QED
  BY <1>1, <1>8, <1>12, <1>13, <1>19, PaymentSeen, PaymentWrites

(* The call loses an announcement, and in a transaction the transaction.   *)
LEMMA PaymentLoses ==
    ASSUME PaymentInv, call.pc = "notes", call.notes # <<>>, NEW b \in BOOLEAN,
           call' = [call EXCEPT !.notes = Tail(call.notes), !.broken = b],
           b => call.by # "verify", b \/ hushed', UNCHANGED <<outcome, db, moved>>
    PROVE  PaymentInv'
<1>1. PICK c : c = call'
  OBVIOUS
<1>2. Tail(call.notes) \in Seq(Notes)
  BY PaymentSeen, SaidLater DEF IsCall
<1>3. call = [pc |-> call.pc, by |-> call.by, rows |-> call.rows, broken |-> call.broken,
              notes |-> call.notes] /\ call.by \in Payment!Callers
  BY PaymentSeen DEF IsCall
<1>4. c = [pc |-> "notes", by |-> call.by, rows |-> call.rows, broken |-> b,
           notes |-> Tail(call.notes)]
  BY <1>1, <1>3
<1>5. IsCall(c) /\ c.pc = "notes" /\ c.by = call.by /\ c.rows = call.rows /\ c.broken = b
  BY <1>2, <1>3, <1>4 DEF IsCall
<1>6. SeenBy(db, c) = SeenBy(db, call)
  BY <1>5 DEF SeenBy
<1>7. PICK h : h = hushed'
  OBVIOUS
<1>8. Resolving(outcome, db, c, moved, h)
  BY <1>5, <1>6, <1>7 DEF PaymentInv, Resolving
<1>9. Resolving(outcome, db, call, moved, hushed)'
  BY <1>1, <1>7, <1>8
<1> QED
  BY <1>9 DEF PaymentInv

LEMMA PaymentAnnounceFails == ASSUME PaymentInv, Payment!AnnounceFails PROVE PaymentInv'
<1>1. PICK b \in BOOLEAN : b = Payment!InTransaction(call.by)
  BY Zenon DEF Payment!InTransaction
<1>2. b <=> call.by # "verify"
  BY <1>1 DEF Payment!InTransaction
<1> QED
  BY <1>1, <1>2, PaymentLoses DEF Payment!AnnounceFails

(* The call ends without a word: its rows are gone, if they were its own.  *)
LEMMA PaymentStops ==
    ASSUME PaymentInv, call' = Payment!Idle, UNCHANGED <<outcome, db, moved>>,
           call.by = "verify" => hushed'
    PROVE  PaymentInv'
<1>1. IsRows(db) /\ (moved => db.payment # "pending") /\ moved \in BOOLEAN
  BY DEF PaymentInv, Resolving
<1>2. call.by # "verify" => db.payment = "pending"
  BY DEF PaymentInv, Resolving
<1> QED
  BY <1>1, <1>2, PaymentEnds

LEMMA PaymentStumble == ASSUME PaymentInv, Payment!Stumble PROVE PaymentInv'
<1>1. /\ call.pc = "notes" /\ call.notes # <<>> /\ call.broken /\ call.by # "verify"
      /\ UNCHANGED <<outcome, db, moved, hushed>>
  BY DEF Payment!Stumble, PaymentInv, Resolving
<1>2. CASE call' = Payment!Idle
  BY <1>1, <1>2, PaymentStops
<1>3. CASE call' = [call EXCEPT !.notes = Tail(call.notes)]
  <2>1. call' = [call EXCEPT !.notes = Tail(call.notes), !.broken = TRUE]
    BY <1>1, <1>3, PaymentSeen DEF IsCall
  <2> QED
    BY <1>1, <2>1, PaymentLoses
<1> QED
  BY <1>2, <1>3 DEF Payment!Stumble

LEMMA PaymentFinish == ASSUME PaymentInv, Payment!Finish PROVE PaymentInv'
<1>1. /\ call.pc = "notes" /\ call.notes = <<>> /\ call' = Payment!Idle
      /\ UNCHANGED <<outcome, hushed>>
  BY DEF Payment!Finish
<1>2. CASE call.by # "verify" /\ ~ call.broken
  <2>1. db' = call.rows /\ moved' = (moved \/ call.rows.order # db.order)
    BY <1>2 DEF Payment!Finish, Payment!InTransaction
  <2>2. moved' \in BOOLEAN
    BY <2>1, Zenon
  <2>3. IsRows(call.rows) /\ call.rows.payment # "pending"
    BY <1>1, <1>2 DEF PaymentInv, Resolving, SeenBy
  <2>4. ~ hushed => Reached(outcome, call.rows, <<>>, Moves(db, call, moved))
    BY <1>1, <1>2, <2>3 DEF PaymentInv, Resolving, SeenBy
  <2>5. ~ hushed => Reached(outcome, db', <<>>, moved')
    BY <1>2, <2>1, <2>4 DEF Moves, Reached, DueIf
  <2> QED
    BY <1>1, <2>1, <2>2, <2>3, <2>5, PaymentEnds
<1>3. CASE call.by # "verify" /\ call.broken
  <2>1. UNCHANGED <<db, moved>>
    BY <1>3 DEF Payment!Finish
  <2> QED
    BY <1>1, <1>3, <2>1, PaymentStops
<1>4. CASE call.by = "verify"
  <2>1. UNCHANGED <<db, moved>>
    BY <1>4 DEF Payment!Finish, Payment!InTransaction
  <2>2. /\ IsRows(db) /\ (moved => db.payment # "pending") /\ moved \in BOOLEAN
        /\ db.payment # "pending" /\ ~ call.broken
    BY <1>1, <1>4 DEF PaymentInv, Resolving, SeenBy
  <2>3. ~ hushed => Reached(outcome, db, <<>>, moved)
    BY <1>1, <1>4, <2>2 DEF PaymentInv, Resolving, SeenBy, Moves, Reached, DueIf
  <2> QED
    BY <1>1, <2>1, <2>2, <2>3, PaymentEnds
<1> QED
  BY <1>2, <1>3, <1>4

LEMMA PaymentCrash == ASSUME PaymentInv, Payment!Crash PROVE PaymentInv'
BY PaymentStops DEF Payment!Crash, Payment!InTransaction

LEMMA PaymentNextInv == PaymentInv /\ [Payment!Next]_(Payment!vars) => PaymentInv'
<1>1. ASSUME PaymentInv, UNCHANGED Payment!vars PROVE PaymentInv'
  <2>1. UNCHANGED <<outcome, db, call, moved, hushed>>
    BY <1>1 DEF Payment!vars
  <2> QED
    BY <1>1, <2>1 DEF PaymentInv
<1> QED
  BY <1>1, PaymentBegin, PaymentSettle, PaymentMove, PaymentAnnounce, PaymentAnnounceFails,
     PaymentStumble, PaymentFinish, PaymentCrash DEF Payment!Next

(* AnnouncedIffSettled: whoever should know of a settled payment is told,  *)
(* through failed inserts, rollbacks and crashes, and nobody is told of a  *)
(* settlement that was rolled back.                                        *)
THEOREM PeopleAreTold == Payment!Spec => []AnnouncedIffSettled
<1>1. PaymentInv => AnnouncedIffSettled
  <2> SUFFICES ASSUME PaymentInv PROVE Payment!AnnouncedIffSettled
    BY DEF AnnouncedIffSettled
  <2>1. IsRows(db)
    BY DEF PaymentInv, Resolving
  <2>2. ASSUME call.pc = "idle", db.payment # "pending", ~ hushed
        PROVE  \A p \in Payment!Due : db.told[p] > 0
    <3>1. Reached(outcome, db, <<>>, moved)
      BY <2>2 DEF PaymentInv, Resolving, SeenBy, Moves, Reached, DueIf
    <3>2. Payment!Due = DueIf(outcome, moved)
      BY DEF Payment!Due, DueIf, Folk
    <3> QED
      BY <3>1, <3>2 DEF Reached, Said
  <2> QED
    BY <2>1, <2>2 DEF Payment!AnnouncedIffSettled, Payment!SettledIsAnnounced, IsRows, Folk
<1> QED
  BY <1>1, PaymentInitInv, PaymentNextInv, PTL DEF Payment!Spec

-----------------------------------------------------------------------------
(***************************************************************************)
(* OrderViews: OrdersProof proves what is to be shown of an order of its   *)
(* own; its lemmas are about the instance below, which is View.            *)
(***************************************************************************)
Views == INSTANCE OrdersProof WITH
             Items <- SaleLines, Users <- Viewers, order <- sale, item <- saleLine,
             credited <- saleCredited, NoItem <- {l \in SaleLines : l \notin l}

LEMMA SameTables ==
    /\ View!ORDER_TRANSITIONS = Views!ORDER_TRANSITIONS
    /\ View!ITEM_TRANSITIONS = Views!ITEM_TRANSITIONS
    /\ View!NeedsPaidOrder = Views!NeedsPaidOrder
    /\ \A f, u : View!Permitted(f, u) <=> Views!Permitted(f, u)
<1>1. View!ORDER_TRANSITIONS = Views!ORDER_TRANSITIONS
  BY DEF View!ORDER_TRANSITIONS, Views!ORDER_TRANSITIONS
<1>2. View!ITEM_TRANSITIONS = Views!ITEM_TRANSITIONS
  BY DEF View!ITEM_TRANSITIONS, Views!ITEM_TRANSITIONS
<1>3. View!NeedsPaidOrder = Views!NeedsPaidOrder
  BY DEF View!NeedsPaidOrder, Views!NeedsPaidOrder
<1>4. \A f, u : View!Permitted(f, u) <=> Views!Permitted(f, u)
  BY DEF View!Permitted, Views!Permitted
<1> QED
  BY <1>1, <1>2, <1>3, <1>4

LEMMA SameTargets ==
    /\ \A s, a, u : View!OrderTargets(s, a, u) = Views!OrderTargets(s, a, u)
    /\ \A s, a, u, o : View!ItemTargets(s, a, u, o) = Views!ItemTargets(s, a, u, o)
<1>1. \A s, a, u : View!OrderTargets(s, a, u) = Views!OrderTargets(s, a, u)
  BY SameTables DEF View!OrderTargets, Views!OrderTargets, View!Targets, Views!Targets
<1>2. \A s, a, u, o : View!ItemTargets(s, a, u, o) = Views!ItemTargets(s, a, u, o)
  BY SameTables DEF View!ItemTargets, Views!ItemTargets, View!Targets, Views!Targets
<1> QED
  BY <1>1, <1>2

LEMMA SameTransitions ==
    /\ \A a, u : View!TransitionOrder(a, u) <=> Views!TransitionOrder(a, u)
    /\ \A i, a, u : View!TransitionItem(i, a, u) <=> Views!TransitionItem(i, a, u)
<1>1. \A a, u : View!TransitionOrder(a, u) <=> Views!TransitionOrder(a, u)
  BY SameTargets DEF View!TransitionOrder, Views!TransitionOrder, View!Cascade, Views!Cascade,
                     View!CancelActions, Views!CancelActions
<1>2. \A i, a, u : View!TransitionItem(i, a, u) <=> Views!TransitionItem(i, a, u)
  BY SameTargets DEF View!TransitionItem, Views!TransitionItem, View!SyncOrderStatus,
                     Views!SyncOrderStatus
<1> QED
  BY <1>1, <1>2

LEMMA SameActors ==
    \A u, i : /\ View!ActorForOrder(u) = Views!ActorForOrder(u)
              /\ View!ActorForItem(u, i) = Views!ActorForItem(u, i)
              /\ View!IsParty(u) <=> Views!IsParty(u)
              /\ View!Reaches(u, i) <=> Views!Reaches(u, i)
BY DEF View!ActorForOrder, Views!ActorForOrder, View!ActorForItem, Views!ActorForItem,
       View!IsParty, Views!IsParty, View!Reaches, Views!Reaches

LEMMA SamePage == \A u : View!Page(u) = Views!Page(u)
<1> TAKE u
<1>1. View!OrderOffers(u) = Views!OrderOffers(u)
  BY SameTables, SameActors DEF View!OrderOffers, Views!OrderOffers
<1>2. \A i : View!ItemActions(u, i) = Views!ItemActions(u, i)
  BY SameTables, SameActors, Zenon DEF View!ItemActions, Views!ItemActions
<1>3. View!VisibleItems(u) = Views!VisibleItems(u)
  BY DEF View!VisibleItems, Views!VisibleItems
<1> QED
  BY <1>1, <1>2, <1>3, Zenon DEF View!Page, Views!Page

LEMMA SamePageLater == \A u : View!Page(u)' = Views!Page(u)'
<1> TAKE u
<1>1. \A i : /\ View!ActorForOrder(u)' = Views!ActorForOrder(u)'
             /\ View!ActorForItem(u, i)' = Views!ActorForItem(u, i)'
  BY DEF View!ActorForOrder, Views!ActorForOrder, View!ActorForItem, Views!ActorForItem
<1>2. View!OrderOffers(u)' = Views!OrderOffers(u)'
  BY SameTables, <1>1 DEF View!OrderOffers, Views!OrderOffers
<1>3. \A i : View!ItemActions(u, i)' = Views!ItemActions(u, i)'
  <2> TAKE i
  <2>1. PICK by : by = View!ActorForItem(u, i)' /\ by = Views!ActorForItem(u, i)'
    BY <1>1
  <2> QED
    BY SameTables, <2>1 DEF View!ItemActions, Views!ItemActions
<1>4. View!VisibleItems(u)' = Views!VisibleItems(u)'
  BY DEF View!VisibleItems, Views!VisibleItems
<1> QED
  BY <1>2, <1>3, <1>4, Zenon DEF View!Page, Views!Page

LEMMA SameViewSpec ==
    /\ View!ViewInit => Views!ViewInit
    /\ [View!ViewNext]_(View!viewVars) => [Views!ViewNext]_(Views!viewVars)
<1>1. View!ViewInit => Views!ViewInit
  BY DEF View!ViewInit, Views!ViewInit, View!Init, Views!Init, View!Parties, Views!Parties,
         View!NoPage, Views!NoPage
<1>2. \A u : /\ View!Moved(u) <=> Views!Moved(u)
             /\ View!Show(u) <=> Views!Show(u)
  BY SamePage, SamePageLater, SameActors
     DEF View!Moved, Views!Moved, View!Show, Views!Show, View!vars, Views!vars
<1>3. \A u, offered : View!Refused(u, offered) <=> Views!Refused(u, offered)
  BY DEF View!Refused, Views!Refused, View!vars, Views!vars
<1>4. \A u, a : View!PostOrder(u, a) <=> Views!PostOrder(u, a)
  <2> TAKE u, a
  <2>1. PICK by : by = View!ActorForOrder(u) /\ by = Views!ActorForOrder(u)
    BY SameActors
  <2>2. View!OrderTargets(sale, a, by) = Views!OrderTargets(sale, a, by)
    BY SameTargets
  <2>3. View!TransitionOrder(a, by) <=> Views!TransitionOrder(a, by)
    BY SameTransitions
  <2>4. View!IsParty(u) <=> Views!IsParty(u)
    BY SameActors
  <2> QED
    BY <1>2, <1>3, <2>1, <2>2, <2>3, <2>4, Zenon DEF View!PostOrder, Views!PostOrder
<1>5. \A u, i, a : View!PostItem(u, i, a) <=> Views!PostItem(u, i, a)
  BY <1>2, <1>3, SameActors, SameTargets, SameTransitions, Zenon
     DEF View!PostItem, Views!PostItem
<1>6. \A a : View!Payment(a) <=> Views!Payment(a)
  BY SameTransitions DEF View!Payment, Views!Payment
<1>7. View!viewVars = Views!viewVars
  BY DEF View!viewVars, Views!viewVars, View!vars, Views!vars
<1>8. View!ViewNext => Views!ViewNext
  BY <1>2, <1>4, <1>5, <1>6, Zenon
     DEF View!ViewNext, Views!ViewNext, View!OrderEndpoints, Views!OrderEndpoints,
         View!ItemEndpoints, Views!ItemEndpoints
<1>9. UNCHANGED View!viewVars => UNCHANGED Views!viewVars
  BY DEF View!viewVars, Views!viewVars, View!vars, Views!vars
<1> QED
  BY <1>1, <1>8, <1>9

LEMMA ViewsInv ==
    /\ View!ViewInit => Views!ViewInv
    /\ Views!ViewInv /\ [View!ViewNext]_(View!viewVars) => Views!ViewInv'
    /\ Views!ViewInv => OfferedIsAccepted /\ EachMovesHisOwn
<1>1. View!ViewInit => Views!ViewInv
  BY SameViewSpec, ViewAssumption, Views!ViewInitInv
<1>2. Views!ViewInv /\ [View!ViewNext]_(View!viewVars) => Views!ViewInv'
  BY SameViewSpec, ViewAssumption, Views!ViewNextInv
<1>3. Views!ViewInv => OfferedIsAccepted /\ EachMovesHisOwn
  BY DEF Views!ViewInv, Views!Hands, Views!EachMovesHisOwn, OfferedIsAccepted,
         View!OfferedIsAccepted, EachMovesHisOwn, View!EachMovesHisOwn
<1> QED
  BY <1>1, <1>2, <1>3

(* OfferedIsAccepted: an action that a page offers is refused only after   *)
(* the order or an item has moved.                                         *)
THEOREM OffersAreKept == View!ViewSpec => []OfferedIsAccepted
BY ViewsInv, PTL DEF View!ViewSpec

(* EachMovesHisOwn: each seller moves his own items only, and the buyer    *)
(* alone completes them.                                                   *)
THEOREM OthersItemsStay == View!ViewSpec => []EachMovesHisOwn
BY ViewsInv, PTL DEF View!ViewSpec

-----------------------------------------------------------------------------
(***************************************************************************)
(* PaymentLocks: a transaction holds rows of its call only, those of a     *)
(* sale in the order of the sale.  Whoever waits for an order, an attempt  *)
(* or an item, waits for another call on the same order; when that is none *)
(* of the pairs that lock in opposite orders, all in a cycle are sales     *)
(* that wait for products and wallets, each of which crosses the next.     *)
(*                                                                         *)
(* First, what SaleRows is made of: the rows of FlattenSeq, a recursive    *)
(* function, by induction from the well-foundedness of < on Nat.           *)
(***************************************************************************)
Elements(s) == {s[i] : i \in DOMAIN s}

Below == {p \in Nat \X Nat : p[1] < p[2]}

LEMMA BelowWellFounded == IsWellFoundedOn(Below, Nat)
BY NatLessThanWellFounded, Zenon DEF OpToRel, Below

LEMMA Least == ASSUME NEW T, T \subseteq Nat, T # {}
               PROVE  \E x \in T : \A y \in T : x <= y
<1>2. PICK x \in T : \A y \in T : ~ (<<y, x>> \in Below)
  BY BelowWellFounded, WFMin, Zenon
<1>3. ASSUME NEW y \in T PROVE x <= y
  <2>1. \A p \in Nat \X Nat : p[1] < p[2] => p \in Below
    BY DEF Below
  <2>2. <<y, x>> \in Nat \X Nat
    OBVIOUS
  <2>3. ~ (y < x)
    BY <1>2, <2>1, <2>2
  <2> QED
    BY <2>3
<1> QED
  BY <1>2, <1>3

LEMMA Induction ==
    ASSUME NEW S, 0 \in S, \A n \in Nat : n \in S => n + 1 \in S
    PROVE  Nat \subseteq S
<1> SUFFICES ASSUME Nat \ S # {} PROVE FALSE
  OBVIOUS
<1>1. PICK x \in Nat \ S : \A y \in Nat \ S : x <= y
  BY Least
<1>2. x # 0 /\ x - 1 \in Nat
  OBVIOUS
<1>3. x - 1 \in S
  BY <1>1, <1>2
<1> QED
  BY <1>2, <1>3

LEMMA Joined ==
    ASSUME NEW R, NEW s \in Seq(R), NEW t \in Seq(R)
    PROVE  s \o t \in Seq(R) /\ Elements(s \o t) = Elements(s) \cup Elements(t)
<1>1. PICK u : u = s \o t
  OBVIOUS
<1>2. /\ u \in Seq(R) /\ Len(u) = Len(s) + Len(t) /\ Len(s) \in Nat /\ Len(t) \in Nat
      /\ \A k \in 1..Len(s) : u[k] = s[k]
      /\ \A k \in 1..Len(t) : u[Len(s) + k] = t[k]
  BY <1>1
<1>3. DOMAIN u = 1..Len(u) /\ DOMAIN s = 1..Len(s) /\ DOMAIN t = 1..Len(t)
  BY <1>2
<1>4. ASSUME NEW x \in Elements(u) PROVE x \in Elements(s) \cup Elements(t)
  <2>1. PICK k \in 1..Len(u) : x = u[k]
    BY <1>3 DEF Elements
  <2>2. CASE k <= Len(s)
    BY <1>2, <1>3, <2>1, <2>2 DEF Elements
  <2>3. CASE k > Len(s)
    <3>1. k - Len(s) \in 1..Len(t) /\ Len(s) + (k - Len(s)) = k
      BY <1>2, <2>1, <2>3
    <3>2. x = t[k - Len(s)]
      BY <1>2, <2>1, <3>1
    <3> QED
      BY <1>3, <3>1, <3>2 DEF Elements
  <2> QED
    BY <1>2, <2>1, <2>2, <2>3
<1>5. Elements(s) \subseteq Elements(u)
  <2>1. \A k \in 1..Len(s) : k \in 1..Len(u) /\ s[k] = u[k]
    BY <1>2
  <2> QED
    BY <1>3, <2>1 DEF Elements
<1>6. Elements(t) \subseteq Elements(u)
  <2>1. \A k \in 1..Len(t) : Len(s) + k \in 1..Len(u) /\ t[k] = u[Len(s) + k]
    BY <1>2
  <2> QED
    BY <1>3, <2>1 DEF Elements
<1> QED
  BY <1>1, <1>2, <1>4, <1>5, <1>6

(* The first i of the sequences, joined. *)
IsJoin(f, seqs, n) == /\ f[1] = seqs[1]
                      /\ \A i \in 2..n : f[i] = f[i - 1] \o seqs[i]

LEMMA JoinExists ==
    ASSUME NEW n \in Nat \ {0}, NEW seqs
    PROVE  \E f : f = [i \in 1..n |-> f[i]] /\ IsJoin(f, seqs, n)
<1> DEFINE S == {m \in Nat : \E f : f = [i \in 1..m + 1 |-> f[i]] /\ IsJoin(f, seqs, m + 1)}
<1>1. 0 \in S
  <2> DEFINE g == [i \in 1..0 + 1 |-> seqs[1]]
  <2>1. g = [i \in 1..0 + 1 |-> g[i]] /\ IsJoin(g, seqs, 0 + 1)
    BY DEF IsJoin
  <2> QED
    BY <2>1
<1>2. ASSUME NEW m \in Nat, m \in S PROVE m + 1 \in S
  <2>1. PICK f : f = [i \in 1..m + 1 |-> f[i]] /\ IsJoin(f, seqs, m + 1)
    BY <1>2
  <2>2. PICK k \in Nat : k = m + 1 /\ k + 1 = (m + 1) + 1 /\ k # 0
    OBVIOUS
  <2>11. PICK v : v = f[k] \o seqs[k + 1]
    OBVIOUS
  <2>3. PICK g : g = [i \in 1..k + 1 |-> IF i = k + 1 THEN v ELSE f[i]]
    OBVIOUS
  <2>4. \A i \in 1..k + 1 : i # k + 1 => g[i] = f[i]
    BY <2>3
  <2>5. g[k + 1] = f[k] \o seqs[k + 1]
    <3>1. k + 1 \in 1..k + 1
      BY <2>2
    <3> QED
      BY <2>3, <2>11, <3>1
  <2>6. g = [i \in 1..k + 1 |-> g[i]]
    BY <2>3
  <2>7. ASSUME NEW i \in 2..k + 1 PROVE g[i] = g[i - 1] \o seqs[i]
    <3>1. CASE i = k + 1
      <4>1. i - 1 = k /\ k \in 1..k + 1 /\ k # k + 1
        BY <2>2, <3>1
      <4>2. g[i - 1] = f[k]
        BY <2>4, <4>1
      <4> QED
        BY <2>5, <3>1, <4>2
    <3>2. CASE i # k + 1
      <4>1. /\ i \in 2..k /\ i - 1 \in 1..k + 1 /\ i \in 1..k + 1
            /\ i - 1 # k + 1
        BY <3>2
      <4>2. f[i] = f[i - 1] \o seqs[i]
        BY <2>1, <2>2, <4>1 DEF IsJoin
      <4> QED
        BY <2>4, <3>2, <4>1, <4>2
    <3> QED
      BY <3>1, <3>2
  <2>8. g[1] = seqs[1]
    <3>1. 1 \in 1..k + 1 /\ 1 # k + 1
      BY <2>2
    <3>2. g[1] = f[1]
      BY <2>4, <3>1
    <3> QED
      BY <2>1, <3>2 DEF IsJoin
  <2>9. IsJoin(g, seqs, k + 1)
    BY <2>7, <2>8 DEF IsJoin
  <2>10. k \in Nat /\ k = m + 1 /\ g = [i \in 1..k + 1 |-> g[i]] /\ IsJoin(g, seqs, k + 1)
    BY <2>2, <2>6, <2>9
  <2> QED
    BY <2>10
<1>3. n - 1 \in S /\ (n - 1) + 1 = n
  <2> HIDE DEF S
  <2> QED
    BY <1>1, <1>2, Induction
<1> QED
  BY <1>3

LEMMA FlattenIsJoin ==
    ASSUME NEW R, NEW seqs \in Seq(Seq(R)), Len(seqs) # 0
    PROVE  \E f : IsJoin(f, seqs, Len(seqs)) /\ Locks!FlattenSeq(seqs) = f[Len(seqs)]
<1>1. PICK n \in Nat \ {0} : n = Len(seqs)
  OBVIOUS
<1> DEFINE Join(f) == f = [i \in 1..n |-> IF i = 1 THEN seqs[i] ELSE f[i - 1] \o seqs[i]]
<1>2. PICK f : f = [i \in 1..n |-> f[i]] /\ IsJoin(f, seqs, n)
  BY JoinExists
<1>3. Join(f)
  <2>1. \A i \in 1..n : f[i] = IF i = 1 THEN seqs[i] ELSE f[i - 1] \o seqs[i]
    <3> TAKE i \in 1..n
    <3>1. CASE i = 1
      BY <1>2, <3>1 DEF IsJoin
    <3>2. CASE i # 1
      <4>1. i \in 2..n
        BY <3>2
      <4> QED
        BY <1>2, <3>2, <4>1 DEF IsJoin
    <3> QED
      BY <3>1, <3>2
  <2> QED
    BY <1>2, <2>1, Zenon
<1>4. Locks!FlattenSeq(seqs) = (CHOOSE s : Join(s))[n]
  BY <1>1, Zenon DEF Locks!FlattenSeq
<1>5. Join(CHOOSE s : Join(s))
  <2> HIDE DEF Join
  <2> QED
    BY <1>3, Zenon
<1>6. PICK s : Join(s) /\ Locks!FlattenSeq(seqs) = s[n]
  <2> HIDE DEF Join
  <2> QED
    BY <1>4, <1>5, Zenon
<1>7. \A i \in 1..n : s[i] = IF i = 1 THEN seqs[i] ELSE s[i - 1] \o seqs[i]
  BY <1>6, Zenon
<1>8. IsJoin(s, seqs, n)
  <2>1. 1 \in 1..n /\ \A i \in 2..n : i \in 1..n /\ i # 1
    OBVIOUS
  <2> QED
    BY <1>7, <2>1 DEF IsJoin
<1> QED
  BY <1>1, <1>6, <1>8

LEMMA FlattenElements ==
    ASSUME NEW R, NEW seqs \in Seq(Seq(R))
    PROVE  /\ Locks!FlattenSeq(seqs) \in Seq(R)
           /\ Elements(Locks!FlattenSeq(seqs)) = UNION {Elements(seqs[i]) : i \in DOMAIN seqs}
<1>1. CASE Len(seqs) = 0
  <2>1. Locks!FlattenSeq(seqs) = <<>> /\ seqs = <<>>
    BY <1>1 DEF Locks!FlattenSeq
  <2> QED
    BY <2>1 DEF Elements
<1>2. CASE Len(seqs) # 0
  <2>1. PICK f : IsJoin(f, seqs, Len(seqs)) /\ Locks!FlattenSeq(seqs) = f[Len(seqs)]
    BY <1>2, FlattenIsJoin
  <2>2. PICK n \in Nat \ {0} : n = Len(seqs) /\ DOMAIN seqs = 1..n
    BY <1>2
  <2>3. \A i \in 1..n : seqs[i] \in Seq(R)
    BY <2>2
  <2> DEFINE Good(m) == /\ f[m] \in Seq(R)
                        /\ Elements(f[m]) = UNION {Elements(seqs[i]) : i \in 1..m}
             S == {m \in Nat : m + 1 <= n => Good(m + 1)}
  <2>4. 0 \in S
    <3>1. f[1] = seqs[1] /\ seqs[1] \in Seq(R)
      BY <2>1, <2>3 DEF IsJoin
    <3>2. {Elements(seqs[i]) : i \in 1..1} = {Elements(seqs[1])}
      OBVIOUS
    <3>3. UNION {Elements(seqs[i]) : i \in 1..1} = Elements(seqs[1])
      BY <3>2
    <3> QED
      BY <3>1, <3>3
  <2>5. ASSUME NEW m \in Nat, m \in S PROVE m + 1 \in S
    <3> SUFFICES ASSUME (m + 1) + 1 <= n PROVE Good((m + 1) + 1)
      OBVIOUS
    <3>1. PICK j \in Nat, k \in Nat : j = m + 1 /\ k = (m + 1) + 1
      OBVIOUS
    <3>2. f[j] \in Seq(R) /\ Elements(f[j]) = UNION {Elements(seqs[i]) : i \in 1..j}
      BY <2>5, <3>1
    <3>3. k \in 2..n /\ k \in 1..n /\ k - 1 = j /\ j \in Nat
      BY <3>1
    <3>4. f[k] = f[j] \o seqs[k]
      BY <2>1, <2>2, <3>3 DEF IsJoin
    <3>5. PICK u \in Seq(R), v \in Seq(R) : u = f[j] /\ v = seqs[k]
      BY <2>3, <3>2, <3>3
    <3>6. u \o v \in Seq(R) /\ Elements(u \o v) = Elements(u) \cup Elements(v)
      BY Joined
    <3>7. 1..k = 1..j \cup {k}
      BY <3>3
    <3>8. UNION {Elements(seqs[i]) : i \in 1..k}
              = (UNION {Elements(seqs[i]) : i \in 1..j}) \cup Elements(seqs[k])
      BY <3>7
    <3>9. f[k] \in Seq(R)
      BY <3>4, <3>5, <3>6
    <3>10. Elements(f[k]) = Elements(f[j]) \cup Elements(seqs[k])
      BY <3>4, <3>5, <3>6
    <3>12. Elements(f[k]) = UNION {Elements(seqs[i]) : i \in 1..k}
      BY <3>2, <3>8, <3>10
    <3>11. Good(k)
      BY <3>9, <3>12
    <3> QED
      BY <3>1, <3>11
  <2>6. n - 1 \in S /\ (n - 1) + 1 = n
    <3> HIDE DEF S
    <3> QED
      BY <2>4, <2>5, Induction
  <2>7. Good(n)
    BY <2>6
  <2> QED
    BY <2>1, <2>2, <2>7
<1> QED
  BY <1>1, <1>2

(* The kinds of rows, and the rows of a call. *)
LEMMA LineIndex ==
    ASSUME NEW o \in Locks!Orders
    PROVE  Len(Lines[o]) \in Nat /\ DOMAIN Lines[o] = 1..Len(Lines[o])
BY LockAssumption DEF Locks!Orders

Sold(o) == {<<"product", Lines[o][n].product>> : n \in DOMAIN Lines[o]}
               \cup {Locks!Wallet(o, n) : n \in DOMAIN Lines[o]}
SoldItems(o) == {Locks!Item(o, n) : n \in DOMAIN Lines[o]}

LEMMA SaleRowsAre ==
    ASSUME NEW o \in Locks!Orders
    PROVE  /\ Locks!SaleRows(o) \in Seq(Sold(o) \cup SoldItems(o))
           /\ Elements(Locks!SaleRows(o)) = Sold(o) \cup SoldItems(o)
<1>1. PICK N \in Nat : N = Len(Lines[o]) /\ DOMAIN Lines[o] = 1..N
  BY LineIndex
<1>2. PICK R : R = Sold(o) \cup SoldItems(o)
  OBVIOUS
<1>3. PICK pairs : pairs = [n \in DOMAIN Lines[o] |->
                               <<<<"product", Lines[o][n].product>>, Locks!Wallet(o, n)>>]
  OBVIOUS
<1>4. PICK items : items = [n \in DOMAIN Lines[o] |-> Locks!Item(o, n)]
  OBVIOUS
<1>5. Locks!SaleRows(o) = Locks!FlattenSeq(pairs) \o items
  BY <1>3, <1>4 DEF Locks!SaleRows
<1>6. ASSUME NEW n \in 1..N
      PROVE  /\ pairs[n] \in Seq(R)
             /\ Elements(pairs[n]) = {<<"product", Lines[o][n].product>>, Locks!Wallet(o, n)}
  <2>1. PICK a, b : a = <<"product", Lines[o][n].product>> /\ b = Locks!Wallet(o, n)
    OBVIOUS
  <2>2. a \in R /\ b \in R
    BY <1>1, <1>2, <2>1 DEF Sold
  <2>3. pairs[n] = <<a, b>>
    BY <1>1, <1>3, <2>1
  <2>4. <<a, b>> \in Seq(R) /\ DOMAIN <<a, b>> = 1..2
    BY <2>2
  <2>5. Elements(<<a, b>>) = {a, b}
    BY <2>4 DEF Elements
  <2> QED
    BY <2>1, <2>3, <2>4, <2>5
<1>7. pairs \in Seq(Seq(R)) /\ DOMAIN pairs = 1..N
  <2>1. DOMAIN pairs = 1..N /\ pairs = [n \in 1..N |-> pairs[n]]
    BY <1>1, <1>3
  <2>2. \A n \in 1..N : pairs[n] \in Seq(R)
    BY <1>6
  <2> QED
    BY <2>1, <2>2
<1>8. /\ Locks!FlattenSeq(pairs) \in Seq(R)
      /\ Elements(Locks!FlattenSeq(pairs)) = Sold(o)
  <2>1. /\ Locks!FlattenSeq(pairs) \in Seq(R)
        /\ Elements(Locks!FlattenSeq(pairs)) = UNION {Elements(pairs[n]) : n \in DOMAIN pairs}
    BY <1>7, FlattenElements
  <2>2. UNION {Elements(pairs[n]) : n \in DOMAIN pairs} = Sold(o)
    <3>1. \A n \in 1..N :
              Elements(pairs[n]) = {<<"product", Lines[o][n].product>>, Locks!Wallet(o, n)}
      BY <1>6
    <3>2. Sold(o) = {<<"product", Lines[o][n].product>> : n \in 1..N}
                        \cup {Locks!Wallet(o, n) : n \in 1..N}
      BY <1>1 DEF Sold
    <3>3. UNION {Elements(pairs[n]) : n \in 1..N} = Sold(o)
      BY <3>1, <3>2
    <3> QED
      BY <1>7, <3>3
  <2> QED
    BY <2>1, <2>2
<1>9. items \in Seq(R) /\ Elements(items) = SoldItems(o)
  <2>1. items \in Seq(R) /\ DOMAIN items = 1..N
    BY <1>1, <1>2, <1>4 DEF SoldItems
  <2> QED
    BY <1>1, <1>4, <2>1 DEF SoldItems, Elements
<1>10. /\ Locks!FlattenSeq(pairs) \o items \in Seq(R)
       /\ Elements(Locks!FlattenSeq(pairs) \o items) = Sold(o) \cup SoldItems(o)
  BY <1>8, <1>9, Joined
<1> QED
  BY <1>2, <1>5, <1>10

LEMMA ToSetIs == ASSUME NEW s PROVE Locks!ToSet(s) = Elements(s)
BY DEF Locks!ToSet, Elements

LEMMA RowsAre ==
    ASSUME NEW o \in Locks!Orders
    PROVE  /\ Locks!OrderRow(o) \in Locks!Rows /\ Locks!AttemptRow(o) \in Locks!Rows
           /\ \A n \in DOMAIN Lines[o] : /\ Locks!Item(o, n) \in Locks!Rows
                                         /\ Locks!Wallet(o, n) \in Locks!Rows
           /\ Elements(Locks!SaleRows(o)) \subseteq Locks!Rows
<1>1. PICK mine : mine = {Locks!OrderRow(o), Locks!AttemptRow(o)}
                             \cup Locks!ToSet(Locks!SaleRows(o))
  OBVIOUS
<1>2. mine \subseteq Locks!Rows
  BY <1>1 DEF Locks!Rows
<1>3. Locks!ToSet(Locks!SaleRows(o)) = Sold(o) \cup SoldItems(o)
  BY SaleRowsAre, ToSetIs
<1>4. \A n \in DOMAIN Lines[o] : Locks!Item(o, n) \in mine /\ Locks!Wallet(o, n) \in mine
  BY <1>1, <1>3 DEF Sold, SoldItems
<1> QED
  BY <1>1, <1>2, <1>4, ToSetIs

LEMMA RowsDiffer ==
    /\ \A o, p : /\ (Locks!OrderRow(o) = Locks!OrderRow(p) => o = p)
                 /\ (Locks!AttemptRow(o) = Locks!AttemptRow(p) => o = p)
                 /\ Locks!OrderRow(o) # Locks!AttemptRow(p)
    /\ \A o, p, n, m : Locks!Item(o, n) = Locks!Item(p, m) => o = p /\ n = m
    /\ \A o, p, n : /\ Locks!Item(o, n) # Locks!OrderRow(p)
                    /\ Locks!Item(o, n) # Locks!AttemptRow(p)
                    /\ Locks!Wallet(o, n) # Locks!OrderRow(p)
                    /\ Locks!Wallet(o, n) # Locks!AttemptRow(p)
    /\ \A o, p, n, m : Locks!Item(o, n) # Locks!Wallet(p, m)
BY DEF Locks!OrderRow, Locks!AttemptRow, Locks!Item, Locks!Wallet

LEMMA SoldDiffer ==
    ASSUME NEW o, NEW r \in Sold(o)
    PROVE  /\ r[1] \in {"product", "wallet"}
           /\ \A p : r # Locks!OrderRow(p) /\ r # Locks!AttemptRow(p)
           /\ \A p, n : r # Locks!Item(p, n)
BY DEF Sold, Locks!OrderRow, Locks!AttemptRow, Locks!Item, Locks!Wallet

(***************************************************************************)
(* What a transaction that holds some rows may be.                         *)
(***************************************************************************)
Ours(x) == {Locks!OrderRow(x.order)}
               \cup IF x.kind = "answer" THEN {Locks!AttemptRow(x.order)}
                    ELSE IF x.kind = "item" THEN {Locks!Item(x.order, x.line)}
                    ELSE {}

IsLockTx(x) ==
    /\ x = [pc |-> x.pc, kind |-> x.kind, order |-> x.order, line |-> x.line, todo |-> x.todo]
    /\ x.pc \in {"idle", "asked", "expire", "sell", "move"}
    /\ x.pc # "idle" => /\ x.order \in Locks!Orders
                        /\ x.kind \in {"initiate", "answer", "pay", "item"}
                        /\ x.kind = "item" => x.line \in DOMAIN Lines[x.order]

(* So many rows of the sale are locked. *)
SoldSoFar(x, held, k) ==
    /\ x.todo \in Seq(Locks!Rows) /\ Len(x.todo) = Len(Locks!SaleRows(x.order)) - k
    /\ \A i \in 1..Len(Locks!SaleRows(x.order)) - k : x.todo[i] = Locks!SaleRows(x.order)[k + i]
    /\ \A i \in 1..k : Locks!SaleRows(x.order)[i] \in held
    /\ \A r \in held : r \in Ours(x) \/ \E i \in 1..k : r = Locks!SaleRows(x.order)[i]

TxFits(x, held) ==
    /\ IsLockTx(x)
    /\ x.pc = "idle" => x.todo = <<>> /\ held = {}
    /\ x.pc = "asked" =>
           \/ x.todo = Locks!FirstRows(x.kind, x.order, x.line) /\ held = {}
           \/ /\ x.kind \in {"answer", "item"} /\ x.todo = <<Locks!OrderRow(x.order)>>
              /\ held \subseteq Ours(x) \ {Locks!OrderRow(x.order)}
           \/ x.todo = <<>> /\ Locks!OrderRow(x.order) \in held /\ held \subseteq Ours(x)
    /\ x.pc = "expire" =>
           /\ x.kind = "initiate" /\ x.todo \in {<<>>, <<Locks!AttemptRow(x.order)>>}
           /\ held \subseteq {Locks!OrderRow(x.order), Locks!AttemptRow(x.order)}
    /\ x.pc = "sell" =>
           /\ x.kind \in {"answer", "pay"} /\ Locks!OrderRow(x.order) \in held
           /\ \E k \in 0..Len(Locks!SaleRows(x.order)) : SoldSoFar(x, held, k)
    /\ x.pc = "move" =>
           /\ x.kind = "item" /\ x.todo \in {<<>>, <<Locks!Wallet(x.order, x.line)>>}
           /\ held \subseteq Ours(x) \cup {Locks!Wallet(x.order, x.line)}

Held(locks, t) == {r \in Locks!Rows : locks[r] = t}

AreLocks(locks) == locks \in [Locks!Rows -> Requests \cup {Nobody}]

LockInv == /\ AreLocks(rowLock)
           /\ tx = [t \in Requests |-> tx[t]]
           /\ \A t \in Requests : TxFits(tx[t], Held(rowLock, t))

WithTx(t, x) == [tx EXCEPT ![t] = x]

LEMMA LockLater ==
    ASSUME NEW txs, NEW locks, AreLocks(locks), txs = [t \in Requests |-> txs[t]],
           \A t \in Requests : TxFits(txs[t], Held(locks, t)), txs = tx', locks = rowLock'
    PROVE  LockInv'
<1>1. AreLocks(rowLock)' /\ (tx = [t \in Requests |-> tx[t]])'
  BY DEF AreLocks, Locks!Rows, Locks!SaleRows
<1>2. ASSUME NEW t \in Requests PROVE TxFits(tx[t], Held(rowLock, t))'
  <2>1. TxFits(txs[t], Held(locks, t))
    OBVIOUS
  <2>2. IsLockTx(tx[t])'
    BY <2>1 DEF TxFits, IsLockTx
  <2>3. \A r : r \in Ours(tx[t])' <=> r \in Ours(txs[t])
    BY DEF Ours
  <2>4. \A r : r \in Held(rowLock, t)' <=> r \in Held(locks, t)
    BY DEF Held, Locks!Rows, Locks!SaleRows
  <2>5. ASSUME NEW k, SoldSoFar(txs[t], Held(locks, t), k)
        PROVE  SoldSoFar(tx[t], Held(rowLock, t), k)'
    <3>1. PICK all, every : all = Locks!SaleRows(txs[t].order) /\ every = Locks!Rows
      OBVIOUS
    <3>2. all = Locks!SaleRows(tx[t].order)'
      BY <3>1 DEF Locks!SaleRows
    <3>3. every = Locks!Rows'
      BY <3>1 DEF Locks!Rows, Locks!SaleRows
    <3>4. /\ txs[t].todo \in Seq(every) /\ Len(txs[t].todo) = Len(all) - k
          /\ \A i \in 1..Len(all) - k : txs[t].todo[i] = all[k + i]
          /\ \A i \in 1..k : all[i] \in Held(locks, t)
          /\ \A r \in Held(locks, t) : r \in Ours(txs[t]) \/ \E i \in 1..k : r = all[i]
      BY <2>5, <3>1 DEF SoldSoFar
    <3> QED
      BY <2>3, <2>4, <3>2, <3>3, <3>4 DEF SoldSoFar
  <2>6. /\ Held(rowLock, t)' = Held(locks, t) /\ Ours(tx[t])' = Ours(txs[t])
    BY <2>3, <2>4
  <2>7. ((tx[t].pc = "sell") => \E k \in 0..Len(Locks!SaleRows(tx[t].order)) :
                                  SoldSoFar(tx[t], Held(rowLock, t), k))'
    BY <2>1, <2>5 DEF TxFits, Locks!SaleRows
  <2> QED
    BY <2>1, <2>2, <2>6, <2>7 DEF TxFits
<1> QED
  BY <1>1, <1>2 DEF LockInv

LEMMA LockFrame ==
    ASSUME LockInv, NEW t \in Requests, NEW x, NEW locks, AreLocks(locks),
           TxFits(x, Held(locks, t)), \A s \in Requests : s # t => Held(locks, s) = Held(rowLock, s),
           tx' = WithTx(t, x), rowLock' = locks
    PROVE  LockInv'
<1>1. PICK txs : txs = tx'
  OBVIOUS
<1>2. tx = [s \in Requests |-> tx[s]] /\ txs = [tx EXCEPT ![t] = x]
  BY <1>1 DEF LockInv, WithTx
<1>3. /\ txs = [s \in Requests |-> txs[s]] /\ txs[t] = x
      /\ \A s \in Requests : s # t => txs[s] = tx[s]
  BY <1>2
<1>4. ASSUME NEW s \in Requests PROVE TxFits(txs[s], Held(locks, s))
  <2>1. CASE s = t
    BY <1>3, <2>1
  <2>2. CASE s # t
    <3>1. txs[s] = tx[s] /\ Held(locks, s) = Held(rowLock, s)
      BY <1>3, <2>2
    <3> QED
      BY <3>1 DEF LockInv
  <2> QED
    BY <2>1, <2>2
<1> QED
  BY <1>1, <1>3, <1>4, LockLater

LEMMA LockInit == Locks!Init => LockInv
<1> SUFFICES ASSUME Locks!Init PROVE LockInv
  OBVIOUS
<1>1. AreLocks(rowLock) /\ \A t \in Requests : Held(rowLock, t) = {}
  BY LockAssumption DEF Locks!Init, AreLocks, Held
<1>2. TxFits(Locks!NoTx, {})
  BY DEF Locks!NoTx, Locks!Call, TxFits, IsLockTx
<1>3. tx = [t \in Requests |-> Locks!NoTx]
  BY DEF Locks!Init
<1>4. \A t \in Requests : tx[t] = Locks!NoTx
  BY <1>3
<1>5. tx = [t \in Requests |-> tx[t]]
  BY <1>3, <1>4
<1> QED
  BY <1>1, <1>2, <1>4, <1>5 DEF LockInv

LEMMA LockEnds ==
    ASSUME LockInv, NEW t \in Requests, Locks!End(t)
    PROVE  LockInv'
<1>1. PICK locks : locks = [r \in Locks!Rows |-> IF rowLock[r] = t THEN Nobody ELSE rowLock[r]]
  OBVIOUS
<1>2. rowLock' = locks /\ tx' = WithTx(t, Locks!NoTx)
  BY <1>1 DEF Locks!End, WithTx
<1>3. AreLocks(rowLock) /\ Nobody \notin Requests
  BY LockAssumption DEF LockInv
<1>4. AreLocks(locks)
  BY <1>1, <1>3 DEF AreLocks
<1>5. Held(locks, t) = {}
  BY <1>1, <1>3 DEF Held
<1>6. \A s \in Requests : s # t => Held(locks, s) = Held(rowLock, s)
  BY <1>1, <1>3 DEF Held
<1>7. TxFits(Locks!NoTx, Held(locks, t))
  BY <1>5 DEF Locks!NoTx, Locks!Call, TxFits, IsLockTx
<1> QED
  BY <1>2, <1>4, <1>6, <1>7, LockFrame

LEMMA LockBegins ==
    ASSUME LockInv, NEW t \in Requests, NEW o \in Locks!Orders,
           NEW kind \in {"initiate", "answer", "pay", "item"}, NEW n,
           kind = "item" => n \in DOMAIN Lines[o], Locks!Begin(t, kind, o, n)
    PROVE  LockInv'
<1>1. PICK x : x = [pc |-> "asked", kind |-> kind, order |-> o, line |-> n,
                    todo |-> Locks!FirstRows(kind, o, n)]
  OBVIOUS
<1>2. tx' = WithTx(t, x) /\ rowLock' = rowLock /\ tx[t].pc = "idle"
  BY <1>1 DEF Locks!Begin, Locks!Call, WithTx
<1>3. AreLocks(rowLock) /\ Held(rowLock, t) = {}
  BY <1>2 DEF LockInv, TxFits
<1>4. x.pc = "asked" /\ x.kind = kind /\ x.order = o /\ x.line = n
      /\ x.todo = Locks!FirstRows(kind, o, n)
  BY <1>1
<1>5. IsLockTx(x)
  BY <1>1, <1>4 DEF IsLockTx
<1>6. TxFits(x, Held(rowLock, t))
  BY <1>3, <1>4, <1>5 DEF TxFits
<1> QED
  BY <1>2, <1>3, <1>6, LockFrame

(* The row that a transaction asks for, and what it is with that row. *)
LEMMA FirstRowsAre ==
    ASSUME NEW x, IsLockTx(x), x.pc = "asked"
    PROVE  \/ /\ x.kind \in {"initiate", "pay"}
              /\ Locks!FirstRows(x.kind, x.order, x.line) = <<Locks!OrderRow(x.order)>>
              /\ Ours(x) = {Locks!OrderRow(x.order)}
           \/ /\ x.kind \in {"answer", "item"}
              /\ \E r \in Locks!Rows :
                    /\ Ours(x) = {r, Locks!OrderRow(x.order)} /\ r # Locks!OrderRow(x.order)
                    /\ Locks!FirstRows(x.kind, x.order, x.line) = <<r, Locks!OrderRow(x.order)>>
<1>1. x.order \in Locks!Orders
  BY DEF IsLockTx
<1>2. CASE x.kind \in {"initiate", "pay"}
  BY <1>2 DEF Locks!FirstRows, Ours
<1>3. CASE x.kind = "answer"
  <2>1. Locks!AttemptRow(x.order) \in Locks!Rows
    BY <1>1, RowsAre
  <2>2. Locks!AttemptRow(x.order) # Locks!OrderRow(x.order)
    BY RowsDiffer
  <2>3. Locks!FirstRows(x.kind, x.order, x.line)
            = <<Locks!AttemptRow(x.order), Locks!OrderRow(x.order)>>
    BY <1>3 DEF Locks!FirstRows
  <2>4. Ours(x) = {Locks!AttemptRow(x.order), Locks!OrderRow(x.order)}
    BY <1>3 DEF Ours
  <2> QED
    BY <1>3, <2>1, <2>2, <2>3, <2>4
<1>4. CASE x.kind = "item"
  <2>1. Locks!Item(x.order, x.line) \in Locks!Rows
    BY <1>1, <1>4, RowsAre DEF IsLockTx
  <2>2. Locks!Item(x.order, x.line) # Locks!OrderRow(x.order)
    BY RowsDiffer
  <2>3. Locks!FirstRows(x.kind, x.order, x.line)
            = <<Locks!Item(x.order, x.line), Locks!OrderRow(x.order)>>
    BY <1>4 DEF Locks!FirstRows
  <2>4. Ours(x) = {Locks!Item(x.order, x.line), Locks!OrderRow(x.order)}
    BY <1>4 DEF Ours
  <2> QED
    BY <1>4, <2>1, <2>2, <2>3, <2>4
<1> QED
  BY <1>2, <1>3, <1>4 DEF IsLockTx

LEMMA HeadIsRow ==
    ASSUME NEW x, NEW held, TxFits(x, held), x.todo # <<>>
    PROVE  Head(x.todo) \in Locks!Rows
<1>1. IsLockTx(x) /\ x.pc # "idle" /\ x.order \in Locks!Orders
  BY DEF TxFits, IsLockTx
<1>2. CASE x.pc = "asked"
  <2>1. Locks!OrderRow(x.order) \in Locks!Rows
    BY <1>1, RowsAre
  <2>2. CASE x.todo = Locks!FirstRows(x.kind, x.order, x.line)
    BY <1>1, <1>2, <2>1, <2>2, FirstRowsAre
  <2>3. CASE x.todo = <<Locks!OrderRow(x.order)>>
    BY <2>1, <2>3
  <2> QED
    BY <1>2, <2>2, <2>3 DEF TxFits
<1>3. CASE x.pc = "expire"
  <2>1. x.todo = <<Locks!AttemptRow(x.order)>>
    BY <1>3 DEF TxFits
  <2> QED
    BY <1>1, <2>1, RowsAre
<1>4. CASE x.pc = "sell"
  <2>1. x.todo \in Seq(Locks!Rows)
    BY <1>4 DEF TxFits, SoldSoFar
  <2> QED
    BY <2>1
<1>5. CASE x.pc = "move"
  <2>1. x.todo = <<Locks!Wallet(x.order, x.line)>> /\ x.line \in DOMAIN Lines[x.order]
    BY <1>1, <1>5 DEF TxFits, IsLockTx
  <2> QED
    BY <1>1, <2>1, RowsAre
<1> QED
  BY <1>1, <1>2, <1>3, <1>4, <1>5 DEF IsLockTx

LEMMA Taken ==
    ASSUME NEW x, NEW held, TxFits(x, held), x.todo # <<>>, NEW y,
           y = [pc |-> x.pc, kind |-> x.kind, order |-> x.order, line |-> x.line,
                todo |-> Tail(x.todo)]
    PROVE  TxFits(y, held \cup {Head(x.todo)})
<1>1. IsLockTx(x) /\ x.pc # "idle" /\ x.order \in Locks!Orders
  BY DEF TxFits, IsLockTx
<1>2. /\ y.pc = x.pc /\ y.kind = x.kind /\ y.order = x.order /\ y.line = x.line
      /\ y.todo = Tail(x.todo)
  OBVIOUS
<1>3. IsLockTx(y)
  BY <1>1, <1>2 DEF IsLockTx
<1>4. PICK h, more : h = Head(x.todo) /\ more = held \cup {h}
  OBVIOUS
<1>5. Ours(y) = Ours(x) /\ Locks!OrderRow(x.order) \in Ours(x)
  BY <1>2 DEF Ours
<1>6. CASE x.pc = "asked"
  <2>1. CASE x.todo = Locks!FirstRows(x.kind, x.order, x.line) /\ held = {}
    <3>1. CASE x.kind \in {"initiate", "pay"}
      <4>1. x.todo = <<Locks!OrderRow(x.order)>> /\ Ours(x) = {Locks!OrderRow(x.order)}
        BY <1>1, <1>6, <2>1, <3>1, FirstRowsAre
      <4>2. y.todo = <<>> /\ h = Locks!OrderRow(x.order)
        BY <1>2, <1>4, <4>1
      <4> QED
        BY <1>2, <1>3, <1>4, <1>5, <1>6, <2>1, <4>1, <4>2 DEF TxFits
    <3>2. CASE x.kind \in {"answer", "item"}
      <4>1. PICK r : /\ Ours(x) = {r, Locks!OrderRow(x.order)} /\ r # Locks!OrderRow(x.order)
                     /\ x.todo = <<r, Locks!OrderRow(x.order)>>
        BY <1>1, <1>6, <2>1, <3>2, FirstRowsAre
      <4>2. y.todo = <<Locks!OrderRow(x.order)>> /\ h = r
        BY <1>2, <1>4, <4>1
      <4>3. more \subseteq Ours(y) \ {Locks!OrderRow(y.order)}
        BY <1>2, <1>4, <1>5, <2>1, <4>1, <4>2
      <4> QED
        BY <1>2, <1>3, <1>4, <1>6, <3>2, <4>2, <4>3 DEF TxFits
    <3> QED
      BY <1>1, <3>1, <3>2 DEF IsLockTx
  <2>2. CASE x.todo = <<Locks!OrderRow(x.order)>> /\ held \subseteq Ours(x)
    <3>1. y.todo = <<>> /\ h = Locks!OrderRow(x.order)
      BY <1>2, <1>4, <2>2
    <3> QED
      BY <1>2, <1>3, <1>4, <1>5, <1>6, <2>2, <3>1 DEF TxFits
  <2> QED
    BY <1>6, <2>1, <2>2 DEF TxFits
<1>7. CASE x.pc = "expire"
  <2>1. x.todo = <<Locks!AttemptRow(x.order)>>
    BY <1>7 DEF TxFits
  <2>2. y.todo = <<>> /\ h = Locks!AttemptRow(x.order)
    BY <1>2, <1>4, <2>1
  <2> QED
    BY <1>2, <1>3, <1>4, <1>7, <2>2 DEF TxFits
<1>8. CASE x.pc = "sell"
  <2>1. PICK all : all = Locks!SaleRows(x.order)
    OBVIOUS
  <2>2. PICK n \in Nat : n = Len(all)
    BY <1>1, <2>1, SaleRowsAre
  <2>3. PICK k \in 0..n : SoldSoFar(x, held, k)
    BY <1>8, <2>1, <2>2 DEF TxFits
  <2>4. /\ x.todo \in Seq(Locks!Rows) /\ Len(x.todo) = n - k
        /\ \A i \in 1..n - k : x.todo[i] = all[k + i]
        /\ \A i \in 1..k : all[i] \in held
        /\ \A r \in held : r \in Ours(x) \/ \E i \in 1..k : r = all[i]
    BY <2>1, <2>2, <2>3 DEF SoldSoFar
  <2>5. /\ k + 1 \in 0..n /\ k \in Nat
        /\ y.todo \in Seq(Locks!Rows) /\ Len(y.todo) = n - (k + 1)
        /\ \A i \in 1..n - (k + 1) : y.todo[i] = x.todo[i + 1]
    BY <1>2, <2>2, <2>4
  <2>6. \A i \in 1..n - (k + 1) : y.todo[i] = all[(k + 1) + i]
    <3> TAKE i \in 1..n - (k + 1)
    <3>1. k \in Nat /\ n \in Nat /\ i \in Nat /\ i >= 1 /\ i <= n - (k + 1)
      BY <2>5
    <3>2. i + 1 \in 1..n - k /\ k + (i + 1) = (k + 1) + i
      BY <3>1
    <3> QED
      BY <2>4, <2>5, <3>2
  <2>7. h = all[k + 1]
    <3>1. 1 \in 1..n - k /\ h = x.todo[1]
      BY <1>4, <2>4
    <3> QED
      BY <2>4, <3>1
  <2>8. \A i \in 1..k + 1 : all[i] \in more
    <3> TAKE i \in 1..k + 1
    <3>1. i \in 1..k \/ i = k + 1
      BY <2>5
    <3> QED
      BY <1>4, <2>4, <2>7, <3>1
  <2>9. \A r \in more : r \in Ours(y) \/ \E i \in 1..k + 1 : r = all[i]
    <3> TAKE r \in more
    <3>1. CASE r = h
      <4>1. k + 1 \in 1..k + 1
        BY <2>5
      <4> QED
        BY <2>7, <3>1, <4>1
    <3>2. CASE r \in held
      <4>1. \A i \in 1..k : i \in 1..k + 1
        BY <2>5
      <4> QED
        BY <1>5, <2>4, <3>2, <4>1
    <3> QED
      BY <1>4, <3>1, <3>2
  <2>10. SoldSoFar(y, more, k + 1)
    BY <1>2, <2>1, <2>2, <2>5, <2>6, <2>8, <2>9 DEF SoldSoFar
  <2>11. y.kind \in {"answer", "pay"} /\ Locks!OrderRow(y.order) \in more
    BY <1>2, <1>4, <1>8 DEF TxFits
  <2>12. \E m \in 0..Len(Locks!SaleRows(y.order)) : SoldSoFar(y, more, m)
    BY <1>2, <2>1, <2>2, <2>5, <2>10
  <2> QED
    BY <1>2, <1>3, <1>4, <1>8, <2>11, <2>12 DEF TxFits
<1>9. CASE x.pc = "move"
  <2>1. x.todo = <<Locks!Wallet(x.order, x.line)>>
    BY <1>9 DEF TxFits
  <2>2. y.todo = <<>> /\ h = Locks!Wallet(x.order, x.line)
    BY <1>2, <1>4, <2>1
  <2> QED
    BY <1>2, <1>3, <1>4, <1>5, <1>9, <2>2 DEF TxFits
<1> QED
  BY <1>1, <1>6, <1>7, <1>8, <1>9 DEF IsLockTx

LEMMA LockTakes ==
    ASSUME LockInv, NEW t \in Requests, Locks!Take(t)
    PROVE  LockInv'
<1>1. PICK x : x = tx[t]
  OBVIOUS
<1>2. PICK h : h = Head(x.todo)
  OBVIOUS
<1>3. PICK y : y = [pc |-> x.pc, kind |-> x.kind, order |-> x.order, line |-> x.line,
                    todo |-> Tail(x.todo)]
  OBVIOUS
<1>4. TxFits(x, Held(rowLock, t)) /\ IsLockTx(x)
  BY <1>1 DEF LockInv, TxFits
<1>5. PICK locks : locks = [rowLock EXCEPT ![h] = t]
  OBVIOUS
<1>6. x.todo # <<>> /\ rowLock[h] \in {Nobody, t} /\ rowLock' = locks
  BY <1>1, <1>2, <1>5 DEF Locks!Take
<1>7. tx' = WithTx(t, y)
  <2>1. PICK a, b, c, d, e, f :
           /\ x = [pc |-> a, kind |-> b, order |-> c, line |-> d, todo |-> e]
           /\ f = Tail(x.todo)
    BY <1>4 DEF IsLockTx
  <2>2. tx' = [tx EXCEPT ![t].todo = f]
    BY <1>1, <2>1 DEF Locks!Take
  <2>3. y = [pc |-> a, kind |-> b, order |-> c, line |-> d, todo |-> f]
    BY <1>3, <2>1
  <2>6. [[pc |-> a, kind |-> b, order |-> c, line |-> d, todo |-> e] EXCEPT !.todo = f]
            = [pc |-> a, kind |-> b, order |-> c, line |-> d, todo |-> f]
    OBVIOUS
  <2>4. [x EXCEPT !.todo = f] = y
    BY <2>1, <2>3, <2>6
  <2>5. tx' = [tx EXCEPT ![t] = y]
    BY <1>1, <2>2, <2>4
  <2> QED
    BY <2>5 DEF WithTx
<1>8. h \in Locks!Rows
  BY <1>2, <1>4, <1>6, HeadIsRow
<1>9. AreLocks(rowLock) /\ Nobody \notin Requests
  BY LockAssumption DEF LockInv
<1>10. AreLocks(locks) /\ locks[h] = t /\ \A r \in Locks!Rows : r # h => locks[r] = rowLock[r]
  BY <1>5, <1>8, <1>9 DEF AreLocks
<1>11. Held(locks, t) = Held(rowLock, t) \cup {h}
  BY <1>8, <1>10 DEF Held
<1>12. \A s \in Requests : s # t => Held(locks, s) = Held(rowLock, s)
  BY <1>6, <1>8, <1>9, <1>10 DEF Held
<1>13. TxFits(y, Held(locks, t))
  BY <1>2, <1>3, <1>4, <1>6, <1>11, Taken
<1> QED
  BY <1>6, <1>7, <1>10, <1>12, <1>13, LockFrame

LEMMA LockGoesOn ==
    ASSUME LockInv, NEW t \in Requests, NEW pc, NEW todo, Locks!GoOn(t, pc, todo), NEW y,
           y = [pc |-> pc, kind |-> tx[t].kind, order |-> tx[t].order, line |-> tx[t].line,
                todo |-> todo],
           TxFits(y, Held(rowLock, t))
    PROVE  LockInv'
<1>1. PICK a, b, c, d, e :
         tx[t] = [pc |-> a, kind |-> b, order |-> c, line |-> d, todo |-> e]
  BY DEF LockInv, TxFits, IsLockTx
<1>2. y = [pc |-> pc, kind |-> b, order |-> c, line |-> d, todo |-> todo]
  BY <1>1
<1>3. [[pc |-> a, kind |-> b, order |-> c, line |-> d, todo |-> e] EXCEPT !.pc = pc, !.todo = todo]
          = [pc |-> pc, kind |-> b, order |-> c, line |-> d, todo |-> todo]
  <2>1. [[pc |-> a, kind |-> b, order |-> c, line |-> d, todo |-> e] EXCEPT !.pc = pc]
            = [pc |-> pc, kind |-> b, order |-> c, line |-> d, todo |-> e]
    OBVIOUS
  <2>2. [[pc |-> pc, kind |-> b, order |-> c, line |-> d, todo |-> e] EXCEPT !.todo = todo]
            = [pc |-> pc, kind |-> b, order |-> c, line |-> d, todo |-> todo]
    OBVIOUS
  <2>3. \A r : [r EXCEPT !.pc = pc, !.todo = todo]
                 = [[r EXCEPT !.pc = pc] EXCEPT !.todo = todo]
    OBVIOUS
  <2> QED
    BY <2>1, <2>2, <2>3, Zenon
<1>4. tx' = [tx EXCEPT ![t].pc = pc, ![t].todo = todo] /\ rowLock' = rowLock
  BY DEF Locks!GoOn
<1>5. tx = [s \in Requests |-> tx[s]] /\ AreLocks(rowLock)
  BY DEF LockInv
<1>6. tx' = [tx EXCEPT ![t] = y]
  <2>1. PICK m : m = [tx[t] EXCEPT !.pc = pc, !.todo = todo]
    OBVIOUS
  <2>2. tx' = [tx EXCEPT ![t] = m]
    BY <1>4, <1>5, <2>1
  <2>3. m = y
    BY <1>1, <1>2, <1>3, <2>1
  <2> QED
    BY <2>2, <2>3
<1>7. tx' = WithTx(t, y)
  BY <1>6 DEF WithTx
<1> QED
  BY <1>4, <1>5, <1>7, LockFrame

LEMMA LockSteps ==
    ASSUME LockInv, NEW t \in Requests,
           Locks!Expire(t) \/ Locks!Sell(t) \/ Locks!MoveItem(t)
    PROVE  LockInv'
<1>1. PICK x, held : x = tx[t] /\ held = Held(rowLock, t)
  OBVIOUS
<1>2. TxFits(x, held) /\ IsLockTx(x)
  BY <1>1 DEF LockInv, TxFits
<1>3. x.pc = "asked" /\ x.todo = <<>>
  BY <1>1 DEF Locks!Expire, Locks!Sell, Locks!MoveItem, Locks!Asked
<1>4. x.order \in Locks!Orders
  BY <1>2, <1>3 DEF IsLockTx
<1>5. Locks!OrderRow(x.order) \in held /\ held \subseteq Ours(x)
  <2>1. x.todo # Locks!FirstRows(x.kind, x.order, x.line)
    BY <1>2, <1>3, FirstRowsAre
  <2> QED
    BY <1>2, <1>3, <2>1 DEF TxFits
<1>6. CASE Locks!Expire(t)
  <2>1. PICK todo : /\ todo \in {<<>>, <<Locks!AttemptRow(x.order)>>}
                    /\ Locks!GoOn(t, "expire", todo) /\ x.kind = "initiate"
    BY <1>1, <1>6 DEF Locks!Expire, Locks!Asked
  <2>2. PICK y : y = [pc |-> "expire", kind |-> x.kind, order |-> x.order, line |-> x.line,
                      todo |-> todo]
    OBVIOUS
  <2>3. /\ y.pc = "expire" /\ y.kind = x.kind /\ y.order = x.order /\ y.line = x.line
        /\ y.todo = todo
    BY <2>2
  <2>4. IsLockTx(y)
    BY <1>2, <1>3, <2>2, <2>3 DEF IsLockTx
  <2>5. Ours(x) = {Locks!OrderRow(x.order)}
    BY <2>1 DEF Ours
  <2>6. TxFits(y, held)
    BY <1>5, <2>1, <2>3, <2>4, <2>5 DEF TxFits
  <2> QED
    BY <1>1, <2>1, <2>2, <2>6, LockGoesOn
<1>7. CASE Locks!Sell(t)
  <2>1. PICK todo : todo = Locks!SaleRows(x.order)
    OBVIOUS
  <2>2. Locks!GoOn(t, "sell", todo) /\ x.kind \in {"answer", "pay"}
    BY <1>1, <1>7, <2>1 DEF Locks!Sell, Locks!Asked
  <2>3. PICK y : y = [pc |-> "sell", kind |-> x.kind, order |-> x.order, line |-> x.line,
                      todo |-> todo]
    OBVIOUS
  <2>4. /\ y.pc = "sell" /\ y.kind = x.kind /\ y.order = x.order /\ y.line = x.line
        /\ y.todo = todo
    BY <2>3
  <2>5. IsLockTx(y)
    BY <1>2, <1>3, <2>3, <2>4 DEF IsLockTx
  <2>6. Ours(y) = Ours(x)
    BY <2>4 DEF Ours
  <2>7. todo \in Seq(Locks!Rows)
    <3>1. todo \in Seq(Sold(x.order) \cup SoldItems(x.order)) /\ DOMAIN todo = 1..Len(todo)
          /\ Len(todo) \in Nat
      BY <1>4, <2>1, SaleRowsAre
    <3>2. Elements(todo) \subseteq Locks!Rows
      BY <1>4, <2>1, RowsAre
    <3>3. \A i \in 1..Len(todo) : todo[i] \in Locks!Rows
      BY <3>1, <3>2 DEF Elements
    <3> QED
      BY <3>1, <3>3
  <2>8. PICK n \in Nat, k \in Nat : n = Len(todo) /\ k = 0
    BY <2>7
  <2>9. n - k = n /\ k \in 0..n /\ 1..k = {} /\ \A i \in 1..n : k + i = i
    BY <2>8
  <2>10. SoldSoFar(y, held, k)
    BY <1>5, <2>1, <2>4, <2>6, <2>7, <2>8, <2>9 DEF SoldSoFar
  <2>11. \E m \in 0..Len(Locks!SaleRows(y.order)) : SoldSoFar(y, held, m)
    BY <2>1, <2>4, <2>8, <2>9, <2>10
  <2>12. TxFits(y, held)
    BY <1>5, <2>2, <2>4, <2>5, <2>11 DEF TxFits
  <2> QED
    BY <1>1, <2>2, <2>3, <2>12, LockGoesOn
<1>8. CASE Locks!MoveItem(t)
  <2>1. PICK todo : /\ todo \in {<<>>, <<Locks!Wallet(x.order, x.line)>>}
                    /\ Locks!GoOn(t, "move", todo) /\ x.kind = "item"
    BY <1>1, <1>8 DEF Locks!MoveItem, Locks!Asked
  <2>2. PICK y : y = [pc |-> "move", kind |-> x.kind, order |-> x.order, line |-> x.line,
                      todo |-> todo]
    OBVIOUS
  <2>3. /\ y.pc = "move" /\ y.kind = x.kind /\ y.order = x.order /\ y.line = x.line
        /\ y.todo = todo
    BY <2>2
  <2>4. IsLockTx(y)
    BY <1>2, <1>3, <2>2, <2>3 DEF IsLockTx
  <2>5. Ours(y) = Ours(x)
    BY <2>3 DEF Ours
  <2>6. TxFits(y, held)
    BY <1>5, <2>1, <2>3, <2>4, <2>5 DEF TxFits
  <2> QED
    BY <1>1, <2>1, <2>2, <2>6, LockGoesOn
<1> QED
  BY <1>6, <1>7, <1>8

LEMMA LockNext == LockInv /\ [Locks!Next]_(Locks!vars) => LockInv'
<1> SUFFICES ASSUME LockInv, [Locks!Next]_(Locks!vars) PROVE LockInv'
  OBVIOUS
<1>1. ASSUME NEW t \in Requests, NEW o \in Locks!Orders,
             NEW kind \in {"initiate", "answer", "pay"}, Locks!Begin(t, kind, o, 1)
      PROVE  LockInv'
  BY <1>1, LockBegins
<1>2. ASSUME NEW t \in Requests, NEW o \in Locks!Orders, NEW n \in DOMAIN Lines[o],
             Locks!Begin(t, "item", o, n)
      PROVE  LockInv'
  BY <1>2, LockBegins
<1>3. ASSUME NEW t \in Requests, Locks!Take(t) PROVE LockInv'
  BY <1>3, LockTakes
<1>4. ASSUME NEW t \in Requests, Locks!Expire(t) \/ Locks!Sell(t) \/ Locks!MoveItem(t)
      PROVE  LockInv'
  BY <1>4, LockSteps
<1>5. ASSUME NEW t \in Requests,
             \/ Locks!Refuse(t) \/ Locks!Fail(t) \/ Locks!Commit(t)
             \/ Locks!Victim(t) \/ Locks!Crash(t)
      PROVE  LockInv'
  <2>1. Locks!End(t)
    BY <1>5 DEF Locks!Refuse, Locks!Fail, Locks!Commit, Locks!Victim, Locks!Crash
  <2> QED
    BY <2>1, LockEnds
<1>6. CASE UNCHANGED Locks!vars
  <2>1. tx' = tx /\ rowLock' = rowLock
    BY <1>6 DEF Locks!vars
  <2> QED
    <3>1. PICK txs, locks : txs = tx' /\ locks = rowLock'
      OBVIOUS
    <3>2. txs = [t \in Requests |-> txs[t]] /\ AreLocks(locks)
      BY <2>1, <3>1 DEF LockInv
    <3>3. \A t \in Requests : TxFits(txs[t], Held(locks, t))
      BY <2>1, <3>1 DEF LockInv
    <3> QED
      BY <3>1, <3>2, <3>3, LockLater
<1> QED
  BY <1>1, <1>2, <1>3, <1>4, <1>5, <1>6 DEF Locks!Next, Locks!Step

(***************************************************************************)
(* Who waits in a cycle: each holds a row that another one of them waits   *)
(* for, so none is still at its first row.                                 *)
(***************************************************************************)
NextRow(t) == Head(tx[t].todo)

LEMMA InCycle ==
    ASSUME NEW t \in Locks!Deadlocked
    PROVE  /\ t \in Requests /\ tx[t].todo # <<>>
           /\ rowLock[NextRow(t)] # t /\ rowLock[NextRow(t)] \in Locks!Deadlocked
           /\ \E s \in Locks!Deadlocked : rowLock[NextRow(s)] = t
<1>1. PICK c \in Locks!Cycles : t \in c
  BY DEF Locks!Deadlocked
<1>2. /\ c \subseteq Requests /\ c \subseteq Locks!Deadlocked
      /\ \A s \in c : Locks!Waiting(s)
      /\ c = {Locks!Blocker(s) : s \in c}
  BY <1>1 DEF Locks!Cycles, Locks!Deadlocked
<1>3. \A s \in c : /\ tx[s].todo # <<>> /\ rowLock[NextRow(s)] # s
                   /\ Locks!Blocker(s) = rowLock[NextRow(s)]
  BY <1>2 DEF Locks!Waiting, Locks!Blocker, NextRow
<1> QED
  BY <1>1, <1>2, <1>3

WaitsToAsk(x, r, held) == /\ x.pc = "asked" /\ x.kind \in {"answer", "item"}
                          /\ r = Locks!OrderRow(x.order)
                          /\ held \subseteq Ours(x) \ {Locks!OrderRow(x.order)}
WaitsToExpire(x, r, held) == /\ x.pc = "expire" /\ x.kind = "initiate"
                             /\ r = Locks!AttemptRow(x.order)
                             /\ held \subseteq {Locks!OrderRow(x.order)}
WaitsToSell(x, r, held) ==
    /\ x.pc = "sell" /\ x.kind \in {"answer", "pay"} /\ Locks!OrderRow(x.order) \in held
    /\ r \in Sold(x.order) \cup SoldItems(x.order)
    /\ held \subseteq Ours(x) \cup Sold(x.order) \cup SoldItems(x.order)
    /\ \A p \in held \ Ours(x) : Locks!Before(x.order, p, r)
WaitsToMove(x, r, held) == /\ x.pc = "move" /\ x.kind = "item"
                           /\ r = Locks!Wallet(x.order, x.line)
                           /\ held \subseteq Ours(x)

(* A row of a sale that is locked comes before the one that is waited for. *)
LEMMA HeldBefore ==
    ASSUME NEW x, NEW held, TxFits(x, held), x.pc = "sell", x.todo # <<>>,
           Head(x.todo) \notin held
    PROVE  WaitsToSell(x, Head(x.todo), held)
<1>1. x.order \in Locks!Orders
  BY DEF TxFits, IsLockTx
<1>2. PICK all, r : all = Locks!SaleRows(x.order) /\ r = Head(x.todo)
  OBVIOUS
<1>3. PICK n \in Nat : n = Len(all) /\ DOMAIN all = 1..n
  BY <1>1, <1>2, SaleRowsAre
<1>4. PICK k \in 0..n : SoldSoFar(x, held, k)
  BY <1>2, <1>3 DEF TxFits
<1>5. /\ x.todo \in Seq(Locks!Rows) /\ Len(x.todo) = n - k
      /\ \A i \in 1..n - k : x.todo[i] = all[k + i]
      /\ \A i \in 1..k : all[i] \in held
      /\ \A p \in held : p \in Ours(x) \/ \E i \in 1..k : p = all[i]
  BY <1>2, <1>3, <1>4 DEF SoldSoFar
<1>6. r = all[k + 1] /\ k + 1 \in 1..n /\ k \in Nat
  <2>1. 1 \in 1..n - k /\ r = x.todo[1]
    BY <1>2, <1>5
  <2> QED
    BY <1>5, <2>1
<1>7. Elements(all) = Sold(x.order) \cup SoldItems(x.order)
  BY <1>1, <1>2, SaleRowsAre
<1>8. \A i \in 1..n : all[i] \in Elements(all)
  BY <1>3 DEF Elements
<1>9. r \in Sold(x.order) \cup SoldItems(x.order)
  BY <1>6, <1>7, <1>8
<1>10. \A p \in held : p \in Ours(x) \/ p \in Elements(all)
  <2>1. \A i \in 1..k : i \in 1..n
    BY <1>6
  <2> QED
    BY <1>5, <1>8, <2>1
<1>11. ASSUME NEW p \in held \ Ours(x) PROVE Locks!Before(x.order, p, r)
  <2>1. PICK i \in 1..k : p = all[i]
    BY <1>5
  <2>2. \A j \in 1..n : all[j] = r => j > k
    <3> SUFFICES ASSUME NEW j \in 1..n, all[j] = r, ~ (j > k) PROVE FALSE
      OBVIOUS
    <3>1. j \in 1..k
      BY <1>6
    <3> QED
      BY <1>2, <1>5, <3>1
  <2>3. i \in 1..n /\ \A j \in 1..n : all[j] = r => i < j
    BY <1>6, <2>2
  <2>4. r \in Locks!ToSet(all)
    BY <1>6, <1>8, ToSetIs
  <2> QED
    BY <1>2, <1>3, <2>1, <2>3, <2>4 DEF Locks!Before
<1>12. /\ x.kind \in {"answer", "pay"} /\ Locks!OrderRow(x.order) \in held
  BY DEF TxFits
<1> QED
  BY <1>2, <1>7, <1>9, <1>10, <1>11, <1>12 DEF WaitsToSell

LEMMA Waiters ==
    ASSUME LockInv, NEW t \in Locks!Deadlocked, NEW x, x = tx[t],
           NEW held, held = Held(rowLock, t)
    PROVE  /\ IsLockTx(x) /\ x.order \in Locks!Orders
           /\ \/ WaitsToAsk(x, NextRow(t), held) \/ WaitsToExpire(x, NextRow(t), held)
              \/ WaitsToSell(x, NextRow(t), held) \/ WaitsToMove(x, NextRow(t), held)
           /\ \E b \in Locks!Deadlocked : b # t /\ NextRow(t) \in Held(rowLock, b)
           /\ \E s \in Locks!Deadlocked : NextRow(s) \in held
<1>1. ASSUME NEW s \in Locks!Deadlocked
      PROVE  /\ s \in Requests /\ tx[s].todo # <<>> /\ TxFits(tx[s], Held(rowLock, s))
             /\ NextRow(s) \in Locks!Rows
  <2>1. s \in Requests /\ tx[s].todo # <<>>
    BY InCycle
  <2>2. TxFits(tx[s], Held(rowLock, s))
    BY <2>1 DEF LockInv
  <2> QED
    BY <2>1, <2>2, HeadIsRow DEF NextRow
<1>2. PICK r : r = NextRow(t) /\ r = Head(x.todo)
  BY DEF NextRow
<1>3. TxFits(x, held) /\ x.todo # <<>> /\ r \in Locks!Rows
  BY <1>1, <1>2
<1>4. r \notin held
  BY <1>2, InCycle DEF Held
<1>5. \E b \in Locks!Deadlocked : b # t /\ r \in Held(rowLock, b)
  BY <1>2, <1>3, InCycle DEF Held
<1>6. \E s \in Locks!Deadlocked : NextRow(s) \in held
  BY <1>1, InCycle DEF Held
<1>7. held # {}
  BY <1>6
<1>8. IsLockTx(x) /\ x.pc # "idle" /\ x.order \in Locks!Orders
  BY <1>3 DEF TxFits, IsLockTx
<1>9. CASE x.pc = "asked"
  <2>1. /\ x.kind \in {"answer", "item"} /\ x.todo = <<Locks!OrderRow(x.order)>>
        /\ held \subseteq Ours(x) \ {Locks!OrderRow(x.order)}
    BY <1>3, <1>7, <1>9 DEF TxFits
  <2> QED
    BY <1>2, <1>5, <1>6, <1>8, <1>9, <2>1 DEF WaitsToAsk
<1>10. CASE x.pc = "expire"
  <2>1. /\ x.kind = "initiate" /\ x.todo = <<Locks!AttemptRow(x.order)>>
        /\ held \subseteq {Locks!OrderRow(x.order), Locks!AttemptRow(x.order)}
    BY <1>3, <1>10 DEF TxFits
  <2>2. r = Locks!AttemptRow(x.order)
    BY <1>2, <2>1
  <2>3. held \subseteq {Locks!OrderRow(x.order)}
    BY <1>4, <2>1, <2>2
  <2> QED
    BY <1>2, <1>5, <1>6, <1>8, <1>10, <2>1, <2>2, <2>3 DEF WaitsToExpire
<1>11. CASE x.pc = "sell"
  BY <1>2, <1>3, <1>4, <1>5, <1>6, <1>8, <1>11, HeldBefore
<1>12. CASE x.pc = "move"
  <2>1. /\ x.kind = "item" /\ x.todo = <<Locks!Wallet(x.order, x.line)>>
        /\ held \subseteq Ours(x) \cup {Locks!Wallet(x.order, x.line)}
    BY <1>3, <1>12 DEF TxFits
  <2>2. r = Locks!Wallet(x.order, x.line)
    BY <1>2, <2>1
  <2>3. held \subseteq Ours(x)
    BY <1>4, <2>1, <2>2
  <2> QED
    BY <1>2, <1>5, <1>6, <1>8, <1>12, <2>1, <2>2, <2>3 DEF WaitsToMove
<1> QED
  BY <1>8, <1>9, <1>10, <1>11, <1>12 DEF IsLockTx

Pairs == {<<"initiate", "answer">>} \cup {"item"} \X {"answer", "pay"}

LEMMA Clash ==
    ASSUME NEW s \in Locks!Deadlocked, NEW t \in Locks!Deadlocked, tx[s].order = tx[t].order,
           \/ tx[s].kind = "initiate" /\ tx[t].kind = "answer"
           \/ tx[s].kind = "item" /\ tx[t].kind \in {"answer", "pay"}
    PROVE  Locks!SameOrder(Pairs)
BY DEF Locks!SameOrder, Pairs

(* What the rows of a call are, by kind. *)
LEMMA OursAre ==
    ASSUME NEW x, NEW r \in Ours(x)
    PROVE  \/ r = Locks!OrderRow(x.order)
           \/ x.kind = "answer" /\ r = Locks!AttemptRow(x.order)
           \/ x.kind = "item" /\ r = Locks!Item(x.order, x.line)
BY DEF Ours

LEMMA SoldItemsAre ==
    ASSUME NEW o, NEW r \in SoldItems(o)
    PROVE  \E n \in DOMAIN Lines[o] : r = Locks!Item(o, n)
BY DEF SoldItems

LEMMA OnlySalesWait ==
    ASSUME LockInv, ~ Locks!SameOrder(Pairs), NEW t \in Locks!Deadlocked
    PROVE  /\ WaitsToSell(tx[t], NextRow(t), Held(rowLock, t))
           /\ NextRow(t) \in Sold(tx[t].order)
<1>1. ASSUME NEW s \in Locks!Deadlocked
      PROVE  ~ WaitsToExpire(tx[s], NextRow(s), Held(rowLock, s))
  <2> SUFFICES ASSUME WaitsToExpire(tx[s], NextRow(s), Held(rowLock, s)) PROVE FALSE
    OBVIOUS
  <2>1. PICK o : o = tx[s].order /\ tx[s].kind = "initiate" /\ NextRow(s) = Locks!AttemptRow(o)
    BY DEF WaitsToExpire
  <2>2. PICK b \in Locks!Deadlocked : Locks!AttemptRow(o) \in Held(rowLock, b)
    BY <2>1, Waiters
  <2>3. PICK x, held, q : x = tx[b] /\ held = Held(rowLock, b) /\ q = NextRow(b)
    OBVIOUS
  <2>4. \/ WaitsToAsk(x, q, held) \/ WaitsToExpire(x, q, held)
        \/ WaitsToSell(x, q, held) \/ WaitsToMove(x, q, held)
    BY <2>3, Waiters
  <2>5. \/ Locks!AttemptRow(o) \in Ours(x) \/ Locks!AttemptRow(o) = Locks!OrderRow(x.order)
        \/ Locks!AttemptRow(o) \in Sold(x.order) \/ Locks!AttemptRow(o) \in SoldItems(x.order)
    BY <2>2, <2>3, <2>4 DEF WaitsToAsk, WaitsToExpire, WaitsToSell, WaitsToMove
  <2>6. Locks!AttemptRow(o) \in Ours(x)
    BY <2>5, RowsDiffer, SoldDiffer, SoldItemsAre
  <2>7. x.kind = "answer" /\ x.order = o
    BY <2>6, OursAre, RowsDiffer
  <2> QED
    BY <2>1, <2>3, <2>7, Clash
<1>2. ASSUME NEW s \in Locks!Deadlocked
      PROVE  ~ WaitsToAsk(tx[s], NextRow(s), Held(rowLock, s))
  <2> SUFFICES ASSUME WaitsToAsk(tx[s], NextRow(s), Held(rowLock, s)) PROVE FALSE
    OBVIOUS
  <2>1. PICK x, o : x = tx[s] /\ o = x.order
    OBVIOUS
  <2>2. PICK w \in Locks!Deadlocked : NextRow(w) \in Held(rowLock, s)
    BY Waiters
  <2>3. /\ NextRow(w) \in Ours(x) /\ NextRow(w) # Locks!OrderRow(o)
    BY <2>1, <2>2 DEF WaitsToAsk
  <2>4. \/ NextRow(w) = Locks!AttemptRow(o)
        \/ x.kind = "item" /\ NextRow(w) = Locks!Item(o, x.line)
    BY <2>1, <2>3, OursAre
  <2>5. PICK y, held, q : y = tx[w] /\ held = Held(rowLock, w) /\ q = NextRow(w)
    OBVIOUS
  <2>6. WaitsToAsk(y, q, held) \/ WaitsToSell(y, q, held) \/ WaitsToMove(y, q, held)
    BY <1>1, <2>5, Waiters
  <2>7. \/ q = Locks!OrderRow(y.order) \/ q = Locks!Wallet(y.order, y.line)
        \/ /\ y.kind \in {"answer", "pay"}
           /\ q \in Sold(y.order) \/ q \in SoldItems(y.order)
    BY <2>6 DEF WaitsToAsk, WaitsToSell, WaitsToMove
  <2>8. y.kind \in {"answer", "pay"} /\ q \in SoldItems(y.order)
    BY <2>4, <2>5, <2>7, RowsDiffer, SoldDiffer
  <2>9. x.kind = "item" /\ y.order = o
    BY <2>4, <2>5, <2>8, SoldItemsAre, RowsDiffer
  <2> QED
    BY <2>1, <2>5, <2>8, <2>9, Clash
<1>3. ASSUME NEW s \in Locks!Deadlocked
      PROVE  ~ WaitsToMove(tx[s], NextRow(s), Held(rowLock, s))
  <2> SUFFICES ASSUME WaitsToMove(tx[s], NextRow(s), Held(rowLock, s)) PROVE FALSE
    OBVIOUS
  <2>1. PICK x, o : x = tx[s] /\ o = x.order
    OBVIOUS
  <2>2. PICK w \in Locks!Deadlocked : NextRow(w) \in Held(rowLock, s)
    BY Waiters
  <2>3. NextRow(w) \in Ours(x) /\ x.kind = "item"
    BY <2>1, <2>2 DEF WaitsToMove
  <2>4. NextRow(w) = Locks!OrderRow(o) \/ NextRow(w) = Locks!Item(o, x.line)
    BY <2>1, <2>3, OursAre
  <2>5. PICK y, held, q : y = tx[w] /\ held = Held(rowLock, w) /\ q = NextRow(w)
    OBVIOUS
  <2>6. WaitsToSell(y, q, held) \/ WaitsToMove(y, q, held)
    BY <1>1, <1>2, <2>5, Waiters
  <2>7. \/ q = Locks!Wallet(y.order, y.line)
        \/ /\ y.kind \in {"answer", "pay"}
           /\ q \in Sold(y.order) \/ q \in SoldItems(y.order)
    BY <2>6 DEF WaitsToSell, WaitsToMove
  <2>8. y.kind \in {"answer", "pay"} /\ q \in SoldItems(y.order)
    BY <2>4, <2>5, <2>7, RowsDiffer, SoldDiffer
  <2>9. y.order = o
    BY <2>4, <2>5, <2>8, SoldItemsAre, RowsDiffer
  <2> QED
    BY <2>1, <2>3, <2>5, <2>8, <2>9, Clash
<1>4. ASSUME NEW s \in Locks!Deadlocked
      PROVE  WaitsToSell(tx[s], NextRow(s), Held(rowLock, s))
  BY <1>1, <1>2, <1>3, Waiters
<1>5. NextRow(t) \in Sold(tx[t].order)
  <2> SUFFICES ASSUME NextRow(t) \notin Sold(tx[t].order) PROVE FALSE
    OBVIOUS
  <2>1. PICK o : o = tx[t].order
    OBVIOUS
  <2>2. /\ NextRow(t) \in SoldItems(o)
        /\ Locks!OrderRow(o) \in Held(rowLock, t)
    BY <1>4, <2>1 DEF WaitsToSell
  <2>3. PICK n : NextRow(t) = Locks!Item(o, n)
    BY <2>2, SoldItemsAre
  <2>4. PICK b \in Locks!Deadlocked : b # t /\ NextRow(t) \in Held(rowLock, b)
    BY Waiters
  <2>5. PICK y : y = tx[b]
    OBVIOUS
  <2>6. /\ y.kind \in {"answer", "pay"} /\ Locks!OrderRow(y.order) \in Held(rowLock, b)
        /\ Held(rowLock, b) \subseteq Ours(y) \cup Sold(y.order) \cup SoldItems(y.order)
    BY <1>4, <2>5 DEF WaitsToSell
  <2>7. Locks!Item(o, n) \in SoldItems(y.order)
    BY <2>3, <2>4, <2>6, OursAre, RowsDiffer, SoldDiffer
  <2>8. y.order = o
    BY <2>7, SoldItemsAre, RowsDiffer
  <2> QED
    BY <2>2, <2>4, <2>6, <2>8 DEF Held
<1> QED
  BY <1>4, <1>5

(* For any orders, any number of items in them and any number of           *)
(* transactions at once: in the orders, the attempts and the items nobody  *)
(* waits in a circle but the pairs that the property names; and a circle   *)
(* of sales is one of orders that list what they share in different        *)
(* orders.                                                                 *)
THEOREM CirclesCross == Locks!Spec => []DeadlockNeedsCrossing
<1>1. Locks!Init => LockInv
  BY LockInit
<1>2. LockInv /\ [Locks!Next]_(Locks!vars) => LockInv'
  BY LockNext
<1>3. LockInv => DeadlockNeedsCrossing
  <2> SUFFICES ASSUME LockInv, Locks!Deadlocked # {}, ~ Locks!SameOrder(Pairs)
               PROVE  Locks!Crossing({tx[t].order : t \in {s \in Locks!Deadlocked :
                                                               tx[s].pc = "sell"}})
    BY DEF DeadlockNeedsCrossing, Locks!DeadlockNeedsCrossing, Pairs
  <2>1. PICK wanted, os : /\ wanted = {NextRow(t) : t \in Locks!Deadlocked}
                          /\ os = {tx[t].order : t \in {s \in Locks!Deadlocked : tx[s].pc = "sell"}}
    OBVIOUS
  <2>2. ASSUME NEW t \in Locks!Deadlocked
        PROVE  /\ NextRow(t) \in Locks!Rows /\ NextRow(t)[1] \in {"product", "wallet"}
               /\ tx[t].order \in os
    <3>1. \E b \in Locks!Deadlocked : NextRow(t) \in Held(rowLock, b)
      BY Waiters
    <3>2. NextRow(t) \in Sold(tx[t].order) /\ tx[t].pc = "sell"
      BY OnlySalesWait DEF WaitsToSell
    <3> QED
      BY <2>1, <3>1, <3>2, SoldDiffer DEF Held
  <2>3. wanted \in SUBSET {r \in Locks!Rows : r[1] \in {"product", "wallet"}} /\ wanted # {}
    BY <2>1, <2>2
  <2>4. ASSUME NEW q \in wanted
        PROVE  \E p \in wanted, o \in os : Locks!Before(o, p, q)
    <3>1. PICK t \in Locks!Deadlocked : q = NextRow(t)
      BY <2>1
    <3>2. PICK s \in Locks!Deadlocked : NextRow(s) \in Held(rowLock, t)
      BY Waiters
    <3>3. PICK p : p = NextRow(s)
      OBVIOUS
    <3>4. p \notin Ours(tx[t])
      <4>1. p \in Sold(tx[s].order)
        BY <3>3, OnlySalesWait
      <4> QED
        BY <4>1, OursAre, SoldDiffer
    <3>5. Locks!Before(tx[t].order, p, q)
      BY <3>1, <3>2, <3>3, <3>4, OnlySalesWait DEF WaitsToSell
    <3> QED
      BY <2>1, <2>2, <3>3, <3>5
  <2> QED
    BY <2>1, <2>3, <2>4 DEF Locks!Crossing
<1> QED
  BY <1>1, <1>2, <1>3, PTL DEF Locks!Spec

-----------------------------------------------------------------------------
(***************************************************************************)
(* The eight side by side, as the run checks them: where one moves, every  *)
(* other stutters.                                                         *)
(***************************************************************************)
THEOREM ServicesSideBySide ==
    MCSpec => [](/\ OfferedIsAccepted /\ EachMovesHisOwn /\ OnePrimaryAtRest /\ PictureIsKept
                 /\ ChosenIsHeldOnce /\ OneThreadUnlessCrossed /\ RecipientIsTold
                 /\ RetryIsHarmless /\ AnnouncedIffSettled /\ DeadlockNeedsCrossing)
<1>1. MCInit => /\ View!ViewInit /\ Picture!Init /\ Cart!Init /\ Chat!Init /\ Client!Init
                /\ Payment!Init /\ Locks!Init
  BY DEF MCInit
<1>2. [MCNext]_allVars => [View!ViewNext]_(View!viewVars)
  BY DEF MCNext, allVars, saleVars, View!viewVars, View!vars
<1>3. [MCNext]_allVars => [Picture!Next]_(Picture!vars)
  BY DEF MCNext, allVars, pictureVars, Picture!vars
<1>4. [MCNext]_allVars => [Cart!Next]_(Cart!vars)
  BY DEF MCNext, allVars, cartVars, Cart!vars
<1>5. [MCNext]_allVars => [Chat!Next]_(Chat!vars)
  BY DEF MCNext, allVars, chatVars, Chat!vars
<1>6. [MCNext]_allVars => [Client!Next]_(Client!vars)
  BY DEF MCNext, allVars, clientVars, Client!vars
<1>7. [MCNext]_allVars => [Payment!Next]_(Payment!vars)
  BY DEF MCNext, allVars, paymentVars, Payment!vars
<1>8. [MCNext]_allVars => [Locks!Next]_(Locks!vars)
  BY DEF MCNext, allVars, lockVars, Locks!vars
<1> QED
  BY <1>1, <1>2, <1>3, <1>4, <1>5, <1>6, <1>7, <1>8, OffersAreKept, OthersItemsStay,
     OneImageLeads, PicturesAreKept, CartsKeepChoices, OneThreadEach, EveryMessageIsTold,
     ClientRetriesSafely, PeopleAreTold, CirclesCross, PTL
     DEF MCSpec, View!ViewSpec, Picture!Spec, Cart!Spec, Chat!Spec, Client!Spec, Payment!Spec,
         Locks!Spec
=============================================================================
