--------------------------- MODULE GroupMessagesProofs ---------------------------
(***************************************************************************)
(* Proofs about GroupMessages for any members, requests and page size: the *)
(* documents keep their types, the stored count never exceeds the messages *)
(* of the group, and as long as handlers do not overlap it counts them,    *)
(* and no message goes unnoticed. Then about GroupStore, for any groups    *)
(* and requests: the socket of a tab is in the room of the group it shows, *)
(* and the screen shows the messages of a group that was opened while      *)
(* nothing was under way, until something meets.                           *)
(***************************************************************************)
EXTENDS MCGroupMessages, SequenceTheorems, FiniteSetTheorems, TLAPS

Message == [by : User, createdAt : 0..now, deleted : BOOLEAN]

Documents ==
    /\ group \in [deleted : BOOLEAN, totalMessages : Nat]
    /\ dissolved \in BOOLEAN
    /\ messages \in Seq(Message)
    /\ lastReadAt \in [User -> 0..now]
    /\ now \in 0..MaxMessages
    /\ failures \in 0..MaxFailures

\* A handler may only write back a count that the messages already cover; the
\* one about to save a message covers the next count by doing so.
Counting(h, count) == h.at \in {"upload", "save", "saveTotal"} => h.total <= count

IInv ==
    /\ Documents
    /\ req \in [Request -> Handler]
    /\ \A r \in Request : Counting(req[r], Len(messages))
    /\ NeverOvercounts

USE MemberAssumption, LimitAssumption, BoundAssumption

LEMMA InitIInv == Init => IInv
<1> SUFFICES ASSUME Init PROVE IInv
  OBVIOUS
<1>1. Documents
  <2>1. messages \in Seq(Message)
    BY DEF Init
  <2>2. lastReadAt \in [User -> 0..now] /\ now \in 0..MaxMessages /\ failures \in 0..MaxFailures
    BY DEF Init
  <2>3. QED
    BY <2>1, <2>2 DEF Init, Documents
<1>2. req \in [Request -> Handler]
  BY DEF Init, Handler
<1>3. \A r \in Request : Counting(req[r], Len(messages))
  BY DEF Init, Counting, Idle
<1>4. NeverOvercounts
  BY DEF Init, NeverOvercounts
<1>5. QED
  BY <1>1, <1>2, <1>3, <1>4 DEF IInv

-----------------------------------------------------------------------------
(* What a handler at some place knows. *)

LEMMA HandlerKnows ==
    ASSUME NEW h \in Handler
    PROVE  /\ h.at \in {"upload", "save", "saveTotal"} => h.total \in Nat
           /\ h.at \in {"findGroup", "findPage", "upload", "save", "findMessage",
                        "stampRead", "saveRead"} => h.by \in User
           /\ h.at \in {"findMessage", "softDelete"} => h.msg \in DOMAIN messages
           /\ h.at \in {"save", "saveRead"} => h.stamp \in 0..now
BY DEF Handler, Idle

\* Handlers keep their type while stamps are made and messages appended.
LEMMA HandlerGrows ==
    ASSUME Documents, NEW h \in Handler,
           now' \in Nat, now <= now', DOMAIN messages \subseteq DOMAIN messages'
    PROVE  h \in Handler'
<1>1. 0..now \subseteq 0..now'
  BY DEF Documents
<1>2. SUBSET DOMAIN messages \subseteq SUBSET DOMAIN messages'
  OBVIOUS
<1>3. CASE h = Idle
  BY <1>3 DEF Handler, Idle
<1>4. CASE h \in [at : {"findGroup", "findPage"}, by : User]
  BY <1>4 DEF Handler
<1>5. CASE h \in [at : {"upload"}, by : User, total : Nat]
  BY <1>5 DEF Handler
<1>6. CASE h \in [at : {"save"}, by : User, total : Nat, stamp : 0..now]
  <2>1. h \in [at : {"save"}, by : User, total : Nat, stamp : 0..now']
    BY <1>1, <1>6
  <2>2. QED
    BY <2>1 DEF Handler
<1>7. CASE h \in [at : {"saveTotal"}, total : Nat]
  BY <1>7 DEF Handler
<1>8. CASE h \in [at : {"findMessage"}, by : User, msg : DOMAIN messages]
  <2>1. h \in [at : {"findMessage"}, by : User, msg : DOMAIN messages']
    BY <1>8
  <2>2. QED
    BY <2>1 DEF Handler
<1>9. CASE h \in [at : {"softDelete"}, msg : DOMAIN messages]
  <2>1. h \in [at : {"softDelete"}, msg : DOMAIN messages']
    BY <1>9
  <2>2. QED
    BY <2>1 DEF Handler
<1>10. CASE h \in [at : {"stampRead"}, by : User, page : SUBSET DOMAIN messages]
  <2>1. h \in [at : {"stampRead"}, by : User, page : SUBSET DOMAIN messages']
    BY <1>2, <1>10
  <2>2. QED
    BY <2>1 DEF Handler
<1>11. CASE h \in [at : {"saveRead"}, by : User, stamp : 0..now]
  <2>1. h \in [at : {"saveRead"}, by : User, stamp : 0..now']
    BY <1>1, <1>11
  <2>2. QED
    BY <2>1 DEF Handler
<1>12. CASE h \in [at : {"findCounted", "deleteMembers", "deleteMessages", "deleteGroup"}]
  BY <1>12 DEF Handler
<1>13. QED
  BY <1>3, <1>4, <1>5, <1>6, <1>7, <1>8, <1>9, <1>10, <1>11, <1>12 DEF Handler

\* A step in which one request goes on, and the messages do not get fewer.
LEMMA GoKeeps ==
    ASSUME IInv, NEW r \in Request, NEW h, Go(r, h),
           h \in Handler', Counting(h, Len(messages')),
           Documents', NeverOvercounts', now <= now', Len(messages) <= Len(messages')
    PROVE  IInv'
<1>1. messages \in Seq(Message) /\ messages' \in Seq(Message')
  BY DEF IInv, Documents
<1>2. DOMAIN messages \subseteq DOMAIN messages'
  BY <1>1
<1>3. ASSUME NEW q \in Request PROVE req'[q] \in Handler' /\ Counting(req'[q], Len(messages'))
  <2>1. CASE q = r
    BY <2>1 DEF Go, IInv
  <2>2. CASE q # r
    <3>1. req'[q] = req[q] /\ req[q] \in Handler
      BY <2>2 DEF Go, IInv
    <3>2. req[q] \in Handler'
      BY <3>1, <1>2, HandlerGrows DEF IInv, Documents
    <3>3. req[q].at \in {"upload", "save", "saveTotal"} => req[q].total \in Nat
      BY <3>1, HandlerKnows
    <3>4. Counting(req[q], Len(messages'))
      BY <3>1, <3>3, <1>1, LenProperties DEF IInv, Counting
    <3>5. QED
      BY <3>1, <3>2, <3>4
  <2>3. QED
    BY <2>1, <2>2
<1>4. req' \in [Request -> Handler']
  <2>1. req' = [req EXCEPT ![r] = h] /\ req \in [Request -> Handler]
    BY DEF Go, IInv
  <2>2. DOMAIN req' = Request /\ req' = [q \in Request |-> req'[q]]
    BY <2>1
  <2>3. QED
    BY <2>2, <1>3
<1>5. QED
  <2>1. \A q \in Request : Counting(req'[q], Len(messages'))
    BY <1>3
  <2>2. QED
    BY <1>4, <2>1 DEF IInv

\* The same for a step that leaves the documents alone.
LEMMA GoQuietly ==
    ASSUME IInv, NEW r \in Request, NEW h \in Handler, Go(r, h), Counting(h, Len(messages)),
           UNCHANGED <<group, dissolved, messages, lastReadAt, now>>, failures' \in 0..MaxFailures
    PROVE  IInv'
<1>1. messages' = messages /\ now' = now /\ now \in Nat /\ messages \in Seq(Message)
  BY DEF IInv, Documents
<1>2. Documents' /\ NeverOvercounts'
  BY DEF IInv, Documents, NeverOvercounts, Message
<1>3. h \in Handler'
  BY <1>1, HandlerGrows DEF IInv
<1>4. Counting(h, Len(messages'))
  BY <1>1
<1>5. now <= now' /\ Len(messages) <= Len(messages')
  BY <1>1, LenProperties
<1>6. QED
  BY <1>2, <1>3, <1>4, <1>5, GoKeeps

\* A request that is answered, or whose handler dies.
LEMMA RespondKeeps ==
    ASSUME IInv, NEW r \in Request, Respond(r),
           UNCHANGED <<group, dissolved, messages, lastReadAt, now>>, failures' \in 0..MaxFailures
    PROVE  IInv'
<1>1. Idle \in Handler
  BY DEF Handler
<1>2. Counting(Idle, Len(messages))
  BY DEF Counting, Idle
<1>3. QED
  BY <1>1, <1>2, GoQuietly DEF Respond

-----------------------------------------------------------------------------
(* One lemma per handler. *)

LEMMA BeginKeeps ==
    ASSUME IInv, NEW r \in Request, NEW u \in User
    PROVE  /\ BeginSend(r, u) => IInv'
           /\ BeginList(r, u) => IInv'
           /\ BeginMark(r, u) => IInv'
           /\ BeginDissolve(r) => IInv'
           /\ \A m \in DOMAIN messages : BeginDelete(r, u, m) => IInv'
<1>1. ASSUME NEW h \in Handler, h.at \notin {"upload", "save", "saveTotal"}, Begin(r, h)
      PROVE  IInv'
  BY <1>1, GoQuietly DEF Begin, Counting, IInv, Documents
<1>2. [at |-> "findGroup", by |-> u] \in Handler /\ [at |-> "findPage", by |-> u] \in Handler
  BY DEF Handler
<1>3. [at |-> "stampRead", by |-> u, page |-> {}] \in Handler
  BY DEF Handler
<1>4. [at |-> "deleteMembers"] \in Handler
  BY DEF Handler
<1>5. ASSUME NEW m \in DOMAIN messages
      PROVE  [at |-> "findMessage", by |-> u, msg |-> m] \in Handler
  BY <1>5 DEF Handler
<1>6. QED
  BY <1>1, <1>2, <1>3, <1>4, <1>5 DEF BeginSend, BeginList, BeginMark, BeginDissolve, BeginDelete

LEMMA SendKeeps ==
    ASSUME IInv, NEW r \in Request,
           FindGroup(r) \/ StampMessage(r) \/ UploadFails(r) \/ SaveMessage(r) \/ SaveTotal(r)
    PROVE  IInv'
<1> DEFINE h == req[r]
<1>1. h \in Handler /\ Counting(h, Len(messages))
  BY DEF IInv
<1>2. /\ h.at \in {"upload", "save", "saveTotal"} => h.total \in Nat
      /\ h.at \in {"findGroup", "upload", "save"} => h.by \in User
      /\ h.at = "save" => h.stamp \in 0..now
  BY <1>1, HandlerKnows
<1>3. /\ messages \in Seq(Message) /\ Len(messages) \in Nat /\ group.totalMessages \in Nat
      /\ group.totalMessages <= Len(messages) /\ now \in 0..MaxMessages
  BY LenProperties DEF IInv, Documents, NeverOvercounts
<1>4. CASE FindGroup(r)
  <2>1. CASE Respond(r)
    BY <1>4, <2>1, RespondKeeps DEF FindGroup, IInv, Documents
  <2>2. CASE ~Respond(r)
    <3> DEFINE g == [at |-> "upload", by |-> h.by, total |-> group.totalMessages]
    <3>1. Go(r, g) /\ h.at = "findGroup"
      BY <1>4, <2>2 DEF FindGroup, At
    <3>2. g \in Handler
      BY <1>2, <1>3, <3>1 DEF Handler
    <3>3. Counting(g, Len(messages))
      BY <1>3 DEF Counting
    <3>4. QED
      BY <1>4, <3>1, <3>2, <3>3, GoQuietly DEF FindGroup, IInv, Documents
  <2>3. QED
    BY <2>1, <2>2
<1>5. CASE StampMessage(r)
  <2> DEFINE g == [at |-> "save", by |-> h.by, total |-> h.total, stamp |-> now + 1]
  <2>1. /\ Go(r, g) /\ h.at = "upload" /\ now' = now + 1 /\ now < MaxMessages
        /\ UNCHANGED <<group, dissolved, messages, lastReadAt, failures>>
    BY <1>5 DEF StampMessage, At
  <2>2. now' \in 0..MaxMessages /\ now + 1 \in 0..now' /\ 0..now \subseteq 0..now'
    BY <1>3, <2>1
  <2>3. g \in [at : {"save"}, by : User, total : Nat, stamp : 0..now']
    BY <1>2, <2>1, <2>2
  <2>4. g \in Handler'
    BY <2>3 DEF Handler
  <2>5. Counting(g, Len(messages'))
    BY <1>1, <2>1 DEF Counting
  <2>6. Message \subseteq Message'
    BY <2>2 DEF Message
  <2>7. messages' \in Seq(Message')
    BY <1>3, <2>1, <2>6
  <2>8. lastReadAt' \in [User -> 0..now']
    BY <2>1, <2>2 DEF IInv, Documents
  <2>9. Documents' /\ NeverOvercounts'
    BY <2>1, <2>2, <2>7, <2>8 DEF IInv, Documents, NeverOvercounts
  <2>10. now <= now' /\ Len(messages) <= Len(messages')
    BY <1>3, <2>1
  <2>11. QED
    BY <2>1, <2>4, <2>5, <2>9, <2>10, GoKeeps
<1>6. CASE UploadFails(r)
  BY <1>6, RespondKeeps DEF UploadFails, IInv, Documents
<1>7. CASE SaveMessage(r)
  <2> DEFINE g == [at |-> "saveTotal", total |-> h.total + 1]
             e == [by |-> h.by, createdAt |-> h.stamp, deleted |-> FALSE]
  <2>1. /\ Go(r, g) /\ h.at = "save" /\ messages' = Append(messages, e)
        /\ UNCHANGED <<group, dissolved, lastReadAt, now, failures>>
    BY <1>7 DEF SaveMessage, At
  <2>2. e \in Message
    BY <1>2, <2>1 DEF Message
  <2>3. messages' \in Seq(Message) /\ Len(messages') = Len(messages) + 1
    BY <1>3, <2>1, <2>2, AppendProperties
  <2>4. Message' = Message
    BY <2>1 DEF Message
  <2>5. g \in Handler'
    BY <1>2, <2>1 DEF Handler
  <2>6. Counting(g, Len(messages'))
    BY <1>1, <1>2, <1>3, <2>1, <2>3 DEF Counting
  <2>7. Documents' /\ NeverOvercounts'
    BY <1>3, <2>1, <2>3, <2>4 DEF IInv, Documents, NeverOvercounts
  <2>8. now <= now' /\ Len(messages) <= Len(messages')
    BY <1>3, <2>1, <2>3
  <2>9. QED
    BY <2>1, <2>5, <2>6, <2>7, <2>8, GoKeeps
<1>8. CASE SaveTotal(r)
  <2>1. /\ Respond(r) /\ h.at = "saveTotal" /\ group' = [group EXCEPT !.totalMessages = h.total]
        /\ UNCHANGED <<dissolved, messages, lastReadAt, now, failures>>
    BY <1>8 DEF SaveTotal, At
  <2>2. group' \in [deleted : BOOLEAN, totalMessages : Nat] /\ group'.totalMessages = h.total
    BY <1>2, <2>1 DEF IInv, Documents
  <2>3. NeverOvercounts'
    BY <1>1, <2>1, <2>2 DEF Counting, NeverOvercounts
  <2>4. Documents'
    BY <2>1, <2>2 DEF IInv, Documents, Message
  <2>5. Idle \in Handler' /\ Counting(Idle, Len(messages'))
    BY DEF Handler, Counting, Idle
  <2>6. now <= now' /\ Len(messages) <= Len(messages')
    BY <1>3, <2>1
  <2>7. QED
    BY <2>1, <2>3, <2>4, <2>5, <2>6, GoKeeps DEF Respond
<1>9. QED
  BY <1>4, <1>5, <1>6, <1>7, <1>8

\* Marking messages deleted, one or all, keeps their number and their type.
LEMMA MarkingKeeps ==
    ASSUME IInv, NEW r \in Request, NEW h \in Handler, h.at \notin {"upload", "save", "saveTotal"},
           Go(r, h), DOMAIN messages' = DOMAIN messages, messages' \in Seq(Message),
           UNCHANGED <<group, lastReadAt, now, failures>>, dissolved' \in BOOLEAN
    PROVE  IInv'
<1>1. Message' = Message
  BY DEF Message
<1>2. Len(messages') = Len(messages) /\ Len(messages) \in Nat /\ now \in Nat
  <2>1. messages \in Seq(Message)
    BY DEF IInv, Documents
  <2>2. DOMAIN messages = 1..Len(messages) /\ DOMAIN messages' = 1..Len(messages')
    BY <2>1, LenProperties
  <2>3. Len(messages') \in Nat /\ Len(messages) \in Nat
    BY <2>1, LenProperties
  <2>4. QED
    BY <2>2, <2>3 DEF IInv, Documents
<1>3. Documents' /\ NeverOvercounts'
  BY <1>1, <1>2 DEF IInv, Documents, NeverOvercounts
<1>4. h \in Handler'
  BY <1>2, HandlerGrows DEF IInv
<1>5. Counting(h, Len(messages'))
  BY DEF Counting
<1>6. now <= now' /\ Len(messages) <= Len(messages')
  BY <1>2
<1>7. QED
  BY <1>3, <1>4, <1>5, <1>6, GoKeeps

LEMMA DeleteKeeps ==
    ASSUME IInv, NEW r \in Request, FindMessage(r) \/ SoftDeleteMessage(r) \/ FindCounted(r)
    PROVE  IInv'
<1> DEFINE h == req[r]
<1>1. h \in Handler
  BY DEF IInv
<1>2. h.at \in {"findMessage", "softDelete"} => h.msg \in DOMAIN messages
  BY <1>1, HandlerKnows
<1>3. messages \in Seq(Message) /\ group.totalMessages \in Nat /\ failures \in 0..MaxFailures
  BY DEF IInv, Documents
<1>4. CASE FindMessage(r)
  <2>1. CASE Respond(r)
    BY <1>3, <1>4, <2>1, RespondKeeps DEF FindMessage
  <2>2. CASE ~Respond(r)
    <3> DEFINE g == [at |-> "softDelete", msg |-> h.msg]
    <3>1. Go(r, g) /\ h.at = "findMessage" /\ UNCHANGED <<group, dissolved, messages, lastReadAt, now, failures>>
      BY <1>4, <2>2 DEF FindMessage, At
    <3>2. g \in Handler
      BY <1>2, <3>1 DEF Handler
    <3>3. Counting(g, Len(messages))
      BY DEF Counting
    <3>4. QED
      BY <1>3, <3>1, <3>2, <3>3, GoQuietly
  <2>3. QED
    BY <2>1, <2>2
<1>5. CASE SoftDeleteMessage(r)
  <2>1. /\ Go(r, [at |-> "findCounted"]) /\ h.at = "softDelete"
        /\ messages' = [messages EXCEPT ![h.msg].deleted = TRUE]
        /\ UNCHANGED <<group, dissolved, lastReadAt, now, failures>>
    BY <1>5 DEF SoftDeleteMessage, At
  <2>2. messages[h.msg] \in Message
    BY <1>2, <1>3, <2>1, ElementOfSeq
  <2>3. [messages[h.msg] EXCEPT !.deleted = TRUE] \in Message
    BY <2>2 DEF Message
  <2>4. messages' = [messages EXCEPT ![h.msg] = [messages[h.msg] EXCEPT !.deleted = TRUE]]
    BY <2>1
  <2>5. messages' \in Seq(Message) /\ DOMAIN messages' = DOMAIN messages
    BY <1>2, <1>3, <2>1, <2>3, <2>4, ExceptSeq
  <2>6. [at |-> "findCounted"] \in Handler
    BY DEF Handler
  <2>7. dissolved' \in BOOLEAN
    BY <2>1 DEF IInv, Documents
  <2>8. QED
    BY <2>1, <2>5, <2>6, <2>7, MarkingKeeps
<1>6. CASE FindCounted(r)
  <2>1. CASE Respond(r)
    BY <1>3, <1>6, <2>1, RespondKeeps DEF FindCounted
  <2>2. CASE ~Respond(r)
    <3> DEFINE g == [at |-> "saveTotal", total |-> group.totalMessages - 1]
    <3>1. /\ Go(r, g) /\ group.totalMessages # 0
          /\ UNCHANGED <<group, dissolved, messages, lastReadAt, now, failures>>
      BY <1>6, <2>2 DEF FindCounted
    <3>2. group.totalMessages - 1 \in Nat
      BY <1>3, <3>1
    <3>3. g \in Handler
      BY <3>2 DEF Handler
    <3>4. Counting(g, Len(messages))
      BY <1>3, LenProperties DEF Counting, IInv, NeverOvercounts
    <3>5. QED
      BY <1>3, <3>1, <3>3, <3>4, GoQuietly
  <2>3. QED
    BY <2>1, <2>2
<1>7. QED
  BY <1>4, <1>5, <1>6

LEMMA ReadKeeps ==
    ASSUME IInv, NEW r \in Request, FindPage(r) \/ StampRead(r) \/ SaveRead(r)
    PROVE  IInv'
<1> DEFINE h == req[r]
<1>1. h \in Handler
  BY DEF IInv
<1>2. /\ h.at \in {"findPage", "stampRead", "saveRead"} => h.by \in User
      /\ h.at = "saveRead" => h.stamp \in 0..now
  BY <1>1, HandlerKnows
<1>3. failures \in 0..MaxFailures /\ now \in 0..MaxMessages
  BY DEF IInv, Documents
<1>4. CASE FindPage(r)
  <2>0. PICK cursor \in Cursor : Go(r, [at |-> "stampRead", by |-> h.by, page |-> Page(cursor)])
    BY <1>4 DEF FindPage
  <2> DEFINE page == Page(cursor)
             g == [at |-> "stampRead", by |-> h.by, page |-> page]
  <2>1. /\ Go(r, g) /\ h.at = "findPage"
        /\ UNCHANGED <<group, dissolved, messages, lastReadAt, now, failures>>
    BY <1>4, <2>0 DEF FindPage, At
  <2>2. page \in SUBSET DOMAIN messages
    BY DEF Page, Newest, Live
  <2> HIDE DEF page
  <2>3. g \in Handler
    BY <1>2, <2>1, <2>2 DEF Handler
  <2>4. Counting(g, Len(messages))
    BY DEF Counting
  <2>5. QED
    BY <1>3, <2>1, <2>3, <2>4, GoQuietly
<1>5. CASE StampRead(r)
  <2> DEFINE g == [at |-> "saveRead", by |-> h.by, stamp |-> now]
  <2>1. /\ Go(r, g) /\ h.at = "stampRead"
        /\ UNCHANGED <<group, dissolved, messages, lastReadAt, now, failures>>
    BY <1>5 DEF StampRead, At
  <2>2. g \in Handler
    BY <1>2, <1>3, <2>1 DEF Handler
  <2>3. Counting(g, Len(messages))
    BY DEF Counting
  <2>4. QED
    BY <1>3, <2>1, <2>2, <2>3, GoQuietly
<1>6. CASE SaveRead(r)
  <2>1. /\ Respond(r) /\ h.at = "saveRead" /\ lastReadAt' = [lastReadAt EXCEPT ![h.by] = h.stamp]
        /\ UNCHANGED <<group, dissolved, messages, now, failures>>
    BY <1>6 DEF SaveRead, At
  <2>2. lastReadAt' \in [User -> 0..now']
    BY <1>2, <2>1 DEF IInv, Documents
  <2>3. Documents' /\ NeverOvercounts'
    BY <2>1, <2>2 DEF IInv, Documents, NeverOvercounts, Message
  <2>4. Idle \in Handler' /\ Counting(Idle, Len(messages'))
    BY DEF Handler, Counting, Idle
  <2>5. now <= now' /\ Len(messages) <= Len(messages')
    BY <1>3, <2>1, LenProperties DEF IInv, Documents
  <2>6. QED
    BY <2>1, <2>3, <2>4, <2>5, GoKeeps DEF Respond
<1>7. QED
  BY <1>4, <1>5, <1>6

LEMMA DissolveKeeps ==
    ASSUME IInv, NEW r \in Request, DeleteMembers(r) \/ DeleteMessages(r) \/ DeleteGroup(r)
    PROVE  IInv'
<1>1. /\ messages \in Seq(Message) /\ now \in Nat /\ dissolved \in BOOLEAN
      /\ group \in [deleted : BOOLEAN, totalMessages : Nat]
  BY DEF IInv, Documents
<1>2. CASE DeleteMembers(r)
  <2>1. [at |-> "deleteMessages"] \in Handler
    BY DEF Handler
  <2>2. QED
    BY <1>1, <1>2, <2>1, MarkingKeeps DEF DeleteMembers
<1>3. CASE DeleteMessages(r)
  <2>1. [at |-> "deleteGroup"] \in Handler
    BY DEF Handler
  <2>2. ASSUME NEW m \in 1..Len(messages) PROVE [messages[m] EXCEPT !.deleted = TRUE] \in Message
    <3>1. messages[m] \in Message
      BY <1>1, <2>2, ElementOfSeq
    <3>2. QED
      BY <3>1 DEF Message
  <2>3. messages' = [m \in 1..Len(messages) |-> [messages[m] EXCEPT !.deleted = TRUE]]
    BY <1>1, <1>3, LenProperties DEF DeleteMessages
  <2>4. messages' \in Seq(Message)
    BY <1>1, <2>2, <2>3, LenProperties
  <2>5. DOMAIN messages' = DOMAIN messages
    BY <1>3 DEF DeleteMessages
  <2>6. QED
    BY <1>1, <1>3, <2>1, <2>4, <2>5, MarkingKeeps DEF DeleteMessages
<1>4. CASE DeleteGroup(r)
  <2>1. /\ Respond(r) /\ group' = [group EXCEPT !.deleted = TRUE]
        /\ UNCHANGED <<dissolved, messages, lastReadAt, now, failures>>
    BY <1>4 DEF DeleteGroup
  <2>2. /\ group' \in [deleted : BOOLEAN, totalMessages : Nat]
        /\ group'.totalMessages = group.totalMessages
    BY <1>1, <2>1
  <2>3. Documents' /\ NeverOvercounts'
    BY <2>1, <2>2 DEF IInv, Documents, NeverOvercounts, Message
  <2>4. Idle \in Handler' /\ Counting(Idle, Len(messages'))
    BY DEF Handler, Counting, Idle
  <2>5. now <= now' /\ Len(messages) <= Len(messages')
    BY <1>1, <2>1, LenProperties
  <2>6. QED
    BY <2>1, <2>3, <2>4, <2>5, GoKeeps DEF Respond
<1>5. QED
  BY <1>2, <1>3, <1>4

-----------------------------------------------------------------------------
LEMMA NextIInv == IInv /\ [Next]_vars => IInv'
<1> SUFFICES ASSUME IInv, [Next]_vars PROVE IInv'
  OBVIOUS
<1>1. CASE UNCHANGED vars
  BY <1>1 DEF vars, IInv, Documents, Message, Handler, Counting, NeverOvercounts
<1>2. ASSUME NEW r \in Request, Fail(r) PROVE IInv'
  <2>1. failures' \in 0..MaxFailures
    BY <1>2 DEF Fail, IInv, Documents
  <2>2. QED
    BY <1>2, <2>1, RespondKeeps DEF Fail
<1>3. ASSUME NEW r \in Request, BeginDissolve(r) PROVE IInv'
  BY <1>3, BeginKeeps
<1>4. QED
  BY <1>1, <1>2, <1>3, BeginKeeps, SendKeeps, DeleteKeeps, ReadKeeps, DissolveKeeps DEF Next

\* Every document and every handler stays in its domain.
THEOREM TypeCorrect == Spec => []TypeOK
<1>1. IInv => TypeOK
  BY DEF IInv, Documents, Message, TypeOK
<1>2. QED
  BY <1>1, InitIInv, NextIInv, PTL DEF Spec

\* The stored count never exceeds the messages the group was ever sent, however
\* many sends and deletions overlap and however many handlers die half-way.
THEOREM NeverOvercountsAlways == Spec => []NeverOvercounts
<1>1. IInv => NeverOvercounts
  BY DEF IInv
<1>2. QED
  BY <1>1, InitIInv, NextIInv, PTL DEF Spec
-----------------------------------------------------------------------------
(* Requests that do not overlap. *)

Settled == IF group.deleted THEN Live = {} ELSE group.totalMessages = Cardinality(Live)

\* What a handler that runs alone finds on its way, between the write to the messages and
\* the one to the count.
Consistent(h) ==
    /\ h.at \in {"findGroup", "upload", "save", "findMessage", "softDelete", "findPage",
                 "stampRead", "saveRead", "deleteMembers"} => ~dissolved /\ Settled
    /\ h.at \in {"upload", "save"} => h.total = group.totalMessages
    /\ h.at = "saveTotal" => ~dissolved /\ h.total = Cardinality(Live)
    /\ h.at = "softDelete" => h.msg \in Live
    /\ h.at = "findCounted" => ~dissolved /\ group.totalMessages = Cardinality(Live) + 1
    /\ h.at \in {"deleteMessages", "deleteGroup"} => dissolved
    /\ h.at = "deleteGroup" => Live = {}

Alone == \A r, q \in Request : req[r] # Idle /\ req[q] # Idle => r = q

SettledState ==
    /\ Alone
    /\ group.deleted => dissolved
    /\ AllIdle => Settled /\ (dissolved => group.deleted)
    /\ \A r \in Request : Consistent(req[r])

SettleInv == ~overlapped /\ failures = 0 => SettledState

\* A message of somebody else was shown, or is younger than the last reading; whoever
\* is about to stamp a reading has been shown everything, and a message about to be saved
\* is younger than every reading.
Foreign(u) == {m \in Live : messages[m].by # u}
Noticed == \A u \in User : Foreign(u) \subseteq shown[u] \cup Unread(u)
Showing(h) ==
    /\ h.at \in {"stampRead", "saveRead"} => Foreign(h.by) \subseteq shown[h.by]
    /\ h.at = "save" => \A u \in User : lastReadAt[u] < h.stamp

NoticedState == Noticed /\ \A r \in Request : Showing(req[r])

ShownInv == ~overlapped /\ failures = 0 /\ ~cut => NoticedState


LEMMA LiveCounted == ASSUME IInv PROVE IsFiniteSet(Live) /\ Cardinality(Live) \in Nat
<1>1. Len(messages) \in Nat /\ DOMAIN messages = 1..Len(messages)
  BY LenProperties DEF IInv, Documents
<1>2. PICK n \in Nat : DOMAIN messages = 1..n
  BY <1>1
<1>3. IsFiniteSet(1..n)
  BY <1>2, FS_Interval
<1>4. QED
  BY <1>2, <1>3, FS_Subset, FS_CardinalityType DEF Live

\* The handler that takes a step without overlapping another is the only one.
LEMMA OnlyOne ==
    ASSUME IInv, SettledState, ~overlapped, overlapped' = (overlapped \/ Overlap'), ~overlapped',
           NEW r \in Request, NEW h, Go(r, h), req[r] # Idle \/ h # Idle
    PROVE  /\ DOMAIN req' = Request /\ req'[r] = h
           /\ \A q \in Request : q # r => req[q] = Idle /\ req'[q] = Idle
<1>1. DOMAIN req = Request /\ req' = [req EXCEPT ![r] = h]
  BY DEF IInv, Go
<1>2. ASSUME NEW q \in Request, q # r, req[q] # Idle PROVE FALSE
  <2>1. req'[q] = req[q] /\ req'[r] = h
    BY <1>1, <1>2
  <2>2. req[r] = Idle
    BY <1>2 DEF SettledState, Alone
  <2>3. Overlap'
    BY <1>2, <2>1, <2>2 DEF Overlap, Idle
  <2>4. QED
    BY <2>3
<1>3. QED
  BY <1>1, <1>2

\* After a step of the only handler, what it finds is all there is to know.
LEMMA SettledOn ==
    ASSUME NEW r \in Request, NEW h, DOMAIN req' = Request, req'[r] = h,
           \A q \in Request : q # r => req'[q] = Idle,
           Consistent(h)', h = Idle => Settled' /\ (dissolved' => group'.deleted),
           group'.deleted => dissolved'
    PROVE  SettledState'
<1>1. Alone'
  BY DEF Alone, Idle
<1>2. \A q \in Request : Consistent(req[q])'
  <2>1. \A q \in Request : q # r => Consistent(req[q])'
    BY DEF Consistent, Idle
  <2>2. Consistent(req[r])'
    BY DEF Consistent
  <2>3. QED
    BY <2>1, <2>2
<1>3. AllIdle' => h = Idle
  BY DEF AllIdle, Idle
<1>4. QED
  BY <1>1, <1>2, <1>3 DEF SettledState

LEMMA NextSettled ==
    ASSUME IInv, SettledState, ~overlapped, overlapped' = (overlapped \/ Overlap'), ~overlapped',
           Next, failures' = 0
    PROVE  SettledState'
<1>0. /\ messages \in Seq(Message) /\ failures \in Nat /\ group \in [deleted : BOOLEAN, totalMessages : Nat]
      /\ IsFiniteSet(Live) /\ Cardinality(Live) \in Nat
      /\ \A r \in Request : req[r] \in Handler
  BY LiveCounted DEF IInv, Documents
<1>1. ASSUME NEW r \in Request, NEW h, Go(r, h), req[r] # Idle \/ h # Idle,
             Consistent(h)', h = Idle => Settled' /\ (dissolved' => group'.deleted),
             group'.deleted => dissolved'
      PROVE  SettledState'
  <2>1. /\ DOMAIN req' = Request /\ req'[r] = h
        /\ \A q \in Request : q # r => req'[q] = Idle
    BY <1>1, OnlyOne
  <2>2. QED
    BY <1>1, <2>1, SettledOn
<1>2. group.deleted => dissolved
  BY DEF SettledState
<1>3. ASSUME UNCHANGED <<group, dissolved, messages>>
      PROVE  (Settled' <=> Settled) /\ Live' = Live
  <2>1. Live' = Live
    BY <1>3 DEF Live
  <2>2. QED
    BY <1>3, <2>1 DEF Settled
<1>4. ASSUME NEW r \in Request, NEW h, h # Idle, h.at \in {"findGroup", "findMessage", "findPage", "stampRead", "deleteMembers"},
             Begin(r, h)
      PROVE  SettledState'
  <2>1. req[r] = Idle /\ Go(r, h) /\ ~dissolved /\ UNCHANGED <<group, dissolved, messages>>
    BY <1>4 DEF Begin
  <2>2. \A q \in Request : req[q] = Idle
    BY <1>4, <2>1, OnlyOne
  <2>3. Settled
    BY <2>2 DEF SettledState, AllIdle
  <2>4. Settled' /\ ~dissolved'
    BY <1>3, <2>1, <2>3
  <2>5. Consistent(h)'
    BY <1>4, <2>4 DEF Consistent
  <2>6. QED
    BY <1>1, <1>2, <1>4, <2>1, <2>5
<1>5. ASSUME NEW r \in Request, NEW u \in User,
             \/ BeginSend(r, u) \/ BeginList(r, u) \/ BeginMark(r, u) \/ BeginDissolve(r)
             \/ \E m \in DOMAIN messages : BeginDelete(r, u, m)
      PROVE  SettledState'
  <2>1. CASE BeginSend(r, u)
    <3>1. PICK h : h = [at |-> "findGroup", by |-> u]
      OBVIOUS
    <3>2. QED
      BY <1>4, <2>1, <3>1 DEF BeginSend, Idle
  <2>2. CASE BeginList(r, u)
    <3>1. PICK h : h = [at |-> "findPage", by |-> u]
      OBVIOUS
    <3>2. QED
      BY <1>4, <2>2, <3>1 DEF BeginList, Idle
  <2>3. CASE BeginMark(r, u)
    <3>1. PICK h : h = [at |-> "stampRead", by |-> u, page |-> {}]
      OBVIOUS
    <3>2. QED
      BY <1>4, <2>3, <3>1 DEF BeginMark, Idle
  <2>4. CASE BeginDissolve(r)
    <3>1. PICK h : h = [at |-> "deleteMembers"]
      OBVIOUS
    <3>2. QED
      BY <1>4, <2>4, <3>1 DEF BeginDissolve, Idle
  <2>5. ASSUME NEW m \in DOMAIN messages, BeginDelete(r, u, m) PROVE SettledState'
    <3>1. PICK h : h = [at |-> "findMessage", by |-> u, msg |-> m]
      OBVIOUS
    <3>2. QED
      BY <1>4, <2>5, <3>1 DEF BeginDelete, Idle
  <2>6. QED
    BY <1>5, <2>1, <2>2, <2>3, <2>4, <2>5
<1> DEFINE At0(r, place) == req[r].at = place /\ req[r] # Idle /\ Consistent(req[r])
<1>6. ASSUME NEW r \in Request, NEW place, place # "idle", At(r, place) PROVE At0(r, place)
  BY <1>6 DEF At, Idle, SettledState
\* A request that is answered while the documents rest.
<1>7. ASSUME NEW r \in Request, req[r] # Idle, Respond(r), UNCHANGED <<group, dissolved, messages>>, ~dissolved, Settled
      PROVE  SettledState'
  <2>1. Settled' /\ ~dissolved'
    BY <1>3, <1>7
  <2>2. Consistent(Idle)'
    BY DEF Consistent, Idle
  <2>3. Go(r, Idle) /\ (group'.deleted => dissolved')
    BY <1>2, <1>7 DEF Respond
  <2>4. QED
    BY <1>1, <1>7, <2>1, <2>2, <2>3
\* A request that goes on while the documents rest.
<1>8. ASSUME NEW r \in Request, NEW h, req[r] # Idle, Go(r, h), h # Idle, UNCHANGED <<group, dissolved, messages>>,
             Consistent(h)
      PROVE  SettledState'
  <2>1. Consistent(h)'
    BY <1>3, <1>8 DEF Consistent
  <2>2. QED
    BY <1>1, <1>2, <1>8, <2>1
<1>9. ASSUME NEW r \in Request, FindGroup(r) PROVE SettledState'
  <2>1. At0(r, "findGroup")
    BY <1>6, <1>9 DEF FindGroup
  <2>2. ~dissolved /\ Settled
    BY <2>1 DEF Consistent
  <2>3. CASE Respond(r)
    BY <1>7, <1>9, <2>1, <2>2, <2>3 DEF FindGroup
  <2>4. CASE ~Respond(r)
    <3>1. PICK h : h = [at |-> "upload", by |-> req[r].by, total |-> group.totalMessages]
      OBVIOUS
    <3>2. h.at = "upload" /\ h.total = group.totalMessages
      BY <3>1
    <3>3. Consistent(h) /\ h # Idle
      BY <2>2, <3>2 DEF Consistent, Idle
    <3>4. QED
      BY <1>8, <1>9, <2>1, <2>4, <3>1, <3>3 DEF FindGroup
  <2>5. QED
    BY <2>3, <2>4
<1>10. ASSUME NEW r \in Request, StampMessage(r) PROVE SettledState'
  <2>1. At0(r, "upload")
    BY <1>6, <1>10 DEF StampMessage
  <2>2. PICK h : h = [at |-> "save", by |-> req[r].by, total |-> req[r].total, stamp |-> now + 1]
    OBVIOUS
  <2>3. h.at = "save" /\ h.total = req[r].total
    BY <2>2
  <2>4. Consistent(h) /\ h # Idle
    BY <2>1, <2>3 DEF Consistent, Idle
  <2>5. QED
    BY <1>8, <1>10, <2>1, <2>2, <2>4 DEF StampMessage
<1>11. ASSUME NEW r \in Request, UploadFails(r) PROVE SettledState'
  <2>1. At0(r, "upload")
    BY <1>6, <1>11 DEF UploadFails
  <2>2. ~dissolved /\ Settled
    BY <2>1 DEF Consistent
  <2>3. QED
    BY <1>7, <1>11, <2>1, <2>2 DEF UploadFails
<1>12. ASSUME NEW r \in Request, SaveMessage(r) PROVE SettledState'
  <2>1. At0(r, "save")
    BY <1>6, <1>12 DEF SaveMessage
  <2>2. ~dissolved /\ Settled /\ req[r].total = group.totalMessages
    BY <2>1 DEF Consistent
  <2>3. group.totalMessages = Cardinality(Live)
    BY <1>2, <2>2 DEF Settled
  <2>4. PICK m : m = [by |-> req[r].by, createdAt |-> req[r].stamp, deleted |-> FALSE]
    OBVIOUS
  <2>5. m.deleted = FALSE /\ messages' = Append(messages, m) /\ Len(messages) \in Nat
    BY <1>0, <1>12, <2>4, LenProperties DEF SaveMessage
  <2>6. /\ DOMAIN messages = 1..Len(messages) /\ DOMAIN messages' = 1..(Len(messages) + 1)
        /\ messages'[Len(messages) + 1] = m /\ \A i \in 1..Len(messages) : messages'[i] = messages[i]
    BY <1>0, <2>5
  <2>7. Live' = Live \cup {Len(messages) + 1} /\ Len(messages) + 1 \notin Live
    BY <2>5, <2>6 DEF Live
  <2>8. Cardinality(Live') = Cardinality(Live) + 1
    BY <1>0, <2>7, FS_AddElement
  <2>9. PICK h : h = [at |-> "saveTotal", total |-> req[r].total + 1]
    OBVIOUS
  <2>10. h.at = "saveTotal" /\ h.total = Cardinality(Live')
    BY <2>2, <2>3, <2>8, <2>9
  <2>11. UNCHANGED <<group, dissolved>> /\ Go(r, h)
    BY <1>12, <2>9 DEF SaveMessage
  <2>12. Consistent(h)' /\ h # Idle
    BY <2>2, <2>10, <2>11 DEF Consistent, Idle
  <2>13. QED
    BY <1>1, <1>2, <2>11, <2>12
<1>13. ASSUME NEW r \in Request, SaveTotal(r) PROVE SettledState'
  <2>1. At0(r, "saveTotal")
    BY <1>6, <1>13 DEF SaveTotal
  <2>2. ~dissolved /\ req[r].total = Cardinality(Live) /\ ~group.deleted
    BY <1>2, <2>1 DEF Consistent
  <2>3. /\ Go(r, Idle) /\ group' = [group EXCEPT !.totalMessages = req[r].total]
        /\ UNCHANGED <<dissolved, messages>>
    BY <1>13 DEF SaveTotal, Respond
  <2>4. ~group'.deleted /\ group'.totalMessages = Cardinality(Live)
    BY <1>0, <2>2, <2>3
  <2>5. Live' = Live
    BY <2>3 DEF Live
  <2>6. Settled'
    BY <2>4, <2>5 DEF Settled
  <2>7. Consistent(Idle)'
    BY DEF Consistent, Idle
  <2>8. QED
    BY <1>1, <2>1, <2>2, <2>3, <2>4, <2>6, <2>7
<1>14. ASSUME NEW r \in Request, FindMessage(r) PROVE SettledState'
  <2>1. At0(r, "findMessage")
    BY <1>6, <1>14 DEF FindMessage
  <2>2. ~dissolved /\ Settled
    BY <2>1 DEF Consistent
  <2>3. CASE Respond(r)
    BY <1>7, <1>14, <2>1, <2>2, <2>3 DEF FindMessage
  <2>4. CASE ~Respond(r)
    <3>1. PICK h : h = [at |-> "softDelete", msg |-> req[r].msg]
      OBVIOUS
    <3>2. h.at = "softDelete" /\ h.msg = req[r].msg
      BY <3>1
    <3>3. Go(r, h) /\ req[r].msg \in Live /\ UNCHANGED <<group, dissolved, messages>>
      BY <1>14, <2>4, <3>1 DEF FindMessage
    <3>4. Consistent(h) /\ h # Idle
      BY <2>2, <3>2, <3>3 DEF Consistent, Idle
    <3>5. QED
      BY <1>8, <2>1, <3>3, <3>4
  <2>5. QED
    BY <2>3, <2>4
<1>15. ASSUME NEW r \in Request, SoftDeleteMessage(r) PROVE SettledState'
  <2>1. At0(r, "softDelete")
    BY <1>6, <1>15 DEF SoftDeleteMessage
  <2>2. ~dissolved /\ Settled /\ req[r].msg \in Live
    BY <2>1 DEF Consistent
  <2>3. PICK m \in Live : m = req[r].msg
    BY <2>2
  <2>4. /\ messages' = [messages EXCEPT ![m].deleted = TRUE]
        /\ UNCHANGED <<group, dissolved>> /\ Go(r, [at |-> "findCounted"])
    BY <1>15, <2>3 DEF SoftDeleteMessage
  <2>5. m \in DOMAIN messages /\ messages[m] \in Message
    BY <1>0, ElementOfSeq, LenProperties DEF Live
  <2>6. /\ DOMAIN messages' = DOMAIN messages /\ messages'[m].deleted = TRUE
        /\ \A i \in DOMAIN messages : i # m => messages'[i] = messages[i]
    BY <2>4, <2>5 DEF Message
  <2>7. Live' = Live \ {m}
    BY <2>6 DEF Live
  <2>8. Cardinality(Live') = Cardinality(Live) - 1
    BY <1>0, <2>7, FS_RemoveElement
  <2>9. group.totalMessages = Cardinality(Live)
    BY <1>2, <2>2 DEF Settled
  <2>10. group'.totalMessages = Cardinality(Live') + 1
    BY <1>0, <2>4, <2>8, <2>9
  <2>11. PICK h : h = [at |-> "findCounted"]
    OBVIOUS
  <2>12. Consistent(h)' /\ h # Idle
    BY <2>2, <2>4, <2>10, <2>11 DEF Consistent, Idle
  <2>13. QED
    BY <1>1, <1>2, <2>4, <2>11, <2>12
<1>16. ASSUME NEW r \in Request, FindCounted(r) PROVE SettledState'
  <2>1. At0(r, "findCounted")
    BY <1>6, <1>16 DEF FindCounted
  <2>2. ~dissolved /\ group.totalMessages = Cardinality(Live) + 1 /\ ~group.deleted
    BY <1>2, <2>1 DEF Consistent
  <2>3. group.totalMessages # 0
    BY <1>0, <2>2
  <2>4. PICK h : h = [at |-> "saveTotal", total |-> group.totalMessages - 1]
    OBVIOUS
  <2>5. h.at = "saveTotal" /\ h.total = Cardinality(Live)
    BY <1>0, <2>2, <2>4
  <2>6. Consistent(h) /\ h # Idle
    BY <2>2, <2>5 DEF Consistent, Idle
  <2>7. QED
    BY <1>8, <1>16, <2>1, <2>2, <2>3, <2>4, <2>6 DEF FindCounted
<1>17. ASSUME NEW r \in Request, FindPage(r) PROVE SettledState'
  <2>1. At0(r, "findPage")
    BY <1>6, <1>17 DEF FindPage
  <2>2. PICK page : Go(r, [at |-> "stampRead", by |-> req[r].by, page |-> page])
    BY <1>17 DEF FindPage
  <2>3. PICK h : h = [at |-> "stampRead", by |-> req[r].by, page |-> page]
    OBVIOUS
  <2>4. Consistent(h) /\ h # Idle
    BY <2>1, <2>3 DEF Consistent, Idle
  <2>5. QED
    BY <1>8, <1>17, <2>1, <2>2, <2>3, <2>4 DEF FindPage
<1>18. ASSUME NEW r \in Request, StampRead(r) PROVE SettledState'
  <2>1. At0(r, "stampRead")
    BY <1>6, <1>18 DEF StampRead
  <2>2. PICK h : h = [at |-> "saveRead", by |-> req[r].by, stamp |-> now]
    OBVIOUS
  <2>3. Consistent(h) /\ h # Idle
    BY <2>1, <2>2 DEF Consistent, Idle
  <2>4. QED
    BY <1>8, <1>18, <2>1, <2>2, <2>3 DEF StampRead
<1>19. ASSUME NEW r \in Request, SaveRead(r) PROVE SettledState'
  <2>1. At0(r, "saveRead")
    BY <1>6, <1>19 DEF SaveRead
  <2>2. ~dissolved /\ Settled
    BY <2>1 DEF Consistent
  <2>3. QED
    BY <1>7, <1>19, <2>1, <2>2 DEF SaveRead
<1>20. ASSUME NEW r \in Request, DeleteMembers(r) PROVE SettledState'
  <2>1. At0(r, "deleteMembers")
    BY <1>6, <1>20 DEF DeleteMembers
  <2>2. dissolved' = TRUE /\ Go(r, [at |-> "deleteMessages"])
    BY <1>20 DEF DeleteMembers
  <2>3. PICK h : h = [at |-> "deleteMessages"]
    OBVIOUS
  <2>4. Consistent(h)' /\ h # Idle
    BY <2>2, <2>3 DEF Consistent, Idle
  <2>5. QED
    BY <1>1, <2>2, <2>3, <2>4
<1>21. ASSUME NEW r \in Request, DeleteMessages(r) PROVE SettledState'
  <2>1. At0(r, "deleteMessages")
    BY <1>6, <1>21 DEF DeleteMessages
  <2>2. dissolved /\ UNCHANGED <<group, dissolved>> /\ Go(r, [at |-> "deleteGroup"])
    BY <1>21, <2>1 DEF DeleteMessages, Consistent
  <2>3. \A m \in DOMAIN messages : messages[m] \in Message
    BY <1>0, ElementOfSeq, LenProperties
  <2>4. messages' = [m \in DOMAIN messages |-> [messages[m] EXCEPT !.deleted = TRUE]]
    BY <1>21 DEF DeleteMessages
  <2>5. \A m \in DOMAIN messages' : messages'[m].deleted = TRUE
    BY <2>3, <2>4 DEF Message
  <2>6. Live' = {}
    BY <2>5 DEF Live
  <2>7. PICK h : h = [at |-> "deleteGroup"]
    OBVIOUS
  <2>8. Consistent(h)' /\ h # Idle
    BY <2>2, <2>6, <2>7 DEF Consistent, Idle
  <2>9. QED
    BY <1>1, <2>2, <2>7, <2>8
<1>22. ASSUME NEW r \in Request, DeleteGroup(r) PROVE SettledState'
  <2>1. At0(r, "deleteGroup")
    BY <1>6, <1>22 DEF DeleteGroup
  <2>2. dissolved /\ Live = {} /\ Go(r, Idle) /\ group' = [group EXCEPT !.deleted = TRUE] /\ UNCHANGED <<dissolved, messages>>
    BY <1>22, <2>1 DEF DeleteGroup, Consistent, Respond
  <2>3. group'.deleted /\ Live' = {}
    BY <1>0, <2>2 DEF Live
  <2>4. Settled' /\ Consistent(Idle)'
    BY <2>3 DEF Settled, Consistent, Idle
  <2>5. QED
    BY <1>1, <2>1, <2>2, <2>3, <2>4
<1>23. ASSUME NEW r \in Request, Fail(r) PROVE FALSE
  BY <1>0, <1>23 DEF Fail
<1>24. ASSUME NEW r \in Request, BeginDissolve(r) PROVE SettledState'
  <2>1. Owner \in User
    OBVIOUS
  <2>2. QED
    BY <1>5, <1>24, <2>1
<1>25. QED
  BY <1>5, <1>9, <1>10, <1>11, <1>12, <1>13, <1>14, <1>15, <1>16, <1>17, <1>18, <1>19, <1>20, <1>21, <1>22,
     <1>23, <1>24 DEF Next


\* A step that leaves the messages and the readings alone.
LEMMA NoticedRests ==
    ASSUME Noticed, UNCHANGED <<messages, lastReadAt>>, \A u \in User : shown[u] \subseteq shown'[u]
    PROVE  Noticed' /\ \A u : Foreign(u)' = Foreign(u)
<1>1. Live' = Live
  BY DEF Live
<1>2. \A u : Foreign(u)' = Foreign(u)
  BY <1>1 DEF Foreign
<1>3. \A u \in User : Unread(u)' = Unread(u)
  BY <1>1 DEF Unread
<1>4. QED
  BY <1>2, <1>3 DEF Noticed

LEMMA NextNoticed ==
    ASSUME IInv, SettledState, NoticedState, ~overlapped, ~cut, Next,
           overlapped' = (overlapped \/ Overlap'), ~overlapped', failures' = 0,
           shown' = [u \in User |-> shown[u] \cup Received(u)' \cup Declared(u)],
           \A r \in Request : FindPage(r) => Live \subseteq req'[r].page
    PROVE  NoticedState'
<1>0. /\ messages \in Seq(Message) /\ failures \in Nat /\ now \in Nat
      /\ lastReadAt \in [User -> 0..now] /\ \A r \in Request : req[r] \in Handler
  BY DEF IInv, Documents
<1>1. \A u \in User : shown[u] \subseteq shown'[u]
  OBVIOUS
<1>2. ASSUME NEW r \in Request, NEW h, Go(r, h), req[r] # Idle \/ h # Idle, Showing(h)', Noticed'
      PROVE  NoticedState'
  <2>1. /\ req'[r] = h /\ \A q \in Request : q # r => req'[q] = Idle
    BY <1>2, OnlyOne
  <2>2. \A q \in Request : q # r => Showing(req[q])'
    BY <2>1 DEF Showing, Idle
  <2>3. Showing(req[r])'
    BY <1>2, <2>1 DEF Showing
  <2>4. QED
    BY <1>2, <2>2, <2>3 DEF NoticedState
\* A step of a handler that is neither reading nor about to save.
<1>3. ASSUME NEW r \in Request, NEW h, Go(r, h), req[r] # Idle \/ h # Idle,
             h.at \notin {"stampRead", "saveRead", "save"}, Noticed'
      PROVE  NoticedState'
  <2>1. Showing(h)'
    BY <1>3 DEF Showing
  <2>2. QED
    BY <1>2, <1>3, <2>1
<1>4. UNCHANGED <<messages, lastReadAt>> => Noticed' /\ \A u : Foreign(u)' = Foreign(u)
  BY <1>1, NoticedRests DEF NoticedState
<1>5. ASSUME NEW r \in Request, NEW h, Begin(r, h), h # Idle, h.at \in {"findGroup", "findMessage", "findPage", "deleteMembers"}
      PROVE  NoticedState'
  BY <1>3, <1>4, <1>5 DEF Begin
<1>6. ASSUME NEW r \in Request, NEW u \in User, BeginSend(r, u) PROVE NoticedState'
  <2>1. PICK h : h = [at |-> "findGroup", by |-> u]
    OBVIOUS
  <2>2. QED
    BY <1>5, <1>6, <2>1 DEF BeginSend, Idle
<1>7. ASSUME NEW r \in Request, NEW u \in User, BeginList(r, u) PROVE NoticedState'
  <2>1. PICK h : h = [at |-> "findPage", by |-> u]
    OBVIOUS
  <2>2. QED
    BY <1>5, <1>7, <2>1 DEF BeginList, Idle
<1>8. ASSUME NEW r \in Request, BeginDissolve(r) PROVE NoticedState'
  <2>1. PICK h : h = [at |-> "deleteMembers"]
    OBVIOUS
  <2>2. QED
    BY <1>5, <1>8, <2>1 DEF BeginDissolve, Idle
<1>9. ASSUME NEW r \in Request, NEW u \in User, NEW m \in DOMAIN messages, BeginDelete(r, u, m) PROVE NoticedState'
  <2>1. PICK h : h = [at |-> "findMessage", by |-> u, msg |-> m]
    OBVIOUS
  <2>2. QED
    BY <1>5, <1>9, <2>1 DEF BeginDelete, Idle
<1>10. ASSUME NEW r \in Request, NEW u \in User, BeginMark(r, u) PROVE NoticedState'
  <2>1. PICK h : h = [at |-> "stampRead", by |-> u, page |-> {}]
    OBVIOUS
  <2>2. h.at = "stampRead" /\ h.by = u /\ h # Idle
    BY <2>1 DEF Idle
  <2>3. Go(r, h) /\ UNCHANGED <<messages, lastReadAt>>
    BY <1>10, <2>1 DEF BeginMark, Begin
  <2>4. Noticed' /\ Foreign(u)' = Foreign(u)
    BY <1>4, <2>3
  <2>5. DOMAIN messages \subseteq shown'[u]
    BY <1>10 DEF Declared
  <2>6. Foreign(u)' \subseteq shown'[u]
    BY <2>4, <2>5 DEF Foreign, Live
  <2>7. Showing(h)'
    BY <2>2, <2>6 DEF Showing
  <2>8. QED
    BY <1>2, <2>2, <2>3, <2>4, <2>7
\* Answers, and steps of handlers that are neither reading nor about to save.
<1>11. ASSUME NEW r \in Request, req[r] # Idle, Respond(r), UNCHANGED <<messages, lastReadAt>> PROVE NoticedState'
  <2>1. PICK h : h = Idle
    OBVIOUS
  <2>2. h.at = "idle" /\ Go(r, h)
    BY <1>11, <2>1 DEF Idle, Respond
  <2>3. QED
    BY <1>3, <1>4, <1>11, <2>2
<1>12. ASSUME NEW r \in Request, FindGroup(r) PROVE NoticedState'
  <2>1. req[r] # Idle /\ UNCHANGED <<messages, lastReadAt>>
    BY <1>12 DEF FindGroup, At, Idle
  <2>2. PICK h : h = [at |-> "upload", by |-> req[r].by, total |-> group.totalMessages]
    OBVIOUS
  <2>3. Respond(r) \/ Go(r, h)
    BY <1>12, <2>2 DEF FindGroup
  <2>4. QED
    BY <1>3, <1>4, <1>11, <2>1, <2>2, <2>3
<1>13. ASSUME NEW r \in Request, StampMessage(r) PROVE NoticedState'
  <2>1. req[r] # Idle /\ UNCHANGED <<messages, lastReadAt>>
    BY <1>13 DEF StampMessage, At, Idle
  <2>2. PICK h : h = [at |-> "save", by |-> req[r].by, total |-> req[r].total, stamp |-> now + 1]
    OBVIOUS
  <2>3. h.at = "save" /\ h.stamp = now + 1 /\ Go(r, h)
    BY <1>13, <2>2 DEF StampMessage
  <2>4. \A u \in User : lastReadAt'[u] < now + 1
    BY <1>0, <2>1
  <2>5. Showing(h)'
    BY <2>3, <2>4 DEF Showing
  <2>6. QED
    BY <1>2, <1>4, <2>1, <2>3, <2>5
<1>14. ASSUME NEW r \in Request, UploadFails(r) PROVE NoticedState'
  BY <1>11, <1>14 DEF UploadFails, At, Idle
<1>15. ASSUME NEW r \in Request, SaveMessage(r) PROVE NoticedState'
  <2>1. req[r] # Idle /\ req[r].at = "save" /\ UNCHANGED lastReadAt
    BY <1>15 DEF SaveMessage, At, Idle
  <2>2. PICK m : m = [by |-> req[r].by, createdAt |-> req[r].stamp, deleted |-> FALSE]
    OBVIOUS
  <2>3. m.createdAt = req[r].stamp /\ messages' = Append(messages, m) /\ Len(messages) \in Nat
    BY <1>0, <1>15, <2>2, LenProperties DEF SaveMessage
  <2>4. /\ DOMAIN messages = 1..Len(messages) /\ DOMAIN messages' = 1..(Len(messages) + 1)
        /\ messages'[Len(messages) + 1] = m /\ \A i \in 1..Len(messages) : messages'[i] = messages[i]
    BY <1>0, <2>3
  <2>5. \A u \in User : lastReadAt[u] < m.createdAt
    BY <2>1, <2>3 DEF NoticedState, Showing
  <2>6. \A u \in User : m.createdAt > lastReadAt[u]
    <3>1. m.createdAt \in 0..now
      BY <1>0, <2>1, <2>3, HandlerKnows
    <3>2. QED
      BY <1>0, <2>5, <3>1
  <2>7. ASSUME NEW u \in User, NEW i, i \in Foreign(u)' PROVE i \in shown'[u] \cup Unread(u)'
    <3>1. CASE i = Len(messages) + 1
      <4>1. i \in Unread(u)'
        BY <2>1, <2>4, <2>6, <2>7, <3>1 DEF Foreign, Unread
      <4>2. QED
        BY <4>1
    <3>2. CASE i # Len(messages) + 1
      <4>1. i \in DOMAIN messages /\ messages'[i] = messages[i]
        BY <2>4, <2>7, <3>2 DEF Foreign, Live
      <4>2. i \in Foreign(u)
        BY <2>7, <4>1 DEF Foreign, Live
      <4>3. i \in shown[u] \cup Unread(u)
        BY <4>2 DEF NoticedState, Noticed
      <4>4. i \in Unread(u) => i \in Unread(u)'
        BY <2>1, <2>7, <4>1 DEF Unread, Foreign, Live
      <4>5. QED
        BY <1>1, <4>3, <4>4
    <3>3. QED
      BY <3>1, <3>2
  <2>8. Noticed'
    BY <2>7 DEF Noticed
  <2>9. PICK h : h = [at |-> "saveTotal", total |-> req[r].total + 1]
    OBVIOUS
  <2>10. Go(r, h)
    BY <1>15, <2>9 DEF SaveMessage
  <2>11. QED
    BY <1>3, <2>1, <2>8, <2>9, <2>10
<1>16. ASSUME NEW r \in Request, SaveTotal(r) PROVE NoticedState'
  BY <1>11, <1>16 DEF SaveTotal, At, Idle
<1>17. ASSUME NEW r \in Request, FindMessage(r) PROVE NoticedState'
  <2>1. req[r] # Idle /\ UNCHANGED <<messages, lastReadAt>>
    BY <1>17 DEF FindMessage, At, Idle
  <2>2. PICK h : h = [at |-> "softDelete", msg |-> req[r].msg]
    OBVIOUS
  <2>3. Respond(r) \/ Go(r, h)
    BY <1>17, <2>2 DEF FindMessage
  <2>4. QED
    BY <1>3, <1>4, <1>11, <2>1, <2>2, <2>3
\* Messages that are deleted leave fewer to notice.
<1>18. ASSUME UNCHANGED lastReadAt, DOMAIN messages' = DOMAIN messages,
              \A m \in DOMAIN messages : /\ messages'[m].by = messages[m].by
                                         /\ messages'[m].createdAt = messages[m].createdAt
                                         /\ messages[m].deleted => messages'[m].deleted
       PROVE  Noticed'
  <2>1. ASSUME NEW u \in User, NEW i, i \in Foreign(u)' PROVE i \in shown'[u] \cup Unread(u)'
    <3>1. i \in DOMAIN messages
      BY <1>18, <2>1 DEF Foreign, Live
    <3>2. i \in Foreign(u)
      BY <1>18, <2>1, <3>1 DEF Foreign, Live
    <3>3. i \in shown[u] \cup Unread(u)
      BY <3>2 DEF NoticedState, Noticed
    <3>4. i \in Unread(u) => i \in Unread(u)'
      BY <1>18, <2>1, <3>1 DEF Unread, Foreign
    <3>5. QED
      BY <1>1, <3>3, <3>4
  <2>2. QED
    BY <2>1 DEF Noticed
<1>19. ASSUME NEW r \in Request, SoftDeleteMessage(r) PROVE NoticedState'
  <2>1. req[r] # Idle /\ UNCHANGED lastReadAt /\ req[r].at = "softDelete"
    BY <1>19 DEF SoftDeleteMessage, At, Idle
  <2>2. PICK m \in DOMAIN messages : m = req[r].msg
    BY <1>0, <2>1, HandlerKnows
  <2>3. messages' = [messages EXCEPT ![m].deleted = TRUE]
    BY <1>19, <2>2 DEF SoftDeleteMessage
  <2>4. \A i \in DOMAIN messages : messages[i] \in Message
    BY <1>0, ElementOfSeq, LenProperties
  <2>5. /\ DOMAIN messages' = DOMAIN messages
        /\ \A i \in DOMAIN messages : /\ messages'[i].by = messages[i].by
                                      /\ messages'[i].createdAt = messages[i].createdAt
                                      /\ messages[i].deleted => messages'[i].deleted
    BY <2>3, <2>4 DEF Message
  <2>6. Noticed'
    BY <1>18, <2>1, <2>5
  <2>7. PICK h : h = [at |-> "findCounted"]
    OBVIOUS
  <2>8. Go(r, h)
    BY <1>19, <2>7 DEF SoftDeleteMessage
  <2>9. QED
    BY <1>3, <2>1, <2>6, <2>7, <2>8
<1>20. ASSUME NEW r \in Request, FindCounted(r) PROVE NoticedState'
  <2>1. req[r] # Idle /\ UNCHANGED <<messages, lastReadAt>>
    BY <1>20 DEF FindCounted, At, Idle
  <2>2. PICK h : h = [at |-> "saveTotal", total |-> group.totalMessages - 1]
    OBVIOUS
  <2>3. Respond(r) \/ Go(r, h)
    BY <1>20, <2>2 DEF FindCounted
  <2>4. QED
    BY <1>3, <1>4, <1>11, <2>1, <2>2, <2>3
<1>21. ASSUME NEW r \in Request, FindPage(r) PROVE NoticedState'
  <2>1. req[r] # Idle /\ req[r].at = "findPage" /\ UNCHANGED <<messages, lastReadAt>>
    BY <1>21 DEF FindPage, At, Idle
  <2>2. PICK u \in User : u = req[r].by
    BY <1>0, <2>1, HandlerKnows
  <2>3. PICK page : Go(r, [at |-> "stampRead", by |-> req[r].by, page |-> page])
    BY <1>21 DEF FindPage
  <2>4. PICK h : h = [at |-> "stampRead", by |-> u, page |-> page]
    OBVIOUS
  <2>5. h.at = "stampRead" /\ h.by = u /\ h.page = page /\ h # Idle /\ Go(r, h)
    BY <1>21, <2>2, <2>3, <2>4 DEF FindPage, Idle
  <2>6. req'[r] = h
    BY <2>5, OnlyOne
  <2>7. Live \subseteq page
    BY <1>21, <2>5, <2>6
  <2>8. page \subseteq Received(u)'
    BY <2>5, <2>6 DEF Received, At
  <2>9. Noticed' /\ Foreign(u)' = Foreign(u)
    BY <1>4, <2>1
  <2>10. Foreign(u)' \subseteq shown'[u]
    BY <2>7, <2>8, <2>9 DEF Foreign
  <2>11. Showing(h)'
    BY <2>5, <2>10 DEF Showing
  <2>12. QED
    BY <1>2, <2>1, <2>5, <2>9, <2>11
<1>22. ASSUME NEW r \in Request, StampRead(r) PROVE NoticedState'
  <2>1. req[r] # Idle /\ req[r].at = "stampRead" /\ UNCHANGED <<messages, lastReadAt>>
    BY <1>22 DEF StampRead, At, Idle
  <2>2. PICK u \in User : u = req[r].by
    BY <1>0, <2>1, HandlerKnows
  <2>3. PICK h : h = [at |-> "saveRead", by |-> u, stamp |-> now]
    OBVIOUS
  <2>4. h.at = "saveRead" /\ h.by = u /\ h # Idle /\ Go(r, h)
    BY <1>22, <2>2, <2>3 DEF StampRead, Idle
  <2>5. Foreign(u) \subseteq shown[u]
    BY <2>1, <2>2 DEF NoticedState, Showing
  <2>6. Noticed' /\ Foreign(u)' \subseteq shown'[u]
    BY <1>1, <1>4, <2>1, <2>5
  <2>7. Showing(h)'
    BY <2>4, <2>6 DEF Showing
  <2>8. QED
    BY <1>2, <2>1, <2>4, <2>6, <2>7
<1>23. ASSUME NEW r \in Request, SaveRead(r) PROVE NoticedState'
  <2>1. req[r] # Idle /\ req[r].at = "saveRead" /\ UNCHANGED messages /\ Respond(r)
    BY <1>23 DEF SaveRead, At, Idle
  <2>2. PICK v \in User : v = req[r].by
    BY <1>0, <2>1, HandlerKnows
  <2>3. \A u \in User : u # v => lastReadAt'[u] = lastReadAt[u]
    BY <1>0, <1>23, <2>2 DEF SaveRead
  <2>4. Live' = Live /\ \A u : Foreign(u)' = Foreign(u)
    BY <2>1 DEF Live, Foreign
  <2>5. Foreign(v) \subseteq shown[v]
    BY <2>1, <2>2 DEF NoticedState, Showing
  <2>6. ASSUME NEW u \in User PROVE Foreign(u)' \subseteq shown'[u] \cup Unread(u)'
    <3>1. CASE u = v
      BY <1>1, <2>4, <2>5, <3>1
    <3>2. CASE u # v
      <4>1. Unread(u)' = Unread(u)
        BY <2>1, <2>3, <2>4, <3>2 DEF Unread
      <4>2. QED
        BY <1>1, <2>4, <4>1 DEF NoticedState, Noticed
    <3>3. QED
      BY <3>1, <3>2
  <2>7. Noticed'
    BY <2>6 DEF Noticed
  <2>8. PICK h : h = Idle
    OBVIOUS
  <2>9. h.at = "idle" /\ Go(r, h)
    BY <2>1, <2>8 DEF Idle, Respond
  <2>10. QED
    BY <1>3, <2>1, <2>7, <2>9
<1>24. ASSUME NEW r \in Request, DeleteMembers(r) PROVE NoticedState'
  <2>1. PICK h : h = [at |-> "deleteMessages"]
    OBVIOUS
  <2>2. Go(r, h) /\ req[r] # Idle /\ UNCHANGED <<messages, lastReadAt>>
    BY <1>24, <2>1 DEF DeleteMembers, At, Idle
  <2>3. QED
    BY <1>3, <1>4, <2>1, <2>2
<1>25. ASSUME NEW r \in Request, DeleteMessages(r) PROVE NoticedState'
  <2>1. \A i \in DOMAIN messages : messages[i] \in Message
    BY <1>0, ElementOfSeq, LenProperties
  <2>2. messages' = [m \in DOMAIN messages |-> [messages[m] EXCEPT !.deleted = TRUE]] /\ UNCHANGED lastReadAt
    BY <1>25 DEF DeleteMessages
  <2>3. /\ DOMAIN messages' = DOMAIN messages
        /\ \A i \in DOMAIN messages : /\ messages'[i].by = messages[i].by
                                      /\ messages'[i].createdAt = messages[i].createdAt
                                      /\ messages[i].deleted => messages'[i].deleted
    BY <2>1, <2>2 DEF Message
  <2>4. Noticed'
    BY <1>18, <2>2, <2>3
  <2>5. PICK h : h = [at |-> "deleteGroup"]
    OBVIOUS
  <2>6. Go(r, h) /\ req[r] # Idle
    BY <1>25, <2>5 DEF DeleteMessages, At, Idle
  <2>7. QED
    BY <1>3, <2>4, <2>5, <2>6
<1>26. ASSUME NEW r \in Request, DeleteGroup(r) PROVE NoticedState'
  BY <1>11, <1>26 DEF DeleteGroup, At, Idle
<1>27. ASSUME NEW r \in Request, Fail(r) PROVE FALSE
  BY <1>0, <1>27 DEF Fail
<1>28. QED
  BY <1>6, <1>7, <1>8, <1>9, <1>10, <1>12, <1>13, <1>14, <1>15, <1>16, <1>17, <1>19, <1>20, <1>21, <1>22, <1>23,
     <1>24, <1>25, <1>26, <1>27 DEF Next

-----------------------------------------------------------------------------
MessagesInv == IInv /\ SettleInv /\ ShownInv

LEMMA InitMessagesInv == ASSUME MCInit PROVE MessagesInv
<1>1. IInv
  BY InitIInv DEF MCInit
<1>2. Live = {}
  BY DEF MCInit, Init, Live
<1>3. SettledState
  <2>1. Cardinality({}) = 0
    BY FS_EmptySet
  <2>2. Settled
    BY <1>2, <2>1 DEF MCInit, Init, Settled
  <2>3. Alone /\ \A r \in Request : Consistent(req[r])
    BY DEF MCInit, Init, Alone, Consistent, Idle
  <2>4. QED
    BY <2>2, <2>3 DEF SettledState, MCInit, Init
<1>4. NoticedState
  BY <1>2 DEF NoticedState, Noticed, Showing, Foreign, MCInit, Init, Idle
<1>5. QED
  BY <1>1, <1>3, <1>4 DEF MessagesInv, SettleInv, ShownInv

LEMMA NextMessagesInv == ASSUME MessagesInv, [MCNext]_mcVars PROVE MessagesInv'
<1>1. CASE MessageStep
  <2>1. Next /\ overlapped' = (overlapped \/ Overlap') /\ IInv /\ failures \in Nat
    BY <1>1 DEF MessageStep, MessagesInv, IInv, Documents
  <2>2. IInv'
    BY <2>1, NextIInv
  <2>3. failures' = 0 => failures = 0
    <3>1. failures' = failures \/ failures' = failures + 1
      BY <2>1 DEF Next, BeginSend, BeginList, BeginMark, BeginDelete, BeginDissolve, Begin, FindGroup, StampMessage,
         UploadFails, SaveMessage, SaveTotal, FindMessage, SoftDeleteMessage, FindCounted, FindPage, StampRead,
         SaveRead, DeleteMembers, DeleteMessages, DeleteGroup, Fail
    <3>2. QED
      BY <2>1, <3>1
  <2>4. SettleInv'
    <3>1. SUFFICES ASSUME ~overlapped', failures' = 0 PROVE SettledState'
      BY DEF SettleInv
    <3>2. ~overlapped /\ SettledState
      BY <2>1, <2>3, <3>1 DEF MessagesInv, SettleInv
    <3>3. QED
      BY <2>1, <3>1, <3>2, NextSettled
  <2>5. ShownInv'
    <3>1. SUFFICES ASSUME ~overlapped', failures' = 0, ~cut' PROVE NoticedState'
      BY DEF ShownInv
    <3>2. ~overlapped /\ SettledState
      BY <2>1, <2>3, <3>1 DEF MessagesInv, SettleInv
    <3>3. ~cut /\ \A r \in Request : FindPage(r) => Live \subseteq req'[r].page
      BY <1>1, <3>1 DEF MessageStep
    <3>4. NoticedState
      BY <2>3, <3>1, <3>2, <3>3 DEF MessagesInv, ShownInv
    <3>5. shown' = [u \in User |-> shown[u] \cup Received(u)' \cup Declared(u)]
      BY <1>1, <3>1 DEF MessageStep
    <3>6. QED
      BY <2>1, <3>1, <3>2, <3>3, <3>4, <3>5, NextNoticed
  <2>6. QED
    BY <2>2, <2>4, <2>5 DEF MessagesInv
<1>2. CASE UNCHANGED messageVars
  <2>1. IInv'
    BY <1>2, NextIInv DEF MessagesInv, messageVars
  <2> USE <1>2 DEF messageVars, vars
  <2>2. Live' = Live /\ (Settled' <=> Settled)
    BY DEF Live, Settled
  <2>3. SettleInv'
    BY <2>2 DEF MessagesInv, SettleInv, SettledState, Alone, AllIdle, Consistent
  <2>4. \A u : Foreign(u)' = Foreign(u) /\ Unread(u)' = Unread(u)
    BY <2>2 DEF Foreign, Unread
  <2>5. ShownInv'
    BY <2>2, <2>4 DEF MessagesInv, ShownInv, NoticedState, Noticed, Showing
  <2>6. QED
    BY <2>1, <2>3, <2>5 DEF MessagesInv
<1>3. QED
  BY <1>1, <1>2 DEF MCNext, mcVars, StoreStep

\* Requests that do not overlap and do not die leave the stored count at the number of
\* messages that can be found, and a dissolved group without messages
\* (groupMessage.controllers.js, sendGroupMessage and deleteGroupMessage;
\* group.controllers.js, deleteGroup).
THEOREM MessagesAlwaysSettle == MCSpec => []MessagesSettle
<1>1. MCInit => MessagesInv
  BY InitMessagesInv
<1>2. MessagesInv /\ [MCNext]_mcVars => MessagesInv'
  BY NextMessagesInv
<1>3. MessagesInv => MessagesSettle
  BY DEF MessagesInv, SettleInv, SettledState, Settled, MessagesSettle, Quiet
<1>4. QED
  BY <1>1, <1>2, <1>3, PTL DEF MCSpec

\* Every message of somebody else is one the member was sent, declared read, or still
\* finds counted as unread, although a reading is stamped after the page was read
\* (getGroupMessages, markGroupMessagesAsRead, getUnreadGroupMessageCount); as long as
\* no two requests overlapped, no handler died and no page left out a live message.
THEOREM UnreadAlwaysOrShown == MCSpec => []UnreadOrShown
<1>1. MCInit => MessagesInv
  BY InitMessagesInv
<1>2. MessagesInv /\ [MCNext]_mcVars => MessagesInv'
  BY NextMessagesInv
<1>3. MessagesInv => UnreadOrShown
  BY DEF MessagesInv, ShownInv, NoticedState, Noticed, Foreign, UnreadOrShown, Quiet
<1>4. QED
  BY <1>1, <1>2, <1>3, PTL DEF MCSpec

-----------------------------------------------------------------------------
(* The rooms of a tab. *)

StoreMessage == [in : Group, mine : BOOLEAN, deleted : BOOLEAN]
Change == [join : Group] \cup [leave : Group]
RoomEvent == [event : {"newGroupMessage", "groupMessageDeleted"}, in : Group, row : Nat]

Row == DOMAIN stored \cup {Store!Null}
RowsFit(rows) == rows \in Seq(Row)

\* What a request asks for and what its answer puts on the screen are in their domains.
Holds(q) ==
    /\ q.at \in {"idle", "sent", "answered"}
    /\ q.at = "idle" => q = Store!Idle
    /\ q.at = "sent" => q.kind \in {"get", "send", "delete"} /\ q.in \in Group
    /\ q.at = "answered" => q.kind \in {"get", "send", "delete", "refused"}
    /\ q.at = "answered" /\ q.kind = "get" => RowsFit(q.page)
    /\ q.at \in {"sent", "answered"} /\ q.kind = "send" => RowsFit(q.captured)
    /\ q.at = "answered" /\ q.kind = "send" => q.row \in Row

TabTyped ==
    /\ stored \in Seq(StoreMessage)
    /\ unsent \cup undone \subseteq DOMAIN stored
    /\ UNION {member, room, joining} \subseteq Group
    /\ selectedGroup \in Group \cup {Store!NoGroup}
    /\ listeners \in {0, 1} /\ (selectedGroup = Store!NoGroup => listeners = 0)
    /\ faults \in 0..MaxFaults

InboxFits == inbox \in Seq(RoomEvent) /\ \A i \in DOMAIN inbox : inbox[i].row \in Row
RequestsFit == DOMAIN asked = Slot /\ \A s \in Slot : Holds(asked[s])

Joins(i, g)  == uplink[i] = [join |-> g]
Leaves(i, g) == uplink[i] = [leave |-> g]

\* Every leave of the open group on its way to the server is followed by a join, and
\* the socket is in the room unless a join is under way or being looked up.
Heading(g) ==
    /\ \A i \in DOMAIN uplink : Leaves(i, g) => \E j \in DOMAIN uplink : j > i /\ Joins(j, g)
    /\ g \in room \cup joining \/ \E j \in DOMAIN uplink : Joins(j, g)
RoomsInv ==
    /\ uplink \in Seq(Change)
    /\ Store!Shown /\ selectedGroup \in member => Heading(selectedGroup)

TabInv == TabTyped /\ InboxFits /\ RequestsFit /\ RowsFit(groupMessages) /\ RoomsInv

\* A finite set of numbers can be put in ascending order: a number's place is how many
\* there are up to it.
LEMMA AscendingExists ==
    ASSUME NEW S \in SUBSET Nat, IsFiniteSet(S)
    PROVE  \E ids \in Injection(1..Cardinality(S), S) :
              \A i, j \in 1..Cardinality(S) : i < j => ids[i] < ids[j]
<1> DEFINE n == Cardinality(S)
           Upto(m) == {x \in S : x <= m}
           place == [m \in S |-> Cardinality(Upto(m))]
<1>0. \A m \in S : m \in Nat
  OBVIOUS
<1>1. n \in Nat /\ IsFiniteSet(1..n) /\ Cardinality(1..n) = n
  <2>1. n \in Nat
    BY FS_CardinalityType
  <2>2. QED
    BY <2>1, FS_Interval
<1>2. \A m \in S : IsFiniteSet(Upto(m)) /\ Cardinality(Upto(m)) \in Nat /\ Cardinality(Upto(m)) <= n
  BY FS_Subset, FS_CardinalityType
<1>3. \A m \in S : Cardinality(Upto(m)) # 0
  <2>1. ASSUME NEW m \in S PROVE Cardinality(Upto(m)) # 0
    <3>1. m \in Upto(m)
      OBVIOUS
    <3>2. QED
      BY <1>2, <3>1, FS_EmptySet
  <2>2. QED
    BY <2>1
<1>4. \A m, k \in S : m < k => Cardinality(Upto(m)) < Cardinality(Upto(k))
  <2>1. ASSUME NEW m \in S, NEW k \in S, m < k PROVE Cardinality(Upto(m)) < Cardinality(Upto(k))
    <3>1. Upto(m) \subseteq Upto(k) /\ k \in Upto(k) /\ k \notin Upto(m)
      <4>1. m \in Nat /\ k \in Nat /\ ~(k <= m) /\ k <= k
        BY <1>0, <2>1
      <4>2. \A x \in S : x <= m => x <= k
        BY <1>0, <2>1
      <4>3. QED
        BY <4>1, <4>2
    <3>2. QED
      BY <1>2, <3>1, FS_Subset
  <2>2. QED
    BY <2>1
<1>5. place \in [S -> 1..n] /\ \A m, k \in S : m < k => place[m] < place[k]
  BY <1>1, <1>2, <1>3, <1>4
<1> HIDE DEF place, n
<1>6. place \in Injection(S, 1..n)
  <2>1. \A m, k \in S : place[m] = place[k] => m = k
    <3>1. ASSUME NEW m \in S, NEW k \in S, place[m] = place[k] PROVE m = k
      <4>1. place[m] \in Nat /\ m \in Nat /\ k \in Nat
        BY <1>1, <1>5
      <4>2. QED
        BY <3>1, <4>1, <1>5
    <3>2. QED
      BY <3>1
  <2>2. QED
    BY <1>5, <2>1 DEF Injection, IsInjective
<1>7. place \in Surjection(S, 1..n)
  BY <1>1, <1>6, FS_Injection DEF n
<1>8. \A i \in 1..n : \E m \in S : place[m] = i
  BY <1>7 DEF Surjection
<1> DEFINE ids == [i \in 1..n |-> CHOOSE m \in S : place[m] = i]
<1>9. ids \in [1..n -> S] /\ \A i \in 1..n : ids[i] \in S /\ place[ids[i]] = i
  BY <1>8
<1> HIDE DEF ids
<1>10. \A i, j \in 1..n : i < j => ids[i] < ids[j]
  <2>1. ASSUME NEW i \in 1..n, NEW j \in 1..n, i < j PROVE ids[i] < ids[j]
    <3>0. ids[i] \in S /\ ids[j] \in S /\ place[ids[i]] = i /\ place[ids[j]] = j
      BY <1>9
    <3>1. ids[i] \in Nat /\ ids[j] \in Nat /\ i \in Nat /\ j \in Nat
      <4>1. ids[i] \in Nat /\ ids[j] \in Nat
        BY <1>0, <3>0
      <4>2. i \in Nat /\ j \in Nat
        BY <1>1
      <4>3. QED
        BY <4>1, <4>2
    <3>2. ids[j] < ids[i] => j < i
      <4>1. ids[j] < ids[i] => place[ids[j]] < place[ids[i]]
        BY <1>5, <3>0
      <4>2. QED
        BY <3>0, <4>1
    <3>3. ids[i] # ids[j]
      BY <1>9, <2>1, <3>1
    <3>4. QED
      BY <2>1, <3>1, <3>2, <3>3
  <2>2. QED
    BY <2>1
<1>11. ids \in Injection(1..n, S)
  BY <1>9 DEF Injection, IsInjective
<1>12. QED
  BY <1>10, <1>11 DEF n

LEMMA AscendingOrders ==
    ASSUME NEW S \in SUBSET Nat, IsFiniteSet(S)
    PROVE  /\ Store!Ascending(S) \in Injection(1..Cardinality(S), S)
           /\ \A i, j \in 1..Cardinality(S) : i < j => Store!Ascending(S)[i] < Store!Ascending(S)[j]
<1> DEFINE n == Cardinality(S)
<1>1. n \in Nat
  BY FS_CardinalityType
<1>2. PICK f \in Injection(1..n, S) : \A i, j \in 1..n : i < j => f[i] < f[j]
  BY AscendingExists
<1> HIDE DEF n
<1>3. Store!SetToSeqs(S) = {g \in [1..n -> S] : \A i, j \in 1..n : i # j => g[i] # g[j]}
  BY DEF Store!SetToSeqs, n, Store!Cardinality, Cardinality, Store!IsFiniteSet, IsFiniteSet
<1>4. \A g \in Store!SetToSeqs(S) : g \in Injection(1..n, S) /\ DOMAIN g = 1..n
  BY <1>3 DEF Injection, IsInjective
<1>5. f \in Store!SetToSeqs(S) /\ DOMAIN f = 1..n
  BY <1>2, <1>3 DEF Injection, IsInjective
<1>6. \E ids \in Store!SetToSeqs(S) : \A i, j \in DOMAIN ids : i < j => ids[i] < ids[j]
  BY <1>2, <1>5
<1>7. /\ Store!Ascending(S) \in Store!SetToSeqs(S)
      /\ \A i, j \in DOMAIN Store!Ascending(S) : i < j => Store!Ascending(S)[i] < Store!Ascending(S)[j]
  BY <1>6 DEF Store!Ascending
<1>8. QED
  BY <1>4, <1>7 DEF n


USE StoreAssumption DEF Store!NoGroup, Store!Null

LEMMA TabBounds == MaxStored \in Nat /\ MaxEvents \in Nat /\ MaxFaults \in Nat
OBVIOUS

LEMMA SeqMembers ==
    ASSUME NEW S, NEW q \in Seq(S)
    PROVE  Len(q) \in Nat /\ DOMAIN q = 1..Len(q) /\ \A i \in DOMAIN q : q[i] \in S
OBVIOUS

LEMMA SeqMade ==
    ASSUME NEW S, NEW n \in Nat, NEW q, q = [i \in 1..n |-> q[i]], \A i \in 1..n : q[i] \in S
    PROVE  q \in Seq(S) /\ Len(q) = n
OBVIOUS

\* Rows stay in their domain while messages are added.
LEMMA RowsStay ==
    ASSUME DOMAIN stored \subseteq DOMAIN stored', NEW rows, RowsFit(rows)
    PROVE  RowsFit(rows)'
<1>1. Row \subseteq Row'
  BY DEF Row
<1>2. PICK R : R = Row
  OBVIOUS
<1>3. PICK T : T = Row'
  OBVIOUS
<1>4. rows \in Seq(R) /\ R \subseteq T
  BY <1>1, <1>2, <1>3 DEF RowsFit
<1>5. rows \in Seq(T)
  BY <1>4
<1>6. QED
  BY <1>3, <1>5 DEF RowsFit

LEMMA RequestStays ==
    ASSUME DOMAIN stored \subseteq DOMAIN stored', NEW q, Holds(q)
    PROVE  Holds(q)'
<1>1. Row \subseteq Row'
  BY DEF Row
<1>2. q.at = "answered" /\ q.kind = "get" => RowsFit(q.page)'
  BY RowsStay DEF Holds
<1>3. q.at \in {"sent", "answered"} /\ q.kind = "send" => RowsFit(q.captured)'
  BY RowsStay DEF Holds
<1>4. QED
  BY <1>1, <1>2, <1>3 DEF Holds

LEMMA RowAppended ==
    ASSUME NEW rows, RowsFit(rows), NEW m \in Row
    PROVE  RowsFit(Append(rows, m))
<1>1. PICK R : R = Row
  OBVIOUS
<1>2. rows \in Seq(R) /\ m \in R
  BY <1>1 DEF RowsFit
<1>3. Append(rows, m) \in Seq(R)
  BY <1>2
<1>4. QED
  BY <1>1, <1>3 DEF RowsFit

LEMMA WithoutFits ==
    ASSUME NEW rows, RowsFit(rows), NEW m
    PROVE  RowsFit(Store!Without(rows, m))
<1> DEFINE S == {i \in DOMAIN rows : rows[i] # m}
           n == Cardinality(S)
<1>1. Len(rows) \in Nat /\ DOMAIN rows = 1..Len(rows) /\ \A i \in DOMAIN rows : rows[i] \in Row
  BY SeqMembers DEF RowsFit
<1>2. S \in SUBSET Nat /\ IsFiniteSet(S) /\ n \in Nat
  <2>1. PICK k \in Nat : DOMAIN rows = 1..k
    BY <1>1
  <2>2. IsFiniteSet(1..k)
    BY <2>1, FS_Interval
  <2>3. QED
    BY <2>1, <2>2, FS_Subset, FS_CardinalityType
<1>3. PICK kept : kept = Store!Ascending(S)
  OBVIOUS
<1>4. kept \in Injection(1..n, S)
  BY <1>2, <1>3, AscendingOrders
<1>5. DOMAIN kept = 1..n /\ \A i \in 1..n : kept[i] \in DOMAIN rows
  BY <1>4 DEF Injection
<1>6. Store!Without(rows, m) = rows \/ Store!Without(rows, m) = [k \in DOMAIN kept |-> rows[kept[k]]]
  BY <1>3 DEF Store!Without
<1> HIDE DEF n
<1>7. PICK all : all = [k \in DOMAIN kept |-> rows[kept[k]]]
  OBVIOUS
<1>8. all = [i \in 1..n |-> all[i]] /\ \A i \in 1..n : all[i] \in Row
  BY <1>1, <1>5, <1>7
<1>9. all \in Seq(Row)
  BY <1>2, <1>8, SeqMade
<1>10. QED
  BY <1>6, <1>7, <1>9 DEF RowsFit

LEMMA PageFits ==
    ASSUME TabTyped, NEW g
    PROVE  RowsFit(Store!Ascending(Store!History(g)))
<1> DEFINE S == Store!History(g)
           n == Cardinality(S)
<1>1. S \subseteq DOMAIN stored
  BY DEF Store!History
<1> HIDE DEF S
<1>2. S \in SUBSET Nat /\ IsFiniteSet(S) /\ n \in Nat
  <2>1. PICK k \in Nat : DOMAIN stored = 1..k
    BY SeqMembers DEF TabTyped
  <2>2. IsFiniteSet(1..k)
    BY <2>1, FS_Interval
  <2>3. QED
    BY <1>1, <2>1, <2>2, FS_Subset, FS_CardinalityType
<1>3. PICK ids : ids = Store!Ascending(S)
  OBVIOUS
<1>4. ids \in Injection(1..n, S)
  BY <1>2, <1>3, AscendingOrders
<1> HIDE DEF n
<1>5. ids = [i \in 1..n |-> ids[i]] /\ \A i \in 1..n : ids[i] \in Row
  BY <1>1, <1>4 DEF Injection, Row
<1>6. ids \in Seq(Row)
  BY <1>2, <1>5, SeqMade
<1>7. QED
  BY <1>3, <1>6 DEF RowsFit, S

-----------------------------------------------------------------------------
\* Messages are added and deleted; their numbers stay.
LEMMA StoredChanges ==
    ASSUME TabInv, Store!Next
    PROVE  \/ UNCHANGED stored
           \/ \E g \in Group, b \in BOOLEAN : stored' = Append(stored, [in |-> g, mine |-> b, deleted |-> FALSE])
           \/ \E m \in DOMAIN stored : stored' = [stored EXCEPT ![m].deleted = TRUE]
<1>1. ASSUME NEW s \in Slot, Store!SaveMessage(s)
      PROVE  \/ UNCHANGED stored
             \/ \E g \in Group : stored' = Append(stored, [in |-> g, mine |-> TRUE, deleted |-> FALSE])
  <2>1. asked[s].in \in Group
    BY <1>1 DEF Store!SaveMessage, Store!Asked, TabInv, RequestsFit, Holds
  <2>2. UNCHANGED stored \/ stored' = Append(stored, [in |-> asked[s].in, mine |-> TRUE, deleted |-> FALSE])
    BY <1>1 DEF Store!SaveMessage, Store!Save
  <2>3. QED
    BY <2>1, <2>2
<1>2. ASSUME NEW s \in Slot, Store!SoftDelete(s)
      PROVE  UNCHANGED stored \/ \E m \in DOMAIN stored : stored' = [stored EXCEPT ![m].deleted = TRUE]
  BY <1>2 DEF Store!SoftDelete, Store!Alive
<1>3. ASSUME NEW g \in Group, Store!OthersSend(g)
      PROVE  stored' = Append(stored, [in |-> g, mine |-> FALSE, deleted |-> FALSE])
  BY <1>3 DEF Store!OthersSend, Store!Save
<1>4. ASSUME NEW m \in DOMAIN stored, Store!OthersDelete(m)
      PROVE  stored' = [stored EXCEPT ![m].deleted = TRUE]
  BY <1>4 DEF Store!OthersDelete
<1>5. \/ UNCHANGED stored
      \/ \E g \in Group : Store!OthersSend(g)
      \/ \E m \in DOMAIN stored : Store!OthersDelete(m)
      \/ \E s \in Slot : Store!SaveMessage(s) \/ Store!SoftDelete(s)
  BY DEF Store!Next, Store!EmitSent, Store!EmitDeleted, Store!Removed, Store!FinishJoin, Store!Select, Store!Close,
     Store!HandleJoin, Store!HandleLeave, Store!ReceiveEvent, Store!Reselect, Store!Edit, Store!Return,
     Store!SendGroupMessage, Store!DeleteGroupMessage, Store!GetGroupMessages, Store!Receive, Store!Failed, Store!server
<1>6. QED
  BY <1>1, <1>2, <1>3, <1>4, <1>5

LEMMA StoredGrows ==
    ASSUME TabInv, Store!Next
    PROVE  stored' \in Seq(StoreMessage) /\ DOMAIN stored \subseteq DOMAIN stored'
<1>1. stored \in Seq(StoreMessage) /\ Len(stored) \in Nat /\ DOMAIN stored = 1..Len(stored)
  BY SeqMembers DEF TabInv, TabTyped
<1>2. ASSUME NEW g \in Group, NEW b \in BOOLEAN, stored' = Append(stored, [in |-> g, mine |-> b, deleted |-> FALSE])
      PROVE  stored' \in Seq(StoreMessage) /\ DOMAIN stored \subseteq DOMAIN stored'
  <2>1. PICK m : m = [in |-> g, mine |-> b, deleted |-> FALSE]
    OBVIOUS
  <2>2. m \in StoreMessage
    BY <2>1 DEF StoreMessage
  <2>3. QED
    BY <1>1, <1>2, <2>1, <2>2
<1>3. ASSUME NEW m \in DOMAIN stored, stored' = [stored EXCEPT ![m].deleted = TRUE]
      PROVE  stored' \in Seq(StoreMessage) /\ DOMAIN stored' = DOMAIN stored
  <2>1. stored[m] \in StoreMessage
    BY SeqMembers DEF TabInv, TabTyped
  <2>2. PICK r : r = [stored[m] EXCEPT !.deleted = TRUE]
    OBVIOUS
  <2>3. r \in StoreMessage
    BY <2>1, <2>2 DEF StoreMessage
  <2>4. stored' = [stored EXCEPT ![m] = r]
    BY <1>3, <2>2
  <2>5. QED
    BY <1>1, <2>3, <2>4
<1>4. QED
  BY <1>1, <1>2, <1>3, StoredChanges

LEMMA NextTabTyped == ASSUME TabInv, Store!Next PROVE TabTyped'
<1>1. stored' \in Seq(StoreMessage) /\ DOMAIN stored \subseteq DOMAIN stored'
  BY StoredGrows
<1>2. (unsent \cup undone)' \subseteq DOMAIN stored'
  <2>1. ASSUME NEW g \in Group, Store!OthersSend(g) PROVE unsent' \subseteq DOMAIN stored' /\ undone' \subseteq DOMAIN stored'
    <3>1. PICK m : m = [in |-> g, mine |-> FALSE, deleted |-> FALSE]
      OBVIOUS
    <3>2. stored' = Append(stored, m) /\ unsent' = unsent \cup {Len(stored')} /\ UNCHANGED undone
      BY <2>1, <3>1 DEF Store!OthersSend, Store!Save
    <3>3. Len(stored') \in DOMAIN stored'
      BY <3>2 DEF TabInv, TabTyped
    <3>4. QED
      BY <1>1, <3>2, <3>3 DEF TabInv, TabTyped
  <2>2. ASSUME NEW m \in DOMAIN stored, Store!EmitSent(m) \/ Store!OthersDelete(m) \/ Store!EmitDeleted(m)
        PROVE  unsent' \subseteq unsent /\ undone' \subseteq undone \cup {m}
    BY <2>2 DEF Store!EmitSent, Store!OthersDelete, Store!EmitDeleted
  <2>3. \/ UNCHANGED <<unsent, undone>>
        \/ \E g \in Group : Store!OthersSend(g)
        \/ \E m \in DOMAIN stored : Store!EmitSent(m) \/ Store!OthersDelete(m) \/ Store!EmitDeleted(m)
    BY DEF Store!Next, Store!Removed, Store!FinishJoin, Store!Select, Store!Close,
     Store!HandleJoin, Store!HandleLeave, Store!ReceiveEvent, Store!Reselect, Store!Edit, Store!Return,
     Store!SendGroupMessage, Store!DeleteGroupMessage, Store!GetGroupMessages, Store!SaveMessage, Store!SoftDelete,
     Store!Receive, Store!Failed, Store!server
  <2>4. QED
    BY <1>1, <2>1, <2>2, <2>3 DEF TabInv, TabTyped
<1>3. member' \subseteq Group /\ room' \subseteq Group /\ joining' \subseteq Group
  <2>1. ASSUME Store!HandleJoin PROVE member' \subseteq Group /\ room' \subseteq Group /\ joining' \subseteq Group
    <3>1. PICK h : h = uplink[1]
      OBVIOUS
    <3>2. Head(uplink) = h /\ h \in Change /\ "join" \in DOMAIN h
      BY <2>1, <3>1 DEF Store!HandleJoin, TabInv, RoomsInv
    <3>3. h.join \in Group
      BY <3>2 DEF Change
    <3>4. QED
      BY <2>1, <3>2, <3>3 DEF Store!HandleJoin, TabInv, TabTyped
  <2>2. ASSUME NEW g \in Group, Store!Removed(g) \/ Store!FinishJoin(g)
        PROVE  member' \subseteq member /\ room' \subseteq room \cup {g} /\ joining' \subseteq joining
    BY <2>2 DEF Store!Removed, Store!FinishJoin
  <2>3. Store!HandleLeave => member' \subseteq member /\ room' \subseteq room /\ joining' \subseteq joining
    BY DEF Store!HandleLeave
  <2>4. \/ UNCHANGED <<member, room, joining>> \/ Store!HandleJoin \/ Store!HandleLeave
        \/ \E g \in Group : Store!Removed(g) \/ Store!FinishJoin(g)
    BY DEF Store!Next, Store!OthersSend, Store!EmitSent, Store!OthersDelete, Store!EmitDeleted, Store!Select, Store!Close,
     Store!ReceiveEvent, Store!Reselect, Store!Edit, Store!Return,
     Store!SendGroupMessage, Store!DeleteGroupMessage, Store!GetGroupMessages, Store!SaveMessage, Store!SoftDelete,
     Store!Receive, Store!Failed, Store!server
  <2>5. QED
    BY <2>1, <2>2, <2>3, <2>4 DEF TabInv, TabTyped
<1>4. /\ selectedGroup' \in Group \cup {Store!NoGroup}
      /\ listeners' \in {0, 1} /\ (selectedGroup' = Store!NoGroup => listeners' = 0)
  <2>1. \/ UNCHANGED <<selectedGroup, listeners>> \/ Store!Close
        \/ \E g \in Group, s, t \in Slot : Store!Select(g, s, t)
        \/ \E s \in Slot : Store!Edit(s) \/ Store!Return(s)
    BY DEF Store!Next, Store!OthersSend, Store!EmitSent, Store!OthersDelete, Store!EmitDeleted, Store!Removed,
     Store!FinishJoin, Store!HandleJoin, Store!HandleLeave, Store!ReceiveEvent, Store!Reselect,
     Store!SendGroupMessage, Store!DeleteGroupMessage, Store!GetGroupMessages, Store!SaveMessage, Store!SoftDelete,
     Store!Receive, Store!Failed, Store!screen
  <2>2. QED
    BY <2>1 DEF Store!Close, Store!Select, Store!Edit, Store!Return, Store!CleanupAndEffect, Store!Shown, TabInv, TabTyped
<1>5. faults' \in 0..MaxFaults
  <2>1. UNCHANGED faults \/ (faults < MaxFaults /\ faults' = faults + 1)
    BY DEF Store!Next, Store!OthersSend, Store!EmitSent, Store!OthersDelete, Store!EmitDeleted, Store!Removed,
     Store!FinishJoin, Store!HandleJoin, Store!HandleLeave, Store!ReceiveEvent, Store!Reselect, Store!Select, Store!Close,
     Store!Edit, Store!Return,
     Store!SendGroupMessage, Store!DeleteGroupMessage, Store!GetGroupMessages, Store!SaveMessage, Store!SoftDelete,
     Store!Receive, Store!Failed
  <2>2. QED
    BY <2>1, TabBounds DEF TabInv, TabTyped
<1>6. QED
  BY <1>1, <1>2, <1>3, <1>4, <1>5 DEF TabTyped

-----------------------------------------------------------------------------
\* An event is added to those under way.
LEMMA EventAdded ==
    ASSUME TabInv, Store!Next, NEW e \in RoomEvent, e.row \in Row', inbox' = Append(inbox, e)
    PROVE  InboxFits'
<1>1. PICK R : R = RoomEvent
  OBVIOUS
<1>2. inbox \in Seq(R) /\ e \in R
  BY <1>1 DEF TabInv, InboxFits
<1>3. /\ inbox' \in Seq(R) /\ Len(inbox) \in Nat /\ DOMAIN inbox = 1..Len(inbox)
      /\ DOMAIN inbox' = 1..(Len(inbox) + 1)
      /\ inbox'[Len(inbox) + 1] = e /\ \A i \in 1..Len(inbox) : inbox'[i] = inbox[i]
  BY <1>2
<1>4. Row \subseteq Row'
  BY StoredGrows DEF Row
<1>5. \A i \in DOMAIN inbox' : inbox'[i].row \in Row'
  BY <1>3, <1>4 DEF TabInv, InboxFits
<1>6. QED
  BY <1>1, <1>3, <1>5 DEF InboxFits

LEMMA InboxRests == ASSUME TabInv, Store!Next, UNCHANGED inbox PROVE InboxFits'
<1>1. Row \subseteq Row'
  BY StoredGrows DEF Row
<1>2. QED
  BY <1>1 DEF TabInv, InboxFits

LEMMA NextInboxFits == ASSUME TabInv, Store!Next PROVE InboxFits'
<1>1. stored' \in Seq(StoreMessage) /\ DOMAIN stored \subseteq DOMAIN stored' /\ stored \in Seq(StoreMessage)
  BY StoredGrows DEF TabInv, TabTyped
<1>2. \A m \in DOMAIN stored : m \in Nat /\ m \in Row' /\ stored[m].in \in Group
  <2>1. \A m \in DOMAIN stored : m \in Nat /\ stored[m] \in StoreMessage
    BY <1>1, SeqMembers
  <2>2. QED
    BY <1>1, <2>1 DEF StoreMessage, Row
<1>3. 0 \in Row'
  BY DEF Row
<1>4. ASSUME NEW m \in DOMAIN stored, Store!EmitSent(m) PROVE InboxFits'
  <2>1. PICK row : row = Store!Reloaded(m)
    OBVIOUS
  <2>2. row \in {m, 0}
    BY <2>1 DEF Store!Reloaded
  <2>3. PICK e : e = [event |-> "newGroupMessage", in |-> stored[m].in, row |-> row]
    OBVIOUS
  <2>4. UNCHANGED inbox \/ inbox' = Append(inbox, e)
    BY <1>4, <2>1, <2>3 DEF Store!EmitSent, Store!Emit, Store!NewMessage
  <2>5. e \in RoomEvent /\ e.row \in Row'
    BY <1>2, <1>3, <2>2, <2>3 DEF RoomEvent
  <2>6. QED
    BY <2>4, <2>5, EventAdded, InboxRests
<1>5. ASSUME NEW m \in DOMAIN stored, Store!EmitDeleted(m) PROVE InboxFits'
  <2>1. PICK e : e = [event |-> "groupMessageDeleted", in |-> stored[m].in, row |-> m]
    OBVIOUS
  <2>2. UNCHANGED inbox \/ inbox' = Append(inbox, e)
    BY <1>5, <2>1 DEF Store!EmitDeleted, Store!Emit, Store!MessageDeleted
  <2>3. e \in RoomEvent /\ e.row \in Row'
    BY <1>2, <2>1 DEF RoomEvent
  <2>4. QED
    BY <2>2, <2>3, EventAdded, InboxRests
<1>6. ASSUME NEW s \in Slot, Store!SaveMessage(s) PROVE InboxFits'
  <2>1. PICK g : g = asked[s].in
    OBVIOUS
  <2>2. g \in Group
    BY <1>6, <2>1 DEF Store!SaveMessage, Store!Asked, TabInv, RequestsFit, Holds
  <2>3. PICK e : e = [event |-> "newGroupMessage", in |-> g, row |-> Len(stored) + 1]
    OBVIOUS
  <2>4. \/ UNCHANGED inbox
        \/ inbox' = Append(inbox, e) /\ stored' = Append(stored, [in |-> g, mine |-> TRUE, deleted |-> FALSE])
    BY <1>6, <2>1, <2>3 DEF Store!SaveMessage, Store!Emit, Store!Save
  <2>5. CASE inbox' = Append(inbox, e) /\ stored' = Append(stored, [in |-> g, mine |-> TRUE, deleted |-> FALSE])
    <3>1. PICK m : m = [in |-> g, mine |-> TRUE, deleted |-> FALSE]
      OBVIOUS
    <3>2. stored' = Append(stored, m)
      BY <2>5, <3>1
    <3>3. Len(stored) + 1 \in DOMAIN stored' /\ Len(stored) + 1 \in Nat
      BY <1>1, <3>2
    <3>4. e \in RoomEvent /\ e.row \in Row'
      BY <2>2, <2>3, <3>3 DEF RoomEvent, Row
    <3>5. QED
      BY <2>5, <3>4, EventAdded
  <2>6. QED
    BY <2>4, <2>5, InboxRests
<1>7. ASSUME NEW s \in Slot, Store!SoftDelete(s) PROVE InboxFits'
  <2>1. PICK m : m = asked[s].msg
    OBVIOUS
  <2>2. PICK e : e = [event |-> "groupMessageDeleted", in |-> stored[m].in, row |-> m]
    OBVIOUS
  <2>3. UNCHANGED inbox \/ (m \in DOMAIN stored /\ inbox' = Append(inbox, e))
    BY <1>7, <2>1, <2>2 DEF Store!SoftDelete, Store!Emit, Store!MessageDeleted, Store!Alive
  <2>4. m \in DOMAIN stored => e \in RoomEvent /\ e.row \in Row'
    BY <1>2, <2>2 DEF RoomEvent
  <2>5. QED
    BY <2>3, <2>4, EventAdded, InboxRests
<1>8. CASE Store!ReceiveEvent
  <2>1. PICK R : R = RoomEvent
    OBVIOUS
  <2>2. inbox \in Seq(R) /\ inbox # <<>> /\ inbox' = Tail(inbox)
    BY <1>8, <2>1 DEF TabInv, InboxFits, Store!ReceiveEvent
  <2>3. /\ inbox' \in Seq(R) /\ Len(inbox) \in Nat /\ DOMAIN inbox = 1..Len(inbox) /\ DOMAIN inbox' = 1..(Len(inbox) - 1)
        /\ \A i \in DOMAIN inbox' : inbox'[i] = inbox[i + 1]
    BY <2>2
  <2>4. \A i \in DOMAIN inbox' : i + 1 \in DOMAIN inbox
    BY <2>3
  <2>5. Row \subseteq Row'
    BY <1>1 DEF Row
  <2>6. \A i \in DOMAIN inbox' : inbox'[i].row \in Row'
    BY <2>3, <2>4, <2>5 DEF TabInv, InboxFits
  <2>7. QED
    BY <2>1, <2>3, <2>6 DEF InboxFits
<1>9. \/ UNCHANGED inbox \/ Store!ReceiveEvent
      \/ \E m \in DOMAIN stored : Store!EmitSent(m) \/ Store!EmitDeleted(m)
      \/ \E s \in Slot : Store!SaveMessage(s) \/ Store!SoftDelete(s)
  BY DEF Store!Next, Store!OthersSend, Store!OthersDelete, Store!Removed,
     Store!FinishJoin, Store!HandleJoin, Store!HandleLeave, Store!Reselect, Store!Select, Store!Close,
     Store!Edit, Store!Return, Store!SendGroupMessage, Store!DeleteGroupMessage, Store!GetGroupMessages,
     Store!Receive, Store!Failed
<1>10. QED
  BY <1>4, <1>5, <1>6, <1>7, <1>8, <1>9, InboxRests

LEMMA NextRequestsFit == ASSUME TabInv, Store!Next PROVE RequestsFit'
<1>0. DOMAIN stored \subseteq DOMAIN stored'
  BY StoredGrows
<1>1. \A s \in Slot : Holds(asked[s])'
  <2>2. ASSUME NEW s \in Slot, NEW q, asked'[s] = q, Holds(q)' PROVE Holds(asked[s])'
    BY <2>2 DEF Holds
  <2>3. ASSUME NEW s \in Slot, asked'[s] = asked[s] PROVE Holds(asked[s])'
    <3>1. PICK q : q = asked[s]
      OBVIOUS
    <3>2. Holds(q)'
      BY <1>0, <3>1, RequestStays DEF TabInv, RequestsFit
    <3>3. QED
      BY <2>2, <2>3, <3>1, <3>2
  <2>4. ASSUME NEW S, NEW g \in Group, asked' = [s \in Slot |-> IF s \in S THEN [at |-> "sent", kind |-> "get", in |-> g] ELSE asked[s]]
        PROVE  \A s \in Slot : Holds(asked[s])'
    <3>1. PICK q : q = [at |-> "sent", kind |-> "get", in |-> g]
      OBVIOUS
    <3>2. Holds(q)'
      BY <3>1 DEF Holds
    <3>3. ASSUME NEW s \in Slot PROVE Holds(asked[s])'
      <4>1. CASE s \in S
        BY <2>2, <2>4, <3>1, <3>2, <4>1
      <4>2. CASE s \notin S
        BY <2>3, <2>4, <4>2
      <4>3. QED
        BY <4>1, <4>2
    <3>4. QED
      BY <3>3
  <2>5. ASSUME NEW r \in Slot, NEW q, asked' = [asked EXCEPT ![r] = q], Holds(q)'
        PROVE  \A s \in Slot : Holds(asked[s])'
    <3>1. DOMAIN asked = Slot
      BY DEF TabInv, RequestsFit
    <3>2. ASSUME NEW s \in Slot PROVE Holds(asked[s])'
      <4>1. CASE s = r
        BY <2>2, <2>5, <3>1, <4>1
      <4>2. CASE s # r
        BY <2>3, <2>5, <3>1, <4>2
      <4>3. QED
        BY <4>1, <4>2
    <3>3. QED
      BY <3>2
  <2>6. ASSUME NEW g \in Group, NEW s \in Slot, NEW t \in Slot, Store!Select(g, s, t) PROVE \A r \in Slot : Holds(asked[r])'
    BY <2>4, <2>6 DEF Store!Select, Store!Load
  <2>7. ASSUME NEW s \in Slot, Store!Reselect(s) \/ Store!Edit(s) \/ Store!Return(s) PROVE \A r \in Slot : Holds(asked[r])'
    <3>1. PICK g : g = selectedGroup
      OBVIOUS
    <3>2. g \in Group
      BY <2>7, <3>1 DEF Store!Reselect, Store!Edit, Store!Return, Store!Shown, TabInv, TabTyped
    <3>3. asked' = [r \in Slot |-> IF r \in {s} THEN [at |-> "sent", kind |-> "get", in |-> g] ELSE asked[r]]
      BY <2>7, <3>1 DEF Store!Reselect, Store!Edit, Store!Return, Store!Load
    <3>4. QED
      BY <2>4, <3>2, <3>3
  <2>8. ASSUME NEW s \in Slot, Store!SendGroupMessage(s) PROVE \A r \in Slot : Holds(asked[r])'
    <3>1. PICK g : g = selectedGroup
      OBVIOUS
    <3>2. g \in Group
      BY <2>8, <3>1 DEF Store!SendGroupMessage, Store!Shown, TabInv, TabTyped
    <3>3. PICK rows : rows = groupMessages
      OBVIOUS
    <3>4. RowsFit(rows)'
      BY <1>0, <3>3, RowsStay DEF TabInv
    <3>5. PICK q : q = [at |-> "sent", kind |-> "send", in |-> g, captured |-> rows]
      OBVIOUS
    <3>6. Holds(q)'
      BY <3>2, <3>4, <3>5 DEF Holds
    <3>7. asked' = [asked EXCEPT ![s] = q]
      BY <2>8, <3>1, <3>3, <3>5 DEF Store!SendGroupMessage
    <3>8. QED
      BY <2>5, <3>6, <3>7
  <2>9. ASSUME NEW s \in Slot, NEW m \in DOMAIN stored, Store!DeleteGroupMessage(s, m) PROVE \A r \in Slot : Holds(asked[r])'
    <3>1. PICK g : g = stored[m].in
      OBVIOUS
    <3>2. g \in Group
      <4>1. stored[m] \in StoreMessage
        BY SeqMembers DEF TabInv, TabTyped
      <4>2. QED
        BY <3>1, <4>1 DEF StoreMessage
    <3>3. PICK q : q = [at |-> "sent", kind |-> "delete", in |-> g, msg |-> m]
      OBVIOUS
    <3>4. Holds(q)'
      BY <3>2, <3>3 DEF Holds
    <3>5. asked' = [asked EXCEPT ![s] = q]
      BY <2>9, <3>1, <3>3 DEF Store!DeleteGroupMessage
    <3>6. QED
      BY <2>5, <3>4, <3>5
  <2>10. ASSUME NEW s \in Slot, Store!Refuse(s) PROVE \A r \in Slot : Holds(asked[r])'
    <3>1. PICK q : q = [at |-> "answered", kind |-> "refused"]
      OBVIOUS
    <3>2. Holds(q)'
      BY <3>1 DEF Holds
    <3>3. asked' = [asked EXCEPT ![s] = q]
      BY <2>10, <3>1 DEF Store!Refuse, Store!Answer
    <3>4. QED
      BY <2>5, <3>2, <3>3
  <2>11. ASSUME NEW s \in Slot, Store!GetGroupMessages(s) PROVE \A r \in Slot : Holds(asked[r])'
    <3>1. PICK page : page = Store!Ascending(Store!History(asked[s].in))
      OBVIOUS
    <3>2. RowsFit(page)'
      BY <1>0, <3>1, PageFits, RowsStay DEF TabInv
    <3>3. PICK q : q = [at |-> "answered", kind |-> "get", page |-> page]
      OBVIOUS
    <3>4. Holds(q)'
      BY <3>2, <3>3 DEF Holds
    <3>5. asked' = [asked EXCEPT ![s] = q] \/ Store!Refuse(s)
      BY <2>11, <3>1, <3>3 DEF Store!GetGroupMessages, Store!Answer
    <3>6. QED
      BY <2>5, <2>10, <3>4, <3>5
  <2>12. ASSUME NEW s \in Slot, Store!SaveMessage(s) PROVE \A r \in Slot : Holds(asked[r])'
    <3>1. PICK rows : rows = asked[s].captured
      OBVIOUS
    <3>2. asked[s].in \in Group /\ RowsFit(rows)
      BY <2>12, <3>1 DEF Store!SaveMessage, Store!Asked, TabInv, RequestsFit, Holds
    <3>3. RowsFit(rows)'
      BY <1>0, <3>2, RowsStay
    <3>4. PICK q : q = [at |-> "answered", kind |-> "send", row |-> Len(stored) + 1, captured |-> rows]
      OBVIOUS
    <3>5. Store!Refuse(s) \/ /\ asked' = [asked EXCEPT ![s] = q]
                             /\ stored' = Append(stored, [in |-> asked[s].in, mine |-> TRUE, deleted |-> FALSE])
      BY <2>12, <3>1, <3>4 DEF Store!SaveMessage, Store!Answer, Store!Save
    <3>6. CASE /\ asked' = [asked EXCEPT ![s] = q]
               /\ stored' = Append(stored, [in |-> asked[s].in, mine |-> TRUE, deleted |-> FALSE])
      <4>1. PICK m : m = [in |-> asked[s].in, mine |-> TRUE, deleted |-> FALSE]
        OBVIOUS
      <4>2. stored' = Append(stored, m)
        BY <3>6, <4>1
      <4>3. Len(stored) + 1 \in DOMAIN stored'
        BY <4>2 DEF TabInv, TabTyped
      <4>4. Holds(q)'
        BY <3>3, <3>4, <4>3 DEF Holds, Row
      <4>5. QED
        BY <2>5, <3>6, <4>4
    <3>7. QED
      BY <2>10, <3>5, <3>6
  <2>13. ASSUME NEW s \in Slot, Store!SoftDelete(s) PROVE \A r \in Slot : Holds(asked[r])'
    <3>1. PICK q : q = [at |-> "answered", kind |-> "delete", msg |-> asked[s].msg]
      OBVIOUS
    <3>2. Holds(q)'
      BY <3>1 DEF Holds
    <3>3. asked' = [asked EXCEPT ![s] = q] \/ Store!Refuse(s)
      BY <2>13, <3>1 DEF Store!SoftDelete, Store!Answer
    <3>4. QED
      BY <2>5, <2>10, <3>2, <3>3
  <2>14. ASSUME NEW s \in Slot, Store!Receive(s) \/ Store!Failed(s) PROVE \A r \in Slot : Holds(asked[r])'
    <3>1. PICK q : q = Store!Idle
      OBVIOUS
    <3>2. Holds(q)'
      BY <3>1 DEF Holds, Store!Idle
    <3>3. asked' = [asked EXCEPT ![s] = q]
      BY <2>14, <3>1 DEF Store!Receive, Store!Failed
    <3>4. QED
      BY <2>5, <3>2, <3>3
  <2>15. \/ UNCHANGED asked
         \/ \E g \in Group, s, t \in Slot : Store!Select(g, s, t)
         \/ \E s \in Slot : \/ Store!Reselect(s) \/ Store!Edit(s) \/ Store!Return(s) \/ Store!SendGroupMessage(s)
                            \/ \E m \in DOMAIN stored : Store!DeleteGroupMessage(s, m)
                            \/ Store!GetGroupMessages(s) \/ Store!SaveMessage(s) \/ Store!SoftDelete(s)
                            \/ Store!Receive(s) \/ Store!Failed(s)
    BY DEF Store!Next, Store!OthersSend, Store!EmitSent, Store!OthersDelete, Store!EmitDeleted, Store!Removed,
     Store!FinishJoin, Store!HandleJoin, Store!HandleLeave, Store!ReceiveEvent, Store!Close
  <2>16. QED
    BY <2>3, <2>6, <2>7, <2>8, <2>9, <2>11, <2>12, <2>13, <2>14, <2>15
<1>2. DOMAIN asked' = Slot
  <2>1. DOMAIN asked = Slot
    BY DEF TabInv, RequestsFit
  <2>2. QED
    BY <2>1 DEF Store!Next, Store!OthersSend, Store!EmitSent, Store!OthersDelete, Store!EmitDeleted, Store!Removed,
     Store!FinishJoin, Store!HandleJoin, Store!HandleLeave, Store!ReceiveEvent, Store!Reselect, Store!Select, Store!Close,
     Store!Edit, Store!Return, Store!SendGroupMessage, Store!DeleteGroupMessage, Store!GetGroupMessages,
     Store!SaveMessage, Store!SoftDelete, Store!Receive, Store!Failed, Store!Load, Store!Answer, Store!Refuse
<1>3. QED
  BY <1>1, <1>2 DEF RequestsFit

\* Whatever the tab does with an answer or an event, its rows are messages there are.
LEMMA NextRowsFit == ASSUME TabInv, Store!Next PROVE RowsFit(groupMessages)'
<1>0. DOMAIN stored \subseteq DOMAIN stored'
  BY StoredGrows
<1>1. ASSUME NEW rows, RowsFit(rows), groupMessages' = rows PROVE RowsFit(groupMessages)'
  <2>1. RowsFit(rows)'
    BY <1>0, <1>1, RowsStay
  <2>2. QED
    BY <1>1, <2>1 DEF RowsFit
<1>2. RowsFit(groupMessages)
  BY DEF TabInv
<1>3. ASSUME NEW s \in Slot, Store!Receive(s) PROVE RowsFit(groupMessages)'
  <2>1. PICK q : q = asked[s]
    OBVIOUS
  <2>2. Holds(q) /\ q.at = "answered"
    BY <1>3, <2>1 DEF TabInv, RequestsFit, Store!Receive
  <2>3. \/ q.kind = "get" /\ groupMessages' = q.page
        \/ q.kind = "send" /\ groupMessages' = Append(q.captured, q.row)
        \/ q.kind = "delete" /\ groupMessages' = Store!Without(groupMessages, q.msg)
        \/ UNCHANGED groupMessages
    BY <1>3, <2>1, <2>2 DEF Store!Receive, Holds
  <2>4. CASE q.kind = "get" /\ groupMessages' = q.page
    BY <1>1, <2>2, <2>4 DEF Holds
  <2>5. CASE q.kind = "send" /\ groupMessages' = Append(q.captured, q.row)
    <3>1. RowsFit(Append(q.captured, q.row))
      BY <2>2, <2>5, RowAppended DEF Holds
    <3>2. QED
      BY <1>1, <2>5, <3>1
  <2>6. CASE groupMessages' = Store!Without(groupMessages, q.msg)
    BY <1>1, <1>2, <2>6, WithoutFits
  <2>7. QED
    BY <1>1, <1>2, <2>3, <2>4, <2>5, <2>6
<1>4. CASE Store!ReceiveEvent
  <2>1. PICK e : e = inbox[1]
    OBVIOUS
  <2>2. Head(inbox) = e /\ e.row \in Row
    BY <1>4, <2>1 DEF Store!ReceiveEvent, TabInv, InboxFits
  <2>3. \/ UNCHANGED groupMessages
        \/ groupMessages' = groupMessages \o [i \in 1..listeners |-> e.row]
        \/ groupMessages' = Store!Without(groupMessages, e.row)
    BY <1>4, <2>2 DEF Store!ReceiveEvent, Store!OnNewMessage, Store!OnMessageDeleted
  <2>4. CASE groupMessages' = groupMessages \o [i \in 1..listeners |-> e.row]
    <3>1. PICK R : R = Row
      OBVIOUS
    <3>2. PICK n \in {0, 1} : n = listeners
      BY DEF TabInv, TabTyped
    <3>3. [i \in 1..n |-> e.row] \in Seq(R)
      BY <2>2, <3>1, <3>2
    <3>4. groupMessages \in Seq(R)
      BY <1>2, <3>1 DEF RowsFit
    <3>5. groupMessages \o [i \in 1..n |-> e.row] \in Seq(R)
      BY <3>3, <3>4, ConcatProperties
    <3>6. RowsFit(groupMessages \o [i \in 1..n |-> e.row])
      BY <3>1, <3>5 DEF RowsFit
    <3>7. QED
      BY <1>1, <2>4, <3>2, <3>6
  <2>5. CASE groupMessages' = Store!Without(groupMessages, e.row)
    BY <1>1, <1>2, <2>5, WithoutFits
  <2>6. QED
    BY <1>1, <1>2, <2>3, <2>4, <2>5
<1>5. UNCHANGED groupMessages \/ Store!ReceiveEvent \/ \E s \in Slot : Store!Receive(s)
  BY DEF Store!Next, Store!OthersSend, Store!EmitSent, Store!OthersDelete, Store!EmitDeleted, Store!Removed,
     Store!FinishJoin, Store!HandleJoin, Store!HandleLeave, Store!Reselect, Store!Select, Store!Close,
     Store!Edit, Store!Return, Store!SendGroupMessage, Store!DeleteGroupMessage, Store!GetGroupMessages,
     Store!SaveMessage, Store!SoftDelete, Store!Failed, Store!screen
<1>6. QED
  BY <1>1, <1>2, <1>3, <1>4, <1>5

-----------------------------------------------------------------------------
LEMMA UplinkFacts ==
    ASSUME TabInv
    PROVE  /\ uplink \in Seq(Change) /\ Len(uplink) \in Nat /\ DOMAIN uplink = 1..Len(uplink)
           /\ \A i \in DOMAIN uplink : uplink[i] \in Change
BY SeqMembers DEF TabInv, RoomsInv

\* The effect of a newly shown group sends its join after the leave of the group before.
LEMMA JoinIsLast ==
    ASSUME TabInv, NEW g \in Group, uplink' = uplink \o Store!LeaveOld \o <<[join |-> g]>>
    PROVE  /\ uplink' \in Seq(Change) /\ DOMAIN uplink' = 1..Len(uplink')
           /\ Len(uplink') \in Nat \ {0} /\ uplink'[Len(uplink')] = [join |-> g]
<1>1. PICK C : C = Change
  OBVIOUS
<1>2. PICK join : join = [join |-> g]
  OBVIOUS
<1>3. PICK old : old = Store!LeaveOld
  OBVIOUS
<1>4. join \in C
  BY <1>1, <1>2 DEF Change
<1>5. old \in Seq(C)
  <2>1. CASE old = <<>>
    BY <2>1
  <2>2. CASE old # <<>>
    <3>1. old = <<[leave |-> selectedGroup]>> /\ selectedGroup \in Group
      BY <1>3, <2>2 DEF Store!LeaveOld, Store!Shown, TabInv, TabTyped
    <3>2. PICK leave : leave = [leave |-> selectedGroup]
      OBVIOUS
    <3>3. leave \in C
      BY <1>1, <3>1, <3>2 DEF Change
    <3>4. QED
      BY <3>1, <3>2, <3>3
  <2>3. QED
    BY <2>1, <2>2
<1>6. uplink \in Seq(C)
  BY <1>1, UplinkFacts
<1>7. PICK q \in Seq(C) : q = uplink \o old
  BY <1>5, <1>6, ConcatProperties
<1>8. uplink' = q \o <<join>>
  BY <1>2, <1>3, <1>7
<1>9. uplink' \in Seq(C) /\ Len(uplink') = Len(q) + 1 /\ uplink'[Len(q) + 1] = join /\ Len(q) \in Nat
  <2>1. PICK new : new = <<join>>
    OBVIOUS
  <2>2. new \in Seq(C) /\ Len(new) = 1 /\ new[1] = join
    BY <1>4, <2>1
  <2>3. Len(q) \in Nat
    BY <1>7
  <2>4. PICK u : u = q \o new
    OBVIOUS
  <2>5. /\ u \in Seq(C) /\ Len(u) = Len(q) + Len(new)
        /\ \A i \in 1..(Len(q) + Len(new)) : u[i] = IF i <= Len(q) THEN q[i] ELSE new[i - Len(q)]
    BY <1>7, <2>2, <2>4, ConcatProperties
  <2>6. PICK n \in Nat : n = Len(q)
    BY <2>3
  <2>7. u[n + 1] = new[n + 1 - n]
    BY <2>2, <2>5, <2>6
  <2>8. u[n + 1] = join
    BY <2>2, <2>6, <2>7
  <2>9. QED
    BY <1>8, <2>1, <2>2, <2>3, <2>4, <2>5, <2>6, <2>8
<1>10. DOMAIN uplink' = 1..Len(uplink')
  BY <1>9, SeqMembers
<1>11. QED
  BY <1>1, <1>2, <1>9, <1>10

LEMMA LeaveIsNoJoin == ASSUME NEW g, NEW k PROVE [leave |-> g] # [join |-> k]
<1>1. DOMAIN [leave |-> g] = {"leave"} /\ DOMAIN [join |-> k] = {"join"}
  OBVIOUS
<1>2. "leave" # "join"
  OBVIOUS
<1>3. QED
  BY <1>1, <1>2

LEMMA NextRooms == ASSUME TabInv, Store!Next PROVE RoomsInv'
<1>0. RoomsInv /\ TabTyped
  BY DEF TabInv
\* The group is shown, or shown again.
<1>1. ASSUME NEW g \in Group, Store!CleanupAndEffect(g), selectedGroup' = g PROVE RoomsInv'
  <2>1. /\ uplink' \in Seq(Change) /\ DOMAIN uplink' = 1..Len(uplink')
        /\ Len(uplink') \in Nat \ {0} /\ uplink'[Len(uplink')] = [join |-> g]
    BY <1>1, JoinIsLast DEF Store!CleanupAndEffect
  <2>2. PICK n \in Nat \ {0} : n = Len(uplink')
    BY <2>1
  <2>3. n \in DOMAIN uplink' /\ Joins(n, g)' /\ \A i \in DOMAIN uplink' : i # n => n > i
    BY <2>1, <2>2 DEF Joins
  <2>4. ~Leaves(n, g)'
    BY <2>3, LeaveIsNoJoin DEF Leaves, Joins
  <2>5. Heading(g)'
    BY <2>3, <2>4 DEF Heading
  <2>6. QED
    BY <1>1, <2>1, <2>5 DEF RoomsInv
<1>2. ASSUME NEW g \in Group, NEW s \in Slot, NEW t \in Slot, Store!Select(g, s, t) PROVE RoomsInv'
  BY <1>1, <1>2 DEF Store!Select
<1>3. ASSUME NEW s \in Slot, Store!Edit(s) \/ Store!Return(s) PROVE RoomsInv'
  <2>1. /\ selectedGroup \in Group /\ selectedGroup' = selectedGroup /\ Store!CleanupAndEffect(selectedGroup)
    BY <1>0, <1>3 DEF Store!Edit, Store!Return, Store!Shown, TabTyped
  <2>2. PICK g \in Group : g = selectedGroup
    BY <2>1
  <2>3. QED
    BY <1>1, <2>1, <2>2
<1>4. CASE Store!Close
  <2>1. uplink' = uplink \o <<[leave |-> selectedGroup]>> /\ listeners' = 0 /\ selectedGroup \in Group
    BY <1>0, <1>4 DEF Store!Close, Store!LeaveOld, Store!Shown, TabTyped
  <2>2. PICK leave : leave = [leave |-> selectedGroup]
    OBVIOUS
  <2>3. PICK C : C = Change
    OBVIOUS
  <2>4. leave \in C /\ uplink \in Seq(C) /\ uplink' = uplink \o <<leave>>
    BY <2>1, <2>2, <2>3, UplinkFacts DEF Change
  <2>5. uplink' \in Seq(C)
    BY <2>4
  <2>6. ~Store!Shown'
    BY <2>1 DEF Store!Shown
  <2>7. QED
    BY <2>3, <2>5, <2>6 DEF RoomsInv
\* The room is left only by a leave, and a join leaves the queue for the look-up.
<1>5. ASSUME UNCHANGED <<uplink, selectedGroup, listeners>>, member' \subseteq member,
             \A g \in member' : g \in room \cup joining => g \in room' \cup joining'
      PROVE  RoomsInv'
  <2>1. PICK g : g = selectedGroup
    OBVIOUS
  <2>2. Heading(g) /\ g \in member' => Heading(g)'
    BY <1>5 DEF Heading, Joins, Leaves
  <2>3. Store!Shown' <=> Store!Shown
    BY <1>5 DEF Store!Shown
  <2>4. Store!Shown' /\ selectedGroup' \in member' => Heading(g) /\ g \in member' /\ selectedGroup' = g
    BY <1>0, <1>5, <2>1, <2>3 DEF RoomsInv
  <2>5. Store!Shown' /\ selectedGroup' \in member' => Heading(selectedGroup)'
    BY <2>2, <2>4 DEF Heading, Joins, Leaves
  <2>6. QED
    BY <1>0, <1>5, <2>5 DEF RoomsInv
<1>6. ASSUME NEW g \in Group, Store!FinishJoin(g) PROVE RoomsInv'
  <2>1. UNCHANGED <<uplink, selectedGroup, listeners, member>>
    BY <1>6 DEF Store!FinishJoin, Store!screen
  <2>2. \A k \in member' : k \in room \cup joining => k \in room' \cup joining'
    BY <1>6 DEF Store!FinishJoin
  <2>3. QED
    BY <1>5, <2>1, <2>2
<1>7. ASSUME NEW g \in Group, Store!Removed(g) PROVE RoomsInv'
  BY <1>5, <1>7 DEF Store!Removed, Store!screen
\* The server takes the next of what the tab asked for.
<1>8. ASSUME NEW h, uplink # <<>>, Head(uplink) = h, uplink' = Tail(uplink), UNCHANGED <<selectedGroup, listeners, member>>,
             \A g : \/ h # [leave |-> g] /\ (g \in room \cup joining => g \in room' \cup joining')
                    \/ h = [leave |-> g],
             \A g : h = [join |-> g] => g \in joining'
      PROVE  RoomsInv'
  <2>1. PICK C : C = Change
    OBVIOUS
  <2>2. uplink \in Seq(C)
    BY <2>1, UplinkFacts
  <2>3. /\ uplink' \in Seq(C) /\ Len(uplink) \in Nat \ {0} /\ DOMAIN uplink = 1..Len(uplink)
        /\ DOMAIN uplink' = 1..(Len(uplink) - 1) /\ uplink[1] = h
        /\ \A i \in DOMAIN uplink' : uplink'[i] = uplink[i + 1] /\ i + 1 \in DOMAIN uplink
    BY <1>8, <2>2
  <2>4. \A j \in DOMAIN uplink : j = 1 \/ (j - 1 \in DOMAIN uplink' /\ uplink'[j - 1] = uplink[j])
    BY <2>3
  <2>5. ASSUME NEW g, Heading(g) PROVE Heading(g)'
    <3>1. ASSUME NEW i \in DOMAIN uplink', Leaves(i, g)' PROVE \E j \in DOMAIN uplink' : j > i /\ Joins(j, g)'
      <4>1. Leaves(i + 1, g) /\ i + 1 \in DOMAIN uplink
        BY <2>3, <3>1 DEF Leaves
      <4>2. PICK j \in DOMAIN uplink : j > i + 1 /\ Joins(j, g)
        BY <2>5, <4>1 DEF Heading
      <4>3. i \in Nat /\ j \in Nat /\ i >= 1
        BY <2>3
      <4>4. j # 1 /\ j - 1 > i
        BY <4>2, <4>3
      <4>5. QED
        BY <2>4, <4>2, <4>4 DEF Joins
    <3>2. ASSUME NEW j \in DOMAIN uplink, Joins(j, g) PROVE g \in joining' \/ \E k \in DOMAIN uplink' : Joins(k, g)'
      <4>1. CASE j = 1
        BY <1>8, <2>3, <3>2, <4>1 DEF Joins
      <4>2. CASE j # 1
        BY <2>4, <3>2, <4>2 DEF Joins
      <4>3. QED
        BY <4>1, <4>2
    <3>3. g \in room' \cup joining' \/ \E j \in DOMAIN uplink' : Joins(j, g)'
      <4>1. CASE h = [leave |-> g]
        <5>1. Leaves(1, g) /\ 1 \in DOMAIN uplink
          BY <2>3, <4>1 DEF Leaves
        <5>2. \E j \in DOMAIN uplink : Joins(j, g)
          BY <2>5, <5>1 DEF Heading
        <5>3. QED
          BY <3>2, <5>2
      <4>2. CASE h # [leave |-> g]
        <5>1. g \in room \cup joining => g \in room' \cup joining'
          BY <1>8, <4>2
        <5>2. QED
          BY <2>5, <3>2, <5>1 DEF Heading
      <4>3. QED
        BY <4>1, <4>2
    <3>4. QED
      BY <3>1, <3>3 DEF Heading
  <2>6. PICK g : g = selectedGroup
    OBVIOUS
  <2>7. Store!Shown' /\ selectedGroup' \in member' => Heading(g)' /\ selectedGroup' = g
    BY <1>0, <1>8, <2>5, <2>6 DEF RoomsInv, Store!Shown
  <2>8. Store!Shown' /\ selectedGroup' \in member' => Heading(selectedGroup)'
    BY <2>7 DEF Heading, Joins, Leaves
  <2>9. QED
    BY <2>1, <2>3, <2>8 DEF RoomsInv
<1>9. CASE Store!HandleJoin
  <2>1. PICK h : h = Head(uplink)
    OBVIOUS
  <2>2. uplink # <<>> /\ "join" \in DOMAIN h /\ uplink' = Tail(uplink) /\ joining' = joining \cup {h.join}
        /\ UNCHANGED <<selectedGroup, listeners, member, room>>
    BY <1>9, <2>1 DEF Store!HandleJoin, Store!screen
  <2>3. \A g : h = [join |-> g] => g \in joining'
    BY <2>2
  <2>4. \A g : g \in room \cup joining => g \in room' \cup joining'
    BY <2>2
  <2>5. QED
    BY <1>8, <2>1, <2>2, <2>3, <2>4
<1>10. CASE Store!HandleLeave
  <2>1. PICK h : h = Head(uplink)
    OBVIOUS
  <2>2. uplink # <<>> /\ "leave" \in DOMAIN h /\ uplink' = Tail(uplink) /\ room' = room \ {h.leave}
        /\ UNCHANGED <<selectedGroup, listeners, member, joining>>
    BY <1>10, <2>1 DEF Store!HandleLeave, Store!screen
  <2>3. h \in Change
    BY <2>1, <2>2, UplinkFacts
  <2>4. h = [leave |-> h.leave]
    BY <2>2, <2>3 DEF Change
  <2>5. \A g : h # [join |-> g]
    BY <2>4, LeaveIsNoJoin
  <2>6. \A g : h # [leave |-> g] => g # h.leave
    BY <2>4
  <2>7. QED
    BY <1>8, <2>1, <2>2, <2>5, <2>6
<1>11. \/ UNCHANGED <<uplink, selectedGroup, listeners, member, room, joining>>
       \/ Store!Close \/ Store!HandleJoin \/ Store!HandleLeave
       \/ \E g \in Group : Store!FinishJoin(g) \/ Store!Removed(g)
       \/ \E g \in Group, s, t \in Slot : Store!Select(g, s, t)
       \/ \E s \in Slot : Store!Edit(s) \/ Store!Return(s)
  BY DEF Store!Next, Store!OthersSend, Store!EmitSent, Store!OthersDelete, Store!EmitDeleted, Store!ReceiveEvent,
     Store!Reselect, Store!SendGroupMessage, Store!DeleteGroupMessage, Store!GetGroupMessages, Store!SaveMessage,
     Store!SoftDelete, Store!Receive, Store!Failed, Store!screen, Store!server
<1>12. QED
  BY <1>2, <1>3, <1>4, <1>5, <1>6, <1>7, <1>9, <1>10, <1>11

-----------------------------------------------------------------------------
LEMMA InitTabInv == ASSUME MCInit PROVE TabInv
<1> USE DEF MCInit, Store!ObservedInit, Store!Init
<1>1. stored = <<>> /\ stored \in Seq(StoreMessage) /\ uplink \in Seq(Change) /\ inbox \in Seq(RoomEvent) /\ inbox = <<>>
  OBVIOUS
<1>2. TabTyped
  <2>1. faults \in 0..MaxFaults
    BY TabBounds
  <2>2. QED
    BY <1>1, <2>1 DEF TabTyped
<1>3. InboxFits
  BY <1>1 DEF InboxFits
<1>4. RequestsFit
  BY DEF RequestsFit, Holds, Store!Idle
<1>5. RowsFit(groupMessages)
  BY DEF RowsFit
<1>6. RoomsInv
  BY <1>1 DEF RoomsInv, Store!Shown
<1>7. QED
  BY <1>2, <1>3, <1>4, <1>5, <1>6 DEF TabInv

LEMMA NextTabInv == ASSUME TabInv, [MCNext]_mcVars PROVE TabInv'
<1>1. CASE Store!Next
  BY <1>1, NextTabTyped, NextInboxFits, NextRequestsFit, NextRowsFit, NextRooms DEF TabInv
<1>2. CASE UNCHANGED storeVars
  <2> USE <1>2 DEF storeVars
  <2>1. TabTyped' /\ InboxFits'
    BY DEF TabInv, TabTyped, InboxFits, Row
  <2>2. RowsFit(groupMessages)'
    BY DEF TabInv, RowsFit, Row
  <2>3. RoomsInv'
    <3>1. PICK g : g = selectedGroup
      OBVIOUS
    <3>2. Heading(g) => Heading(g)'
      BY DEF Heading, Joins, Leaves
    <3>3. Store!Shown' /\ selectedGroup' \in member' => Heading(g)' /\ selectedGroup' = g
      BY <3>1, <3>2 DEF TabInv, RoomsInv, Store!Shown
    <3>4. Store!Shown' /\ selectedGroup' \in member' => Heading(selectedGroup)'
      BY <3>3 DEF Heading, Joins, Leaves
    <3>5. QED
      BY <3>4 DEF TabInv, RoomsInv
  <2>4. RequestsFit'
    <3>1. ASSUME NEW s \in Slot PROVE Holds(asked[s])'
      <4>1. PICK q : q = asked[s]
        OBVIOUS
      <4>2. Holds(q)'
        BY <4>1, RequestStays DEF TabInv, RequestsFit
      <4>3. QED
        BY <4>1, <4>2 DEF Holds
    <3>2. QED
      BY <3>1 DEF TabInv, RequestsFit
  <2>5. QED
    BY <2>1, <2>2, <2>3, <2>4 DEF TabInv
<1>3. QED
  BY <1>1, <1>2 DEF MCNext, mcVars, StoreStep, MessageStep, Store!ObservedNext

LEMMA TabInvJoined == ASSUME TabInv PROVE OpenGroupIsJoined
<1>1. Store!OpenGroupIsJoined
  BY DEF Store!OpenGroupIsJoined, TabInv, RoomsInv, Heading
<1>2. listeners \in IF selectedGroup = Store!NoGroup THEN {0} ELSE {0, 1}
  BY DEF TabInv, TabTyped
<1>3. groupMessages \in Seq(DOMAIN stored \cup {Store!Null})
  BY DEF TabInv, RowsFit, Row
<1>4. Store!TypeOK
  BY <1>2, <1>3 DEF Store!TypeOK, TabInv, TabTyped, StoreMessage
<1>5. QED
  BY <1>1, <1>4 DEF OpenGroupIsJoined

\* Once its joins and leaves are through, the socket of a tab is in the room of the group
\* it shows, however fast groups are opened, closed and edited and however long the
\* look-ups of memberships take (GroupChatContainer.jsx; lib/socket.js, joinGroup and
\* leaveGroup); with it, what the tab stores and shows keeps its type.
THEOREM OpenGroupAlwaysJoined == MCSpec => []OpenGroupIsJoined
<1>1. MCInit => TabInv
  BY InitTabInv
<1>2. TabInv /\ [MCNext]_mcVars => TabInv'
  BY NextTabInv
<1>3. TabInv => OpenGroupIsJoined
  BY TabInvJoined
<1>4. QED
  BY <1>1, <1>2, <1>3, PTL DEF MCSpec

-----------------------------------------------------------------------------
(* What the screen shows of the group that is open. *)

Announces(i, m) == inbox[i].event = "newGroupMessage" /\ inbox[i].row = m
Deletes(i, m)   == inbox[i].event = "groupMessageDeleted" /\ inbox[i].row = m

\* The tab will hear of the message, or that it was deleted.
Pending(m) == m \in unsent \/ \E i \in DOMAIN inbox : Announces(i, m)
Gone(m)    == m \in undone \/ \E i \in DOMAIN inbox : Deletes(i, m)

\* What is on its way to the open group: others' messages once, and of every message
\* that is deleted the deletion after it.
Flowing(g) ==
    /\ \A m \in unsent : ~stored[m].mine
    /\ \A m \in undone : ~Store!Alive(m)
    /\ \A i \in DOMAIN inbox : inbox[i].row # 0 /\ inbox[i].in = stored[inbox[i].row].in
    /\ \A i \in DOMAIN inbox, m \in DOMAIN stored : Deletes(i, m) => ~Store!Alive(m)
    /\ \A i \in DOMAIN inbox, m \in DOMAIN stored :
          Announces(i, m) /\ stored[m].in = g =>
             Store!Alive(m) \/ m \in undone \/ \E j \in DOMAIN inbox : j > i /\ Deletes(j, m)
    /\ \A i \in DOMAIN inbox, m \in DOMAIN stored :
          Announces(i, m) =>
             /\ m \notin unsent
             /\ ~stored[m].mine => \A j \in DOMAIN inbox : Announces(j, m) => i = j

\* Rows that lack nothing but others' messages that are on their way, and show nothing
\* too much but messages whose deletion is on its way.
Right(rows, g) ==
    /\ \A i \in DOMAIN rows :
          /\ rows[i] # 0 /\ stored[rows[i]].in = g
          /\ Store!Alive(rows[i]) \/ Gone(rows[i])
          /\ ~stored[rows[i]].mine => /\ ~Pending(rows[i])
                                      /\ \A j \in DOMAIN rows : rows[j] = rows[i] => i = j
    /\ \A m \in Store!History(g) :
          (\E i \in DOMAIN rows : rows[i] = m) \/ (~stored[m].mine /\ Pending(m))

\* A request puts such rows on the screen, or leaves it as it is.
ForScreen(q) ==
    /\ q.at = "sent" => q.in = selectedGroup
    /\ q.at = "sent" /\ q.kind = "send" => Right(q.captured, selectedGroup)
    /\ q.at = "sent" /\ q.kind = "delete" => q.msg \in DOMAIN stored /\ stored[q.msg].in = selectedGroup
    /\ q.at = "answered" /\ q.kind = "get" => Right(q.page, selectedGroup)
    /\ q.at = "answered" /\ q.kind = "send" => Right(Append(q.captured, q.row), selectedGroup)
    /\ q.at = "answered" /\ q.kind = "delete" => q.msg \in DOMAIN stored /\ ~Store!Alive(q.msg)
    /\ q.kind \in {"delete", "refused"} => Right(groupMessages, selectedGroup)

Screened ==
    /\ Flowing(selectedGroup)
    /\ \A s \in Store!Requests : ForScreen(asked[s])
    /\ Store!Requests = {} => Right(groupMessages, selectedGroup)

\* What does not meet.
Apart ==
    /\ ~Store!Meet
    /\ Store!Sending # {} => \A s, t \in Store!Requests : s = t

ScreenInv ==
    /\ IsFiniteSet(Store!Requests)
    /\ clean => ~Store!Meet /\ Screened

-----------------------------------------------------------------------------
LEMMA StoredFacts ==
    ASSUME TabInv
    PROVE  /\ Len(stored) \in Nat /\ DOMAIN stored = 1..Len(stored) /\ 0 \notin DOMAIN stored
           /\ \A m \in DOMAIN stored : stored[m] \in StoreMessage
           /\ unsent \subseteq DOMAIN stored /\ undone \subseteq DOMAIN stored
<1>1. Len(stored) \in Nat /\ DOMAIN stored = 1..Len(stored) /\ \A m \in DOMAIN stored : stored[m] \in StoreMessage
  BY SeqMembers DEF TabInv, TabTyped
<1>2. 0 \notin DOMAIN stored
  BY <1>1
<1>3. QED
  BY <1>1, <1>2 DEF TabInv, TabTyped

LEMMA EventFacts ==
    ASSUME TabInv
    PROVE  /\ Len(inbox) \in Nat /\ DOMAIN inbox = 1..Len(inbox) /\ inbox \in Seq(RoomEvent)
           /\ \A i \in DOMAIN inbox : /\ inbox[i].event \in {"newGroupMessage", "groupMessageDeleted"}
                                      /\ inbox[i].row \in DOMAIN stored \cup {0}
<1>1. Len(inbox) \in Nat /\ DOMAIN inbox = 1..Len(inbox) /\ inbox \in Seq(RoomEvent)
      /\ \A i \in DOMAIN inbox : inbox[i] \in RoomEvent
  BY SeqMembers DEF TabInv, InboxFits
<1>2. QED
  BY <1>1 DEF TabInv, InboxFits, RoomEvent, Row

LEMMA RowFacts ==
    ASSUME NEW rows, RowsFit(rows)
    PROVE  /\ Len(rows) \in Nat /\ DOMAIN rows = 1..Len(rows)
           /\ \A i \in DOMAIN rows : rows[i] \in DOMAIN stored \cup {0}
BY SeqMembers DEF RowsFit, Row

\* With nothing on its way, right rows are what the property asks for.
LEMMA RightIsShown ==
    ASSUME TabInv, ScreenInv PROVE GroupScreenIsFaithful
<1> SUFFICES ASSUME clean, Store!Shown, Store!Requests = {}, ~Store!Joining, ~Store!OthersBusy, inbox = <<>>
             PROVE  /\ {groupMessages[i] : i \in DOMAIN groupMessages} = Store!History(selectedGroup)
                    /\ \A m \in Store!History(selectedGroup) : stored[m].mine \/ Store!Times(m) = 1
  BY DEF GroupScreenIsFaithful, Store!GroupScreenIsFaithful
<1>1. Right(groupMessages, selectedGroup) /\ unsent = {} /\ undone = {}
  BY DEF ScreenInv, Screened, Store!OthersBusy
<1>2. \A m : ~Pending(m) /\ ~Gone(m)
  BY <1>1 DEF Pending, Gone
<1>3. \A i \in DOMAIN groupMessages : groupMessages[i] \in Store!History(selectedGroup)
  BY <1>1, <1>2 DEF Right, Store!History, Store!Alive
<1>4. \A m \in Store!History(selectedGroup) : \E i \in DOMAIN groupMessages : groupMessages[i] = m
  BY <1>1, <1>2 DEF Right
<1>5. ASSUME NEW m \in Store!History(selectedGroup), ~stored[m].mine PROVE Store!Times(m) = 1
  <2>1. PICK i \in DOMAIN groupMessages : groupMessages[i] = m
    BY <1>4
  <2>2. {j \in DOMAIN groupMessages : groupMessages[j] = m} = {i}
    BY <1>1, <1>5, <2>1 DEF Right
  <2>3. Cardinality({i}) = 1
    BY FS_Singleton
  <2>4. QED
    BY <2>2, <2>3 DEF Store!Times, Store!Cardinality, Cardinality, Store!IsFiniteSet, IsFiniteSet
<1>6. QED
  BY <1>3, <1>4, <1>5

\* What is left of rows without a message: the others, each as often.
LEMMA WithoutIs ==
    ASSUME NEW rows, RowsFit(rows), NEW m, \A i \in DOMAIN rows : rows[i] # 0
    PROVE  LET all == Store!Without(rows, m)
           IN  /\ \A i \in DOMAIN all : \E k \in DOMAIN rows : all[i] = rows[k] /\ rows[k] # m
               /\ \A k \in DOMAIN rows : rows[k] # m => \E i \in DOMAIN all : all[i] = rows[k]
               /\ \A i, j \in DOMAIN all :
                     all[i] = all[j] /\ (\A k, l \in DOMAIN rows : rows[k] = all[i] /\ rows[l] = all[i] => k = l)
                     => i = j
<1> DEFINE S == {i \in DOMAIN rows : rows[i] # m}
           n == Cardinality(S)
<1>1. Len(rows) \in Nat /\ DOMAIN rows = 1..Len(rows)
  BY RowFacts
<1>2. S \in SUBSET Nat /\ IsFiniteSet(S) /\ n \in Nat
  <2>1. PICK k \in Nat : DOMAIN rows = 1..k
    BY <1>1
  <2>2. IsFiniteSet(1..k)
    BY <2>1, FS_Interval
  <2>3. QED
    BY <2>1, <2>2, FS_Subset, FS_CardinalityType
<1>3. PICK kept : kept = Store!Ascending(S)
  OBVIOUS
<1>4. kept \in Injection(1..n, S)
  BY <1>2, <1>3, AscendingOrders
<1>5. kept \in Surjection(1..n, S)
  <2>1. IsFiniteSet(1..n) /\ Cardinality(1..n) = n
    BY <1>2, FS_Interval
  <2>2. QED
    BY <1>2, <1>4, <2>1, FS_Injection
<1>6. Store!Without(rows, m) = [k \in DOMAIN kept |-> rows[kept[k]]]
  BY <1>3 DEF Store!Without
<1> HIDE DEF n
<1>7. PICK all : all = Store!Without(rows, m)
  OBVIOUS
<1>8. /\ DOMAIN all = 1..n /\ \A i \in 1..n : all[i] = rows[kept[i]] /\ kept[i] \in S
      /\ \A i, j \in 1..n : kept[i] = kept[j] => i = j
      /\ \A k \in S : \E i \in 1..n : kept[i] = k
  BY <1>4, <1>5, <1>6, <1>7 DEF Injection, Surjection, IsInjective
<1>9. /\ \A i \in DOMAIN all : \E k \in DOMAIN rows : all[i] = rows[k] /\ rows[k] # m
      /\ \A k \in DOMAIN rows : rows[k] # m => \E i \in DOMAIN all : all[i] = rows[k]
      /\ \A i, j \in DOMAIN all :
            all[i] = all[j] /\ (\A k, l \in DOMAIN rows : rows[k] = all[i] /\ rows[l] = all[i] => k = l)
            => i = j
  <2>1. \A i, j \in DOMAIN all :
            all[i] = all[j] /\ (\A k, l \in DOMAIN rows : rows[k] = all[i] /\ rows[l] = all[i] => k = l)
            => kept[i] = kept[j]
    BY <1>8
  <2>2. QED
    BY <1>8, <2>1
<1>10. QED
  BY <1>7, <1>9

\* A page is the history of a group.
LEMMA PageIs ==
    ASSUME TabInv, NEW g
    PROVE  LET page == Store!Ascending(Store!History(g))
           IN  /\ \A i \in DOMAIN page : page[i] \in Store!History(g)
               /\ \A m \in Store!History(g) : \E i \in DOMAIN page : page[i] = m
               /\ \A i, j \in DOMAIN page : page[i] = page[j] => i = j
<1> DEFINE S == Store!History(g)
           n == Cardinality(S)
<1>1. S \subseteq DOMAIN stored
  BY DEF Store!History
<1> HIDE DEF S
<1>2. S \in SUBSET Nat /\ IsFiniteSet(S) /\ n \in Nat
  <2>1. PICK k \in Nat : DOMAIN stored = 1..k
    BY StoredFacts
  <2>2. IsFiniteSet(1..k)
    BY <2>1, FS_Interval
  <2>3. QED
    BY <1>1, <2>1, <2>2, FS_Subset, FS_CardinalityType
<1>3. PICK ids : ids = Store!Ascending(S)
  OBVIOUS
<1>4. ids \in Injection(1..n, S)
  BY <1>2, <1>3, AscendingOrders
<1>5. ids \in Surjection(1..n, S)
  <2>1. IsFiniteSet(1..n) /\ Cardinality(1..n) = n
    BY <1>2, FS_Interval
  <2>2. QED
    BY <1>2, <1>4, <2>1, FS_Injection
<1> HIDE DEF n
<1>6. /\ DOMAIN ids = 1..n /\ \A i \in 1..n : ids[i] \in S
      /\ \A i, j \in 1..n : ids[i] = ids[j] => i = j
      /\ \A m \in S : \E i \in 1..n : ids[i] = m
  BY <1>4, <1>5 DEF Injection, Surjection, IsInjective
<1>7. QED
  BY <1>3, <1>6 DEF S

\* Messages stay what they are, but for being deleted.
Same == \A m \in DOMAIN stored : /\ m \in DOMAIN stored'
                                 /\ stored'[m].in = stored[m].in /\ stored'[m].mine = stored[m].mine
                                 /\ Store!Alive(m)' => Store!Alive(m)

\* Rows stay right while messages are sent and deleted.
LEMMA RightStays ==
    ASSUME TabInv, Same, NEW rows, RowsFit(rows), NEW g, Right(rows, g),
           \A m \in DOMAIN stored :
              stored[m].in = g =>
                /\ Store!Alive(m) \/ Gone(m) => Store!Alive(m)' \/ Gone(m)'
                /\ ~stored[m].mine => (Pending(m)' => Pending(m)),
           \A m \in Store!History(g)' :
              \/ m \in Store!History(g) /\ (stored[m].mine \/ (Pending(m) => Pending(m)'))
              \/ ~stored'[m].mine /\ Pending(m)'
    PROVE  Right(rows, g)'
<1>1. \A i \in DOMAIN rows : rows[i] \in DOMAIN stored
  BY RowFacts DEF Right
<1>2. ASSUME NEW i \in DOMAIN rows
      PROVE  /\ rows[i] # 0 /\ stored'[rows[i]].in = g
             /\ Store!Alive(rows[i])' \/ Gone(rows[i])'
             /\ ~stored'[rows[i]].mine => /\ ~Pending(rows[i])'
                                          /\ \A j \in DOMAIN rows : rows[j] = rows[i] => i = j
  <2>1. PICK m \in DOMAIN stored : m = rows[i]
    BY <1>1
  <2>2. /\ m # 0 /\ stored[m].in = g /\ (Store!Alive(m) \/ Gone(m))
        /\ ~stored[m].mine => ~Pending(m) /\ \A j \in DOMAIN rows : rows[j] = rows[i] => i = j
    BY <2>1 DEF Right
  <2>3. stored'[m].in = g /\ stored'[m].mine = stored[m].mine
    BY <2>2 DEF Same
  <2>4. /\ Store!Alive(m)' \/ Gone(m)'
        /\ ~stored[m].mine => ~Pending(m)'
    BY <2>2
  <2>5. QED
    BY <2>1, <2>2, <2>3, <2>4
<1>3. ASSUME NEW m \in Store!History(g)'
      PROVE  (\E i \in DOMAIN rows : rows[i] = m) \/ (~stored'[m].mine /\ Pending(m)')
  <2>1. CASE m \in Store!History(g) /\ (stored[m].mine \/ (Pending(m) => Pending(m)'))
    <3>1. stored'[m].mine = stored[m].mine
      BY <2>1 DEF Same, Store!History
    <3>2. QED
      BY <2>1, <3>1 DEF Right
  <2>2. QED
    BY <2>1
<1>4. QED
  BY <1>2, <1>3 DEF Right

\* A row is added.
LEMMA RightAppend ==
    ASSUME TabInv, Same, NEW rows, RowsFit(rows), NEW g, Right(rows, g), NEW n,
           n \in DOMAIN stored', n # 0, stored'[n].in = g, Store!Alive(n)' \/ Gone(n)',
           ~stored'[n].mine => ~Pending(n)' /\ \A i \in DOMAIN rows : rows[i] # n,
           \A m \in DOMAIN stored :
              stored[m].in = g /\ m # n =>
                /\ Store!Alive(m) \/ Gone(m) => Store!Alive(m)' \/ Gone(m)'
                /\ ~stored[m].mine => (Pending(m)' => Pending(m)),
           \A m \in Store!History(g)' :
              m # n => m \in Store!History(g) /\ (stored[m].mine \/ (Pending(m) => Pending(m)'))
    PROVE  Right(Append(rows, n), g)'
<1>1. PICK all : all = Append(rows, n)
  OBVIOUS
<1>2. PICK k \in Nat : k = Len(rows) /\ DOMAIN rows = 1..k
  BY RowFacts
<1>3. /\ DOMAIN all = 1..(k + 1) /\ all[k + 1] = n
      /\ \A i \in 1..k : all[i] = rows[i]
  <2>1. PICK R : R = Row
    OBVIOUS
  <2>2. rows \in Seq(R)
    BY <2>1 DEF RowsFit
  <2>3. QED
    BY <1>1, <1>2, <2>2
<1>4. \A i \in DOMAIN all : (i \in DOMAIN rows /\ all[i] = rows[i]) \/ (i = k + 1 /\ all[i] = n)
  BY <1>2, <1>3
<1>5. DOMAIN rows \subseteq DOMAIN all /\ k + 1 \in DOMAIN all
  BY <1>2, <1>3
<1>6. \A i \in DOMAIN rows : rows[i] \in DOMAIN stored
  BY RowFacts DEF Right
<1>7. ASSUME NEW i \in DOMAIN all
      PROVE  /\ all[i] # 0 /\ stored'[all[i]].in = g
             /\ Store!Alive(all[i])' \/ Gone(all[i])'
             /\ ~stored'[all[i]].mine => /\ ~Pending(all[i])'
                                         /\ \A j \in DOMAIN all : all[j] = all[i] => i = j
  <2>1. CASE all[i] = n
    <3>1. /\ all[i] # 0 /\ stored'[all[i]].in = g
          /\ Store!Alive(all[i])' \/ Gone(all[i])'
          /\ ~stored'[all[i]].mine => ~Pending(all[i])'
      BY <2>1
    <3>2. ~stored'[n].mine => \A j \in DOMAIN all : all[j] = n => j = k + 1
      BY <1>4
    <3>3. QED
      BY <2>1, <3>1, <3>2
  <2>2. CASE i \in DOMAIN rows /\ all[i] = rows[i] /\ rows[i] # n
    <3>1. PICK m \in DOMAIN stored : m = rows[i]
      BY <1>6, <2>2
    <3>2. /\ m # 0 /\ stored[m].in = g /\ (Store!Alive(m) \/ Gone(m))
          /\ ~stored[m].mine => ~Pending(m) /\ \A j \in DOMAIN rows : rows[j] = rows[i] => i = j
      BY <2>2, <3>1 DEF Right
    <3>3. stored'[m].in = g /\ stored'[m].mine = stored[m].mine
      BY <3>2 DEF Same
    <3>4. /\ Store!Alive(m)' \/ Gone(m)'
          /\ ~stored[m].mine => ~Pending(m)'
      BY <2>2, <3>1, <3>2
    <3>5. ~stored[m].mine => \A j \in DOMAIN all : all[j] = all[i] => i = j
      BY <1>4, <2>2, <3>1, <3>2
    <3>6. QED
      BY <2>2, <3>1, <3>2, <3>3, <3>4, <3>5
  <2>3. QED
    BY <1>4, <2>1, <2>2
<1>8. ASSUME NEW m \in Store!History(g)'
      PROVE  (\E i \in DOMAIN all : all[i] = m) \/ (~stored'[m].mine /\ Pending(m)')
  <2>1. CASE m = n
    BY <1>3, <1>5, <2>1
  <2>2. CASE m # n
    <3>1. m \in Store!History(g) /\ (stored[m].mine \/ (Pending(m) => Pending(m)'))
      BY <2>2
    <3>2. stored'[m].mine = stored[m].mine
      BY <3>1 DEF Same, Store!History
    <3>3. (\E i \in DOMAIN rows : rows[i] = m) \/ (~stored[m].mine /\ Pending(m))
      BY <3>1 DEF Right
    <3>4. (\E i \in DOMAIN rows : rows[i] = m) => \E i \in DOMAIN all : all[i] = m
      BY <1>2, <1>3, <1>5
    <3>5. QED
      BY <3>1, <3>2, <3>3, <3>4
  <2>3. QED
    BY <2>1, <2>2
<1>9. Right(all, g)'
  BY <1>7, <1>8 DEF Right
<1>10. QED
  BY <1>1, <1>9

\* The rows of a deleted message are taken away.
LEMMA RightWithout ==
    ASSUME TabInv, Same, NEW rows, RowsFit(rows), NEW g, Right(rows, g), NEW n,
           n \notin Store!History(g)',
           \A m \in DOMAIN stored :
              stored[m].in = g /\ m # n =>
                /\ Store!Alive(m) \/ Gone(m) => Store!Alive(m)' \/ Gone(m)'
                /\ ~stored[m].mine => (Pending(m)' => Pending(m)),
           \A m \in Store!History(g)' :
              m \in Store!History(g) /\ (stored[m].mine \/ (Pending(m) => Pending(m)'))
    PROVE  Right(Store!Without(rows, n), g)'
<1>1. PICK all : all = Store!Without(rows, n)
  OBVIOUS
<1>2. \A i \in DOMAIN rows : rows[i] \in DOMAIN stored /\ rows[i] # 0
  BY RowFacts DEF Right
<1>3. /\ \A i \in DOMAIN all : \E k \in DOMAIN rows : all[i] = rows[k] /\ rows[k] # n
      /\ \A k \in DOMAIN rows : rows[k] # n => \E i \in DOMAIN all : all[i] = rows[k]
      /\ \A i, j \in DOMAIN all :
            all[i] = all[j] /\ (\A k, l \in DOMAIN rows : rows[k] = all[i] /\ rows[l] = all[i] => k = l)
            => i = j
  BY <1>1, <1>2, WithoutIs
<1>4. ASSUME NEW i \in DOMAIN all
      PROVE  /\ all[i] # 0 /\ stored'[all[i]].in = g
             /\ Store!Alive(all[i])' \/ Gone(all[i])'
             /\ ~stored'[all[i]].mine => /\ ~Pending(all[i])'
                                         /\ \A j \in DOMAIN all : all[j] = all[i] => i = j
  <2>1. PICK k \in DOMAIN rows : all[i] = rows[k] /\ rows[k] # n
    BY <1>3
  <2>2. PICK m \in DOMAIN stored : m = rows[k]
    BY <1>2
  <2>3. /\ m # 0 /\ stored[m].in = g /\ (Store!Alive(m) \/ Gone(m))
        /\ ~stored[m].mine => ~Pending(m)
    BY <2>1, <2>2 DEF Right
  <2>4. ~stored[m].mine => \A l, o \in DOMAIN rows : rows[l] = m /\ rows[o] = m => l = o
    BY <2>2 DEF Right
  <2>5. stored'[m].in = g /\ stored'[m].mine = stored[m].mine
    BY <2>3 DEF Same
  <2>6. /\ Store!Alive(m)' \/ Gone(m)'
        /\ ~stored[m].mine => ~Pending(m)'
    BY <2>1, <2>2, <2>3
  <2>7. ~stored[m].mine => \A j \in DOMAIN all : all[j] = all[i] => i = j
    BY <1>3, <2>1, <2>2, <2>4
  <2>8. QED
    BY <2>1, <2>2, <2>3, <2>5, <2>6, <2>7
<1>5. ASSUME NEW m \in Store!History(g)'
      PROVE  (\E i \in DOMAIN all : all[i] = m) \/ (~stored'[m].mine /\ Pending(m)')
  <2>1. m \in Store!History(g) /\ (stored[m].mine \/ (Pending(m) => Pending(m)')) /\ m # n
    OBVIOUS
  <2>2. stored'[m].mine = stored[m].mine
    BY <2>1 DEF Same, Store!History
  <2>3. QED
    BY <1>3, <2>1, <2>2 DEF Right
<1>6. Right(all, g)'
  BY <1>4, <1>5 DEF Right
<1>7. QED
  BY <1>1, <1>6

-----------------------------------------------------------------------------
LEMMA StoredSame == ASSUME TabInv, Store!Next PROVE Same
<1>1. /\ Len(stored) \in Nat /\ DOMAIN stored = 1..Len(stored)
      /\ \A m \in DOMAIN stored : stored[m] \in StoreMessage
      /\ stored \in Seq(StoreMessage)
  BY StoredFacts DEF TabInv, TabTyped
<1>2. ASSUME NEW h \in Group, NEW b \in BOOLEAN, stored' = Append(stored, [in |-> h, mine |-> b, deleted |-> FALSE])
      PROVE  Same
  <2>1. PICK n : n = [in |-> h, mine |-> b, deleted |-> FALSE]
    OBVIOUS
  <2>2. \A m \in DOMAIN stored : m \in DOMAIN stored' /\ stored'[m] = stored[m]
    BY <1>1, <1>2, <2>1
  <2>3. QED
    BY <2>2 DEF Same, Store!Alive
<1>3. ASSUME NEW n \in DOMAIN stored, stored' = [stored EXCEPT ![n].deleted = TRUE]
      PROVE  Same
  BY <1>1, <1>3 DEF Same, Store!Alive, StoreMessage
<1>4. CASE UNCHANGED stored
  BY <1>4 DEF Same, Store!Alive
<1>5. QED
  BY <1>2, <1>3, <1>4, StoredChanges

\* A message is added.
LEMMA MessageAdded ==
    ASSUME TabInv, NEW h \in Group, NEW b \in BOOLEAN, NEW n, n = Len(stored) + 1,
           stored' = Append(stored, [in |-> h, mine |-> b, deleted |-> FALSE])
    PROVE  /\ n # 0 /\ n \notin DOMAIN stored /\ Len(stored') = n
           /\ DOMAIN stored' = DOMAIN stored \cup {n}
           /\ stored'[n].in = h /\ stored'[n].mine = b /\ Store!Alive(n)'
           /\ \A m \in DOMAIN stored : stored'[m] = stored[m] /\ (Store!Alive(m)' <=> Store!Alive(m))
           /\ \A g : Store!History(g)' = IF g = h THEN Store!History(g) \cup {n} ELSE Store!History(g)
<1>1. PICK r : r = [in |-> h, mine |-> b, deleted |-> FALSE]
  OBVIOUS
<1>2. PICK k \in Nat : k = Len(stored) /\ DOMAIN stored = 1..k /\ stored \in Seq(StoreMessage)
  BY StoredFacts DEF TabInv, TabTyped
<1>3. /\ n = k + 1 /\ DOMAIN stored' = 1..n /\ Len(stored') = n /\ stored'[n] = r
      /\ \A m \in DOMAIN stored : stored'[m] = stored[m]
  <2>1. r \in StoreMessage
    BY <1>1 DEF StoreMessage
  <2>2. PICK S : S = StoreMessage
    OBVIOUS
  <2>3. stored \in Seq(S) /\ r \in S /\ stored' = Append(stored, r)
    BY <1>1, <1>2, <2>1, <2>2
  <2>4. QED
    BY <1>1, <1>2, <2>3
<1>4. n # 0 /\ n \notin DOMAIN stored /\ DOMAIN stored' = DOMAIN stored \cup {n}
  BY <1>2, <1>3
<1>5. stored'[n].in = h /\ stored'[n].mine = b /\ Store!Alive(n)'
  BY <1>1, <1>3, <1>4 DEF Store!Alive
<1>6. \A m \in DOMAIN stored : stored'[m] = stored[m] /\ (Store!Alive(m)' <=> Store!Alive(m))
  BY <1>3, <1>4 DEF Store!Alive
<1>7. \A g : Store!History(g)' = IF g = h THEN Store!History(g) \cup {n} ELSE Store!History(g)
  BY <1>4, <1>5, <1>6 DEF Store!History
<1>8. QED
  BY <1>3, <1>4, <1>5, <1>6, <1>7

\* A message is deleted.
LEMMA MessageGone ==
    ASSUME TabInv, NEW n \in DOMAIN stored, stored' = [stored EXCEPT ![n].deleted = TRUE]
    PROVE  /\ DOMAIN stored' = DOMAIN stored /\ ~Store!Alive(n)'
           /\ \A m \in DOMAIN stored : /\ stored'[m].in = stored[m].in /\ stored'[m].mine = stored[m].mine
                                       /\ m # n => (Store!Alive(m)' <=> Store!Alive(m))
           /\ \A g : Store!History(g)' = Store!History(g) \ {n}
<1>1. \A m \in DOMAIN stored : stored[m] \in StoreMessage
  BY StoredFacts
<1>2. /\ DOMAIN stored' = DOMAIN stored /\ ~Store!Alive(n)'
      /\ \A m \in DOMAIN stored : /\ stored'[m].in = stored[m].in /\ stored'[m].mine = stored[m].mine
                                  /\ m # n => (Store!Alive(m)' <=> Store!Alive(m))
  BY <1>1 DEF Store!Alive, StoreMessage
<1>3. \A g : Store!History(g)' = Store!History(g) \ {n}
  BY <1>2 DEF Store!History
<1>4. QED
  BY <1>2, <1>3

\* An event is added to those on the way.
LEMMA EventAppended ==
    ASSUME TabInv, NEW e \in RoomEvent, inbox' = Append(inbox, e)
    PROVE  LET k == Len(inbox) + 1
           IN  /\ DOMAIN inbox' = DOMAIN inbox \cup {k} /\ inbox'[k] = e
               /\ \A i \in DOMAIN inbox : inbox'[i] = inbox[i] /\ k > i /\ ~(i > k) /\ i # k
               /\ ~(k > k)
<1>1. PICK E, n : E = RoomEvent /\ n = Len(inbox)
  OBVIOUS
<1>2. inbox \in Seq(E) /\ e \in E /\ n \in Nat /\ DOMAIN inbox = 1..n
  BY <1>1, EventFacts
<1>3. /\ DOMAIN inbox' = 1..(n + 1) /\ inbox'[n + 1] = e
      /\ \A i \in 1..n : inbox'[i] = inbox[i]
  BY <1>1, <1>2
<1>4. DOMAIN inbox' = DOMAIN inbox \cup {n + 1} /\ \A i \in 1..n : n + 1 > i /\ ~(i > n + 1) /\ i # n + 1
  BY <1>2, <1>3
<1>5. ~(n + 1 > n + 1)
  BY <1>2
<1>6. QED
  BY <1>1, <1>2, <1>3, <1>4, <1>5

\* The first event is taken from those on the way.
LEMMA EventTaken ==
    ASSUME TabInv, inbox # <<>>, inbox' = Tail(inbox)
    PROVE  /\ 1 \in DOMAIN inbox /\ Head(inbox) = inbox[1]
           /\ \A i \in DOMAIN inbox' : /\ i + 1 \in DOMAIN inbox /\ i + 1 > 1 /\ i + 1 # 1
                                       /\ inbox'[i] = inbox[i + 1]
           /\ \A j \in DOMAIN inbox : j # 1 => \E i \in DOMAIN inbox' : j = i + 1
           /\ \A i, j \in DOMAIN inbox' : (i + 1 > j + 1 <=> i > j) /\ (i + 1 = j + 1 => i = j)
<1>1. PICK E, n : E = RoomEvent /\ n = Len(inbox)
  OBVIOUS
<1>2. inbox \in Seq(E) /\ n \in Nat /\ DOMAIN inbox = 1..n
  BY <1>1, EventFacts
<1>3. n # 0 /\ DOMAIN inbox' = 1..(n - 1) /\ Head(inbox) = inbox[1] /\ \A i \in 1..(n - 1) : inbox'[i] = inbox[i + 1]
  BY <1>1, <1>2
<1>4. \A j \in 1..n : j # 1 => j - 1 \in 1..(n - 1) /\ j = (j - 1) + 1
  BY <1>2
<1>5. \A i \in 1..(n - 1) : i + 1 \in 1..n /\ i + 1 > 1 /\ i + 1 # 1
  BY <1>2
<1>6. \A i, j \in 1..(n - 1) : (i + 1 > j + 1 <=> i > j) /\ (i + 1 = j + 1 => i = j)
  BY <1>2
<1>7. 1 \in 1..n
  BY <1>2, <1>3
<1>8. QED
  BY <1>2, <1>3, <1>4, <1>5, <1>6, <1>7

\* Nothing that matters to the rows changes.
LEMMA DataRests ==
    ASSUME UNCHANGED <<stored, unsent, undone, inbox>>, NEW g
    PROVE  /\ Flowing(g) => Flowing(g)'
           /\ \A rows : Right(rows, g) => Right(rows, g)'
           /\ \A m : Store!Alive(m)' <=> Store!Alive(m)
<1>1. \A m : /\ Store!Alive(m)' <=> Store!Alive(m)
             /\ Pending(m)' <=> Pending(m)
             /\ Gone(m)' <=> Gone(m)
  BY DEF Store!Alive, Pending, Gone, Announces, Deletes
<1>2. Store!History(g)' = Store!History(g)
  BY <1>1 DEF Store!History
<1>3. \A rows : Right(rows, g) => Right(rows, g)'
  BY <1>1, <1>2 DEF Right
<1>4. Flowing(g) => Flowing(g)'
  BY <1>1 DEF Flowing, Announces, Deletes
<1>5. QED
  BY <1>1, <1>3, <1>4

\* A request still puts right rows on the screen.
LEMMA RequestScreened ==
    ASSUME TabInv, Same, NEW q, Holds(q), ForScreen(q), NEW g, g = selectedGroup, g = selectedGroup',
           \A rows : RowsFit(rows) /\ Right(rows, g) => Right(rows, g)',
           q.kind \in {"delete", "refused"} /\ Right(groupMessages, g) => Right(groupMessages, g)'
    PROVE  ForScreen(q)'
<1>1. q.at = "sent" /\ q.kind = "send" => Right(q.captured, g)'
  BY DEF ForScreen, Holds
<1>2. q.at = "sent" /\ q.kind = "delete" => q.msg \in DOMAIN stored' /\ stored'[q.msg].in = g
  BY DEF ForScreen, Same
<1>3. q.at = "answered" /\ q.kind = "get" => Right(q.page, g)'
  BY DEF ForScreen, Holds
<1>4. q.at = "answered" /\ q.kind = "send" => Right(Append(q.captured, q.row), g)'
  BY RowAppended DEF ForScreen, Holds
<1>5. q.at = "answered" /\ q.kind = "delete" => q.msg \in DOMAIN stored' /\ ~Store!Alive(q.msg)'
  BY DEF ForScreen, Same
<1>6. q.kind \in {"delete", "refused"} => Right(groupMessages, g)'
  BY DEF ForScreen
<1>7. PICK all : all = Append(q.captured, q.row)
  OBVIOUS
<1>8. q.at = "answered" /\ q.kind = "send" => Right(Append(q.captured, q.row), selectedGroup)'
  BY <1>4
<1>9. q.kind \in {"delete", "refused"} => Right(groupMessages, selectedGroup)'
  BY <1>6
<1>10. q.at = "sent" => q.in = selectedGroup'
  BY DEF ForScreen
<1>11. QED
  BY <1>1, <1>2, <1>3, <1>5, <1>8, <1>9, <1>10 DEF ForScreen

\* Messages move, and the requests stay as they are.
LEMMA KeptScreened ==
    ASSUME TabInv, Same, Screened, UNCHANGED <<asked, selectedGroup, groupMessages>>,
           NEW g, g = selectedGroup, Flowing(g)',
           \A rows : RowsFit(rows) /\ Right(rows, g) => Right(rows, g)'
    PROVE  Screened'
<1>1. Store!Requests' = Store!Requests /\ \A s \in Store!Requests : asked'[s] = asked[s] /\ s \in Slot
  BY DEF Store!Requests, Store!Idle
<1>2. Right(groupMessages, g) => Right(groupMessages, g)'
  <2>1. PICK rows : rows = groupMessages
    OBVIOUS
  <2>2. RowsFit(rows) /\ rows = groupMessages'
    BY <2>1 DEF TabInv
  <2>3. Right(rows, g) => Right(rows, g)'
    BY <2>2
  <2>4. QED
    BY <2>1, <2>2, <2>3 DEF Right
<1>3. ASSUME NEW s \in Store!Requests PROVE ForScreen(asked[s])'
  <2>1. PICK q : q = asked[s] /\ q = asked'[s] /\ Holds(q) /\ ForScreen(q)
    BY <1>1 DEF Screened, TabInv, RequestsFit
  <2>2. ForScreen(q)'
    BY <1>2, <2>1, RequestScreened
  <2>3. QED
    BY <2>1, <2>2 DEF ForScreen
<1>4. Store!Requests' = {} => Right(groupMessages, selectedGroup)'
  BY <1>1, <1>2 DEF Screened
<1>5. Flowing(selectedGroup)'
  OBVIOUS
<1>6. QED
  BY <1>1, <1>3, <1>4, <1>5 DEF Screened

-----------------------------------------------------------------------------
\* Somebody else's message is saved: it is on its way.
LEMMA OthersSendScreened ==
    ASSUME TabInv, Same, Screened, NEW h \in Group, Store!OthersSend(h)
    PROVE  Screened'
<1>1. PICK g, n : g = selectedGroup /\ n = Len(stored) + 1
  OBVIOUS
<1>2. /\ stored' = Append(stored, [in |-> h, mine |-> FALSE, deleted |-> FALSE]) /\ unsent' = unsent \cup {Len(stored')}
      /\ UNCHANGED <<undone, inbox, asked, selectedGroup, groupMessages>>
  BY DEF Store!OthersSend, Store!Save, Store!screen
<1>3. /\ n # 0 /\ n \notin DOMAIN stored /\ Len(stored') = n
      /\ DOMAIN stored' = DOMAIN stored \cup {n}
      /\ stored'[n].in = h /\ stored'[n].mine = FALSE /\ Store!Alive(n)'
      /\ \A m \in DOMAIN stored : stored'[m] = stored[m] /\ (Store!Alive(m)' <=> Store!Alive(m))
      /\ Store!History(g)' = IF g = h THEN Store!History(g) \cup {n} ELSE Store!History(g)
  BY <1>1, <1>2, MessageAdded
<1>4. unsent' = unsent \cup {n} /\ unsent \subseteq DOMAIN stored /\ undone \subseteq DOMAIN stored
  BY <1>2, <1>3, StoredFacts
<1>5. \A i \in DOMAIN inbox : inbox[i].row # n
  BY <1>3, EventFacts
<1>6. \A m : m # n => (Pending(m)' <=> Pending(m)) /\ (Gone(m)' <=> Gone(m))
  BY <1>2, <1>4 DEF Pending, Gone, Announces, Deletes
<1>7. Flowing(g)
  BY <1>1 DEF Screened
<1>8. Flowing(g)'
  <2>1. \A m \in unsent' : ~stored'[m].mine
    BY <1>3, <1>4, <1>7 DEF Flowing
  <2>2. \A m \in undone' : ~Store!Alive(m)'
    BY <1>2, <1>3, <1>4, <1>7 DEF Flowing
  <2>3. \A i \in DOMAIN inbox' : /\ inbox'[i].row # 0 /\ inbox'[i].in = stored'[inbox'[i].row].in
                                 /\ inbox'[i].row \in DOMAIN stored
    BY <1>2, <1>3, <1>7, EventFacts DEF Flowing
  <2>4. \A i \in DOMAIN inbox', m \in DOMAIN stored' : Deletes(i, m)' => ~Store!Alive(m)'
    BY <1>2, <1>3, <1>5, <1>7 DEF Flowing, Deletes
  <2>5. \A i \in DOMAIN inbox', m \in DOMAIN stored' :
          Announces(i, m)' /\ stored'[m].in = g =>
             Store!Alive(m)' \/ m \in undone' \/ \E j \in DOMAIN inbox' : j > i /\ Deletes(j, m)'
    BY <1>2, <1>3, <1>5, <1>7 DEF Flowing, Announces, Deletes
  <2>6. \A i \in DOMAIN inbox', m \in DOMAIN stored' :
          Announces(i, m)' =>
             /\ m \notin unsent'
             /\ ~stored'[m].mine => \A j \in DOMAIN inbox' : Announces(j, m)' => i = j
    BY <1>2, <1>3, <1>4, <1>5, <1>7 DEF Flowing, Announces
  <2>7. QED
    BY <2>1, <2>2, <2>3, <2>4, <2>5, <2>6 DEF Flowing
<1>9. ASSUME NEW rows, RowsFit(rows), Right(rows, g) PROVE Right(rows, g)'
  <2>1. \A m \in DOMAIN stored :
              stored[m].in = g =>
                /\ Store!Alive(m) \/ Gone(m) => Store!Alive(m)' \/ Gone(m)'
                /\ ~stored[m].mine => (Pending(m)' => Pending(m))
    BY <1>3, <1>6
  <2>2. \A m \in Store!History(g)' :
              \/ m \in Store!History(g) /\ (stored[m].mine \/ (Pending(m) => Pending(m)'))
              \/ ~stored'[m].mine /\ Pending(m)'
    <3>1. Pending(n)'
      BY <1>4 DEF Pending
    <3>2. \A m \in Store!History(g) : m # n
      BY <1>3 DEF Store!History
    <3>3. QED
      BY <1>3, <1>6, <3>1, <3>2
  <2>3. QED
    BY <1>9, <2>1, <2>2, RightStays
<1>10. QED
  BY <1>1, <1>2, <1>8, <1>9, KeptScreened

\* The tab hears of a message that was not deleted meanwhile, as its socket is in the room.
LEMMA EmitSentScreened ==
    ASSUME TabInv, Same, Screened, ~Store!Meet, NEW n \in DOMAIN stored, Store!EmitSent(n)
    PROVE  Screened'
<1>1. PICK g, k, e : /\ g = selectedGroup /\ k = Len(inbox) + 1
                     /\ e = [event |-> "newGroupMessage", in |-> stored[n].in, row |-> n]
  OBVIOUS
<1>2. /\ n \in unsent /\ unsent' = unsent \ {n}
      /\ inbox' = IF stored[n].in \in room THEN Append(inbox, e) ELSE inbox
      /\ UNCHANGED <<stored, undone, asked, selectedGroup, groupMessages>>
  <2>1. n \in unsent /\ Store!Alive(n)
    BY DEF Store!EmitSent, Store!Meet
  <2>2. Store!NewMessage(n, Store!Reloaded(n)) = e
    BY <1>1, <2>1 DEF Store!NewMessage, Store!Reloaded
  <2>3. QED
    BY <2>1, <2>2 DEF Store!EmitSent, Store!Emit, Store!screen
<1>3. Store!Alive(n) /\ ~stored[n].mine /\ \A m : Store!Alive(m)' <=> Store!Alive(m)
  BY <1>2 DEF Store!Alive, Store!Meet, Screened, Flowing
<1>4. g \in room
  BY <1>1, <1>2 DEF Store!Meet, Store!OthersBusy, Store!Joining, TabInv, RoomsInv, Heading
<1>5. Flowing(g)
  BY <1>1 DEF Screened
<1>6. \/ inbox' = inbox /\ stored[n].in # g
      \/ /\ DOMAIN inbox' = DOMAIN inbox \cup {k} /\ inbox'[k] = e
         /\ \A i \in DOMAIN inbox : inbox'[i] = inbox[i] /\ k > i /\ ~(i > k) /\ i # k
         /\ ~(k > k)
  <2>1. e \in RoomEvent
    BY <1>1, StoredFacts DEF RoomEvent, StoreMessage
  <2>2. QED
    BY <1>1, <1>2, <1>4, <2>1, EventAppended
<1>7. e.event = "newGroupMessage" /\ e.row = n /\ e.in = stored[n].in /\ n # 0
  BY <1>1, StoredFacts
<1>8. \A i \in DOMAIN inbox : ~Announces(i, n)
  BY <1>2, <1>5 DEF Flowing
<1>9. /\ \A i \in DOMAIN inbox' : \/ i \in DOMAIN inbox /\ inbox'[i] = inbox[i]
                                  \/ i = k /\ inbox'[i] = e
      /\ \A i \in DOMAIN inbox : i \in DOMAIN inbox' /\ inbox'[i] = inbox[i]
  BY <1>6
<1>10. Flowing(g)'
  <2>1. \A m \in unsent' : ~stored'[m].mine
    BY <1>2, <1>5 DEF Flowing
  <2>2. \A m \in undone' : ~Store!Alive(m)'
    BY <1>2, <1>3, <1>5 DEF Flowing
  <2>3. \A i \in DOMAIN inbox' : inbox'[i].row # 0 /\ inbox'[i].in = stored'[inbox'[i].row].in
    BY <1>2, <1>5, <1>7, <1>9 DEF Flowing
  <2>4. \A i \in DOMAIN inbox', m \in DOMAIN stored' : Deletes(i, m)' => ~Store!Alive(m)'
    BY <1>2, <1>3, <1>5, <1>7, <1>9 DEF Flowing, Deletes
  <2>5. ASSUME NEW i \in DOMAIN inbox', NEW m \in DOMAIN stored', Announces(i, m)', stored'[m].in = g
        PROVE  Store!Alive(m)' \/ m \in undone' \/ \E j \in DOMAIN inbox' : j > i /\ Deletes(j, m)'
    <3>1. CASE i \in DOMAIN inbox /\ inbox'[i] = inbox[i]
      <4>1. Store!Alive(m) \/ m \in undone \/ \E j \in DOMAIN inbox : j > i /\ Deletes(j, m)
        BY <1>2, <1>5, <2>5, <3>1 DEF Flowing, Announces
      <4>2. QED
        BY <1>2, <1>3, <1>9, <4>1 DEF Deletes
    <3>2. CASE inbox'[i] = e
      BY <1>3, <1>7, <2>5, <3>2 DEF Announces
    <3>3. QED
      BY <1>9, <3>1, <3>2
  <2>6. ASSUME NEW i \in DOMAIN inbox', NEW m \in DOMAIN stored', Announces(i, m)'
        PROVE  /\ m \notin unsent'
               /\ ~stored'[m].mine => \A j \in DOMAIN inbox' : Announces(j, m)' => i = j
    <3>1. CASE m = n
      <4>1. \A j \in DOMAIN inbox' : Announces(j, n)' => j = k
        BY <1>8, <1>9 DEF Announces
      <4>2. QED
        BY <1>2, <2>6, <3>1, <4>1
    <3>2. CASE m # n
      <4>1. \A j \in DOMAIN inbox' : Announces(j, m)' => j \in DOMAIN inbox /\ Announces(j, m)
        BY <1>7, <1>9, <3>2 DEF Announces
      <4>2. QED
        BY <1>2, <1>5, <2>6, <4>1 DEF Flowing
    <3>3. QED
      BY <3>1, <3>2
  <2>7. QED
    BY <2>1, <2>2, <2>3, <2>4, <2>5, <2>6 DEF Flowing
<1>11. \A m : Gone(m)' <=> Gone(m)
  BY <1>2, <1>7, <1>9 DEF Gone, Deletes
<1>12. \A m \in DOMAIN stored : stored[m].in = g => (Pending(m)' <=> Pending(m))
  <2>1. \A m : m # n => (Pending(m)' <=> Pending(m))
    BY <1>2, <1>7, <1>9 DEF Pending, Announces
  <2>2. stored[n].in = g => Pending(n) /\ Pending(n)'
    BY <1>2, <1>6, <1>7 DEF Pending, Announces
  <2>3. QED
    BY <2>1, <2>2
<1>13. ASSUME NEW rows, RowsFit(rows), Right(rows, g) PROVE Right(rows, g)'
  <2>1. \A m \in Store!History(g)' : m \in Store!History(g) /\ m \in DOMAIN stored /\ stored[m].in = g
    BY <1>2, <1>3 DEF Store!History
  <2>2. QED
    BY <1>3, <1>11, <1>12, <1>13, <2>1, RightStays
<1>14. QED
  BY <1>1, <1>2, <1>10, <1>13, KeptScreened

\* Somebody deletes a message that has been sent out: its deletion is on its way.
LEMMA OthersDeleteScreened ==
    ASSUME TabInv, Same, Screened, NEW n \in DOMAIN stored, Store!OthersDelete(n)
    PROVE  Screened'
<1>1. PICK g : g = selectedGroup
  OBVIOUS
<1>2. /\ stored' = [stored EXCEPT ![n].deleted = TRUE] /\ undone' = undone \cup {n}
      /\ UNCHANGED <<unsent, inbox, asked, selectedGroup, groupMessages>>
  BY DEF Store!OthersDelete, Store!screen
<1>3. /\ DOMAIN stored' = DOMAIN stored /\ ~Store!Alive(n)'
      /\ \A m \in DOMAIN stored : /\ stored'[m].in = stored[m].in /\ stored'[m].mine = stored[m].mine
                                  /\ m # n => (Store!Alive(m)' <=> Store!Alive(m))
      /\ Store!History(g)' = Store!History(g) \ {n}
  BY <1>2, MessageGone
<1>4. Flowing(g) /\ unsent \subseteq DOMAIN stored /\ undone \subseteq DOMAIN stored
  BY <1>1, StoredFacts DEF Screened
<1>5. \A m : /\ Pending(m)' <=> Pending(m)
             /\ Gone(m)' <=> Gone(m) \/ m = n
  BY <1>2 DEF Pending, Gone, Announces, Deletes
<1>6. Flowing(g)'
  <2>1. \A m \in unsent' : ~stored'[m].mine
    BY <1>2, <1>3, <1>4 DEF Flowing
  <2>2. \A m \in undone' : ~Store!Alive(m)'
    BY <1>2, <1>3, <1>4 DEF Flowing
  <2>3. \A i \in DOMAIN inbox' : inbox'[i].row # 0 /\ inbox'[i].in = stored'[inbox'[i].row].in
    BY <1>2, <1>3, <1>4, EventFacts DEF Flowing
  <2>4. \A i \in DOMAIN inbox', m \in DOMAIN stored' : Deletes(i, m)' => ~Store!Alive(m)'
    BY <1>2, <1>3, <1>4 DEF Flowing, Deletes
  <2>5. \A i \in DOMAIN inbox', m \in DOMAIN stored' :
          Announces(i, m)' /\ stored'[m].in = g =>
             Store!Alive(m)' \/ m \in undone' \/ \E j \in DOMAIN inbox' : j > i /\ Deletes(j, m)'
    BY <1>2, <1>3, <1>4 DEF Flowing, Announces, Deletes
  <2>6. \A i \in DOMAIN inbox', m \in DOMAIN stored' :
          Announces(i, m)' =>
             /\ m \notin unsent'
             /\ ~stored'[m].mine => \A j \in DOMAIN inbox' : Announces(j, m)' => i = j
    BY <1>2, <1>3, <1>4 DEF Flowing, Announces
  <2>7. QED
    BY <2>1, <2>2, <2>3, <2>4, <2>5, <2>6 DEF Flowing
<1>7. ASSUME NEW rows, RowsFit(rows), Right(rows, g) PROVE Right(rows, g)'
  BY <1>3, <1>5, <1>7, RightStays
<1>8. QED
  BY <1>1, <1>2, <1>6, <1>7, KeptScreened

\* The tab hears of the deletion, as its socket is in the room.
LEMMA EmitDeletedScreened ==
    ASSUME TabInv, Same, Screened, ~Store!Meet, NEW n \in DOMAIN stored, Store!EmitDeleted(n)
    PROVE  Screened'
<1>1. PICK g, k, e : /\ g = selectedGroup /\ k = Len(inbox) + 1
                     /\ e = [event |-> "groupMessageDeleted", in |-> stored[n].in, row |-> n]
  OBVIOUS
<1>2. /\ n \in undone /\ undone' = undone \ {n}
      /\ inbox' = IF stored[n].in \in room THEN Append(inbox, e) ELSE inbox
      /\ UNCHANGED <<stored, unsent, asked, selectedGroup, groupMessages>>
  BY <1>1 DEF Store!EmitDeleted, Store!Emit, Store!MessageDeleted, Store!screen
<1>3. ~Store!Alive(n) /\ \A m : Store!Alive(m)' <=> Store!Alive(m)
  BY <1>2 DEF Store!Alive, Screened, Flowing
<1>4. g \in room
  BY <1>1, <1>2 DEF Store!Meet, Store!OthersBusy, Store!Joining, TabInv, RoomsInv, Heading
<1>5. Flowing(g)
  BY <1>1 DEF Screened
<1>6. \/ inbox' = inbox /\ stored[n].in # g
      \/ /\ DOMAIN inbox' = DOMAIN inbox \cup {k} /\ inbox'[k] = e
         /\ \A i \in DOMAIN inbox : inbox'[i] = inbox[i] /\ k > i /\ ~(i > k) /\ i # k
         /\ ~(k > k)
  <2>1. e \in RoomEvent
    BY <1>1, StoredFacts DEF RoomEvent, StoreMessage
  <2>2. QED
    BY <1>1, <1>2, <1>4, <2>1, EventAppended
<1>7. e.event = "groupMessageDeleted" /\ e.row = n /\ e.in = stored[n].in /\ n # 0
  BY <1>1, StoredFacts
<1>8. /\ \A i \in DOMAIN inbox' : \/ i \in DOMAIN inbox /\ inbox'[i] = inbox[i]
                                  \/ i = k /\ inbox'[i] = e
      /\ \A i \in DOMAIN inbox : i \in DOMAIN inbox' /\ inbox'[i] = inbox[i]
  BY <1>6
<1>9. \A i \in DOMAIN inbox' : \A m : Announces(i, m)' => i \in DOMAIN inbox /\ Announces(i, m)
  BY <1>7, <1>8 DEF Announces
<1>10. Flowing(g)'
  <2>1. \A m \in unsent' : ~stored'[m].mine
    BY <1>2, <1>5 DEF Flowing
  <2>2. \A m \in undone' : ~Store!Alive(m)'
    BY <1>2, <1>3, <1>5 DEF Flowing
  <2>3. \A i \in DOMAIN inbox' : inbox'[i].row # 0 /\ inbox'[i].in = stored'[inbox'[i].row].in
    BY <1>2, <1>5, <1>7, <1>8 DEF Flowing
  <2>4. \A i \in DOMAIN inbox', m \in DOMAIN stored' : Deletes(i, m)' => ~Store!Alive(m)'
    BY <1>2, <1>3, <1>5, <1>7, <1>8 DEF Flowing, Deletes
  <2>5. ASSUME NEW i \in DOMAIN inbox', NEW m \in DOMAIN stored', Announces(i, m)', stored'[m].in = g
        PROVE  Store!Alive(m)' \/ m \in undone' \/ \E j \in DOMAIN inbox' : j > i /\ Deletes(j, m)'
    <3>1. i \in DOMAIN inbox /\ Announces(i, m) /\ m \in DOMAIN stored /\ stored[m].in = g
      BY <1>2, <1>9, <2>5
    <3>2. Store!Alive(m) \/ m \in undone \/ \E j \in DOMAIN inbox : j > i /\ Deletes(j, m)
      BY <1>5, <3>1 DEF Flowing
    <3>3. m = n => k \in DOMAIN inbox' /\ k > i /\ Deletes(k, m)'
      BY <1>6, <1>7, <3>1 DEF Deletes
    <3>4. (\E j \in DOMAIN inbox : j > i /\ Deletes(j, m)) => \E j \in DOMAIN inbox' : j > i /\ Deletes(j, m)'
      BY <1>8 DEF Deletes
    <3>5. QED
      BY <1>2, <1>3, <3>2, <3>3, <3>4
  <2>6. \A i \in DOMAIN inbox', m \in DOMAIN stored' :
          Announces(i, m)' =>
             /\ m \notin unsent'
             /\ ~stored'[m].mine => \A j \in DOMAIN inbox' : Announces(j, m)' => i = j
    BY <1>2, <1>5, <1>9 DEF Flowing
  <2>7. QED
    BY <2>1, <2>2, <2>3, <2>4, <2>5, <2>6 DEF Flowing
<1>11. \A m : Pending(m)' <=> Pending(m)
  BY <1>2, <1>8, <1>9 DEF Pending, Announces
<1>12. \A m \in DOMAIN stored : stored[m].in = g /\ Gone(m) => Gone(m)'
  <2>1. \A m : m # n /\ Gone(m) => Gone(m)'
    BY <1>2, <1>8 DEF Gone, Deletes
  <2>2. stored[n].in = g => Gone(n)'
    BY <1>6, <1>7 DEF Gone, Deletes
  <2>3. QED
    BY <2>1, <2>2
<1>13. ASSUME NEW rows, RowsFit(rows), Right(rows, g) PROVE Right(rows, g)'
  <2>1. \A m \in Store!History(g)' : m \in Store!History(g)
    BY <1>2, <1>3 DEF Store!History
  <2>2. QED
    BY <1>3, <1>11, <1>12, <1>13, <2>1, RightStays
<1>14. QED
  BY <1>1, <1>2, <1>10, <1>13, KeptScreened

-----------------------------------------------------------------------------
\* A step changes one request.
LEMMA OneRequest ==
    ASSUME TabInv, NEW s \in Slot, NEW h, asked' = [asked EXCEPT ![s] = h]
    PROVE  /\ asked'[s] = h /\ \A r \in Slot : r # s => asked'[r] = asked[r]
           /\ \A r \in Slot : r # s => (r \in Store!Requests' <=> r \in Store!Requests)
           /\ s \in Store!Requests' <=> h # Store!Idle
           /\ Store!Requests \subseteq Slot /\ Store!Requests' \subseteq Slot
<1>1. asked'[s] = h /\ \A r \in Slot : r # s => asked'[r] = asked[r]
  BY DEF TabInv, RequestsFit
<1>2. \A r \in Slot : r # s => (r \in Store!Requests' <=> r \in Store!Requests)
  BY <1>1 DEF Store!Requests, Store!Idle
<1>3. s \in Store!Requests' <=> h # Store!Idle
  BY <1>1 DEF Store!Requests, Store!Idle
<1>4. Store!Requests \subseteq Slot /\ Store!Requests' \subseteq Slot
  BY DEF Store!Requests
<1>5. QED
  BY <1>1, <1>2, <1>3, <1>4

\* Loads of the open group are added to the requests under way.
LEMMA LoadScreened ==
    ASSUME TabInv, Same, Screened, UNCHANGED <<stored, unsent, undone, inbox, selectedGroup, groupMessages>>,
           NEW S, S # {}, S \subseteq Slot, Store!Load(S, selectedGroup)
    PROVE  Screened'
<1>1. PICK g : g = selectedGroup
  OBVIOUS
<1>2. /\ Flowing(g) => Flowing(g)'
      /\ \A rows : Right(rows, g) => Right(rows, g)'
  BY DataRests
<1>3. PICK h : h = [at |-> "sent", kind |-> "get", in |-> g]
  OBVIOUS
<1>4. h # Store!Idle /\ h.at = "sent" /\ h.kind = "get" /\ h.in = g
  BY <1>3 DEF Store!Idle
<1>5. asked' = [s \in Slot |-> IF s \in S THEN h ELSE asked[s]]
  BY <1>1, <1>3 DEF Store!Load
<1>6. S \subseteq Store!Requests'
  BY <1>4, <1>5 DEF Store!Requests
<1>7. ASSUME NEW s \in Store!Requests' PROVE ForScreen(asked[s])'
  <2>1. s \in Slot
    BY DEF Store!Requests
  <2>2. CASE s \in S
    <3>1. asked'[s] = h
      BY <1>5, <2>1, <2>2
    <3>2. QED
      BY <1>1, <1>4, <3>1 DEF ForScreen
  <2>3. CASE s \notin S
    <3>1. PICK q : q = asked[s] /\ q = asked'[s]
      BY <1>5, <2>1, <2>3
    <3>2. Holds(q) /\ ForScreen(q)
      BY <2>1, <3>1 DEF Screened, Store!Requests, Store!Idle, TabInv, RequestsFit
    <3>3. Right(groupMessages, g) => Right(groupMessages, g)'
      <4>1. PICK rows : rows = groupMessages
        OBVIOUS
      <4>2. QED
        BY <1>2, <4>1 DEF Right
    <3>4. ForScreen(q)'
      BY <1>1, <1>2, <3>2, <3>3, RequestScreened
    <3>5. QED
      BY <3>1, <3>4 DEF ForScreen
  <2>4. QED
    BY <2>2, <2>3
<1>8. Flowing(selectedGroup)'
  BY <1>1, <1>2 DEF Screened
<1>9. QED
  BY <1>6, <1>7, <1>8 DEF Screened

\* A message is sent or deleted from the tab: the one request under way.
LEMMA AskScreened ==
    ASSUME TabInv, Same, Apart', Screened, UNCHANGED <<stored, unsent, undone, inbox, selectedGroup, groupMessages>>,
           NEW s \in Slot, asked[s] = Store!Idle, NEW h, h # Store!Idle, asked' = [asked EXCEPT ![s] = h],
           h.at = "sent", h.in = selectedGroup,
           \/ h.kind = "send" /\ h.captured = groupMessages
           \/ h.kind = "delete" /\ \E i \in DOMAIN groupMessages : groupMessages[i] = h.msg
    PROVE  Screened'
<1>1. PICK g, rows : g = selectedGroup /\ rows = groupMessages
  OBVIOUS
<1>2. /\ Flowing(g) => Flowing(g)'
      /\ Right(rows, g) => Right(rows, g)'
  BY DataRests
<1>3. s \in Store!Requests' /\ asked'[s] = h /\ Store!Requests \subseteq Store!Requests'
  BY OneRequest DEF Store!Requests
<1>4. Store!Requests' = {s}
  BY <1>3 DEF Apart, Store!Sending
<1>5. Store!Requests = {}
  BY <1>3, <1>4 DEF Store!Requests
<1>6. Right(rows, g)
  BY <1>1, <1>5 DEF Screened
<1>7. Right(groupMessages, selectedGroup)'
  BY <1>1, <1>2, <1>6 DEF Right
<1>8. h.kind = "delete" => h.msg \in DOMAIN stored' /\ stored'[h.msg].in = g
  <2>1. \A i \in DOMAIN rows : rows[i] \in DOMAIN stored /\ stored[rows[i]].in = g
    BY <1>1, <1>6, RowFacts DEF Right, TabInv
  <2>2. QED
    BY <1>1, <2>1
<1>9. ForScreen(asked[s])'
  BY <1>1, <1>2, <1>3, <1>6, <1>7, <1>8 DEF ForScreen
<1>10. Flowing(selectedGroup)'
  BY <1>1, <1>2 DEF Screened
<1>11. QED
  BY <1>4, <1>9, <1>10 DEF Screened

\* The answer to a load is all there is of the group.
LEMMA GetScreened ==
    ASSUME TabInv, Same, Screened, ~Store!Meet, NEW s \in Slot, Store!GetGroupMessages(s)
    PROVE  Screened'
<1>1. PICK g, page : g = selectedGroup /\ page = Store!Ascending(Store!History(g))
  OBVIOUS
<1>2. PICK h : h = [at |-> "answered", kind |-> "get", page |-> page]
  OBVIOUS
<1>3. s \in Store!Requests /\ asked[s].in = g /\ g \in member
  BY <1>1 DEF Store!GetGroupMessages, Store!Asked, Store!Requests, Store!Idle, Screened, ForScreen, Store!Meet
<1>4. /\ asked' = [asked EXCEPT ![s] = h]
      /\ UNCHANGED <<stored, unsent, undone, inbox, selectedGroup, groupMessages>>
  BY <1>1, <1>2, <1>3 DEF Store!GetGroupMessages, Store!Answer, Store!server, Store!screen
<1>5. h # Store!Idle /\ h.at = "answered" /\ h.kind = "get" /\ h.page = page
  BY <1>2 DEF Store!Idle
<1>6. /\ Flowing(g) => Flowing(g)'
      /\ \A rows : Right(rows, g) => Right(rows, g)'
  BY <1>4, DataRests
<1>7. Right(page, g)
  <2>1. unsent = {} /\ undone = {} /\ \A i \in DOMAIN inbox : ~Store!Foreign(inbox[i])
    BY <1>3 DEF Store!Meet, Store!OthersBusy
  <2>2. \A m \in DOMAIN stored : ~stored[m].mine => ~Pending(m)
    BY <2>1 DEF Pending, Announces, Store!Foreign
  <2>3. /\ \A i \in DOMAIN page : page[i] \in Store!History(g)
        /\ \A m \in Store!History(g) : \E i \in DOMAIN page : page[i] = m
        /\ \A i, j \in DOMAIN page : page[i] = page[j] => i = j
    BY <1>1, PageIs
  <2>4. QED
    BY <2>2, <2>3, StoredFacts DEF Right, Store!History
<1>8. asked'[s] = h /\ s \in Store!Requests' /\ \A r \in Slot : r # s => asked'[r] = asked[r]
  BY <1>4, <1>5, OneRequest
<1>9. ASSUME NEW r \in Store!Requests' PROVE ForScreen(asked[r])'
  <2>1. r \in Slot
    BY DEF Store!Requests
  <2>2. CASE r = s
    <3>1. Right(page, g)'
      BY <1>6, <1>7
    <3>2. asked'[r].at = "answered" /\ asked'[r].kind = "get" /\ asked'[r].page = page /\ selectedGroup' = g
      BY <1>1, <1>4, <1>5, <1>8, <2>2
    <3>3. Right(asked[r].page, selectedGroup)'
      BY <3>1, <3>2 DEF Right
    <3>4. QED
      BY <3>2, <3>3 DEF ForScreen
  <2>3. CASE r # s
    <3>1. PICK q : q = asked[r] /\ q = asked'[r]
      BY <1>8, <2>1, <2>3
    <3>2. Holds(q) /\ ForScreen(q)
      BY <2>1, <3>1 DEF Screened, Store!Requests, Store!Idle, TabInv, RequestsFit
    <3>3. Right(groupMessages, g) => Right(groupMessages, g)'
      <4>1. PICK rows : rows = groupMessages
        OBVIOUS
      <4>2. QED
        BY <1>4, <1>6, <4>1 DEF Right
    <3>4. ForScreen(q)'
      BY <1>1, <1>4, <1>6, <3>2, <3>3, RequestScreened
    <3>5. QED
      BY <3>1, <3>4 DEF ForScreen
  <2>4. QED
    BY <2>2, <2>3
<1>10. Flowing(selectedGroup)'
  BY <1>1, <1>4, <1>6 DEF Screened
<1>11. QED
  BY <1>8, <1>9, <1>10 DEF Screened

\* A message sent or deleted is alone with its request.
LEMMA SoleRequest ==
    ASSUME TabInv, Apart, NEW s \in Store!Sending, NEW h, h # Store!Idle, asked' = [asked EXCEPT ![s] = h]
    PROVE  asked'[s] = h /\ Store!Requests' = {s}
<1>1. s \in Store!Requests /\ s \in Slot
  BY DEF Store!Sending, Store!Requests
<1>2. Store!Requests = {s}
  BY <1>1 DEF Apart
<1>3. /\ asked'[s] = h
      /\ \A r \in Slot : r # s => (r \in Store!Requests' <=> r \in Store!Requests)
      /\ s \in Store!Requests' /\ Store!Requests' \subseteq Slot
  BY <1>1, OneRequest
<1>4. QED
  BY <1>2, <1>3

\* A message of the tab is saved: its answer adds it to the rows it was sent from.
LEMMA SaveScreened ==
    ASSUME TabInv, Same, Apart, Screened, NEW s \in Slot, Store!SaveMessage(s), ~Store!Meet
    PROVE  Screened'
<1>1. PICK q, g, n, k : q = asked[s] /\ g = selectedGroup /\ n = Len(stored) + 1 /\ k = Len(inbox) + 1
  OBVIOUS
<1>2. PICK e : e = [event |-> "newGroupMessage", in |-> g, row |-> n]
  OBVIOUS
<1>3. PICK rows, h : rows = q.captured /\ h = [at |-> "answered", kind |-> "send", row |-> n, captured |-> rows]
  OBVIOUS
<1>4. s \in Store!Requests /\ q.at = "sent" /\ q.kind = "send" /\ s \in Store!Sending
  BY <1>1 DEF Store!SaveMessage, Store!Asked, Store!Requests, Store!Sending, Store!Idle
<1>5. Holds(q) /\ ForScreen(q)
  BY <1>1, <1>4 DEF TabInv, RequestsFit, Screened
<1>6. q.in = g /\ g \in member /\ g \in Group /\ RowsFit(rows) /\ Right(rows, g)
  BY <1>1, <1>3, <1>4, <1>5 DEF ForScreen, Holds, Store!Meet
<1>7. /\ stored' = Append(stored, [in |-> g, mine |-> TRUE, deleted |-> FALSE])
      /\ inbox' = IF g \in room THEN Append(inbox, e) ELSE inbox
      /\ asked' = [asked EXCEPT ![s] = h]
      /\ UNCHANGED <<unsent, undone, selectedGroup, groupMessages>>
  BY <1>1, <1>2, <1>3, <1>6 DEF Store!SaveMessage, Store!Save, Store!Emit, Store!Answer, Store!screen
<1>8. /\ n # 0 /\ n \notin DOMAIN stored /\ Len(stored') = n
      /\ DOMAIN stored' = DOMAIN stored \cup {n}
      /\ stored'[n].in = g /\ stored'[n].mine = TRUE /\ Store!Alive(n)'
      /\ \A m \in DOMAIN stored : stored'[m] = stored[m] /\ (Store!Alive(m)' <=> Store!Alive(m))
      /\ Store!History(g)' = Store!History(g) \cup {n}
  BY <1>1, <1>6, <1>7, MessageAdded
<1>9. n \in Nat
  BY <1>1, StoredFacts
<1>10. e.event = "newGroupMessage" /\ e.row = n /\ e.in = g /\ e \in RoomEvent
  BY <1>2, <1>6, <1>9 DEF RoomEvent
<1>11. /\ \A i \in DOMAIN inbox' : \/ i \in DOMAIN inbox /\ inbox'[i] = inbox[i]
                                   \/ i = k /\ inbox'[i] = e
       /\ \A i \in DOMAIN inbox : i \in DOMAIN inbox' /\ inbox'[i] = inbox[i]
  BY <1>1, <1>7, <1>10, EventAppended
<1>12. \A i \in DOMAIN inbox : inbox[i].row # n
  BY <1>8, EventFacts
<1>13. Flowing(g) /\ unsent \subseteq DOMAIN stored /\ undone \subseteq DOMAIN stored
  BY <1>1, StoredFacts DEF Screened
<1>14. \A i \in DOMAIN inbox' : \A m : m # n /\ (Announces(i, m)' \/ Deletes(i, m)') =>
          i \in DOMAIN inbox /\ (Announces(i, m)' => Announces(i, m)) /\ (Deletes(i, m)' => Deletes(i, m))
  BY <1>10, <1>11 DEF Announces, Deletes
<1>15. \A m : m # n => (Pending(m)' <=> Pending(m)) /\ (Gone(m)' <=> Gone(m))
  BY <1>7, <1>11, <1>14 DEF Pending, Gone, Announces, Deletes
<1>16. Flowing(g)'
  <2>1. \A m \in unsent' : ~stored'[m].mine
    BY <1>7, <1>8, <1>13 DEF Flowing
  <2>2. \A m \in undone' : ~Store!Alive(m)'
    BY <1>7, <1>8, <1>13 DEF Flowing
  <2>3. \A i \in DOMAIN inbox' : inbox'[i].row # 0 /\ inbox'[i].in = stored'[inbox'[i].row].in
    <3>1. \A i \in DOMAIN inbox : /\ inbox[i].row # 0 /\ inbox[i].in = stored'[inbox[i].row].in
      BY <1>8, <1>13, EventFacts DEF Flowing
    <3>2. QED
      BY <1>8, <1>10, <1>11, <3>1
  <2>4. \A i \in DOMAIN inbox', m \in DOMAIN stored' : Deletes(i, m)' => ~Store!Alive(m)'
    <3>1. \A i \in DOMAIN inbox' : ~Deletes(i, n)'
      BY <1>10, <1>11, <1>12 DEF Deletes
    <3>2. QED
      BY <1>8, <1>13, <1>14, <3>1 DEF Flowing
  <2>5. ASSUME NEW i \in DOMAIN inbox', NEW m \in DOMAIN stored', Announces(i, m)', stored'[m].in = g
        PROVE  Store!Alive(m)' \/ m \in undone' \/ \E j \in DOMAIN inbox' : j > i /\ Deletes(j, m)'
    <3>1. CASE m = n
      BY <1>8, <3>1
    <3>2. CASE m # n
      <4>1. i \in DOMAIN inbox /\ Announces(i, m) /\ m \in DOMAIN stored /\ stored[m].in = g
        BY <1>8, <1>14, <2>5, <3>2
      <4>2. Store!Alive(m) \/ m \in undone \/ \E j \in DOMAIN inbox : j > i /\ Deletes(j, m)
        BY <1>13, <4>1 DEF Flowing
      <4>3. QED
        BY <1>7, <1>8, <1>11, <4>1, <4>2 DEF Deletes
    <3>3. QED
      BY <3>1, <3>2
  <2>6. ASSUME NEW i \in DOMAIN inbox', NEW m \in DOMAIN stored', Announces(i, m)'
        PROVE  /\ m \notin unsent'
               /\ ~stored'[m].mine => \A j \in DOMAIN inbox' : Announces(j, m)' => i = j
    BY <1>7, <1>8, <1>13, <1>14, <2>6 DEF Flowing
  <2>7. QED
    BY <2>1, <2>2, <2>3, <2>4, <2>5, <2>6 DEF Flowing
<1>17. Right(Append(rows, n), g)'
  <2>1. \A m \in Store!History(g)' :
              m # n => m \in Store!History(g) /\ (stored[m].mine \/ (Pending(m) => Pending(m)'))
    BY <1>8, <1>15
  <2>2. QED
    BY <1>6, <1>8, <1>15, <2>1, RightAppend
<1>18. h # Store!Idle /\ h.at = "answered" /\ h.kind = "send" /\ h.row = n /\ h.captured = rows
  BY <1>3 DEF Store!Idle
<1>19. asked'[s] = h /\ Store!Requests' = {s}
  BY <1>4, <1>7, <1>18, SoleRequest
<1>20. ForScreen(asked[s])'
  <2>1. PICK all : all = Append(rows, n)
    OBVIOUS
  <2>2. Right(all, g)'
    BY <1>17, <2>1
  <2>3. asked'[s].at = "answered" /\ asked'[s].kind = "send" /\ Append(asked'[s].captured, asked'[s].row) = all
    BY <1>18, <1>19, <2>1
  <2>4. Right(Append(asked[s].captured, asked[s].row), selectedGroup)'
    <3>1. selectedGroup' = g
      BY <1>1, <1>7
    <3>2. QED
      BY <2>2, <2>3, <3>1 DEF Right
  <2>5. QED
    BY <2>3, <2>4 DEF ForScreen
<1>21. Flowing(selectedGroup)'
  BY <1>1, <1>7, <1>16
<1>22. QED
  BY <1>19, <1>20, <1>21 DEF Screened

\* A message is deleted from the tab: the tab hears of it, and so does the answer say.
LEMMA SoftDeleteScreened ==
    ASSUME TabInv, Same, Apart, Screened, NEW s \in Slot, Store!SoftDelete(s), ~Store!Meet
    PROVE  Screened'
<1>1. PICK q, g, k, rows : q = asked[s] /\ g = selectedGroup /\ k = Len(inbox) + 1 /\ rows = groupMessages
  OBVIOUS
<1>2. PICK n : n = q.msg
  OBVIOUS
<1>3. s \in Store!Requests /\ q.at = "sent" /\ q.kind = "delete" /\ s \in Store!Sending
  BY <1>1 DEF Store!SoftDelete, Store!Asked, Store!Requests, Store!Sending, Store!Idle
<1>4. /\ ForScreen(q) /\ Flowing(g) /\ RowsFit(rows) /\ Right(rows, g)
      /\ q.in = g /\ n \in DOMAIN stored /\ stored[n].in = g /\ g \in member /\ g \in Group
  BY <1>1, <1>2, <1>3 DEF Screened, ForScreen, Store!Meet, TabInv, RequestsFit, Holds
<1>5. CASE ~Store!Alive(n)
  <2>1. PICK h : h = [at |-> "answered", kind |-> "refused"]
    OBVIOUS
  <2>2. h # Store!Idle /\ h.at = "answered" /\ h.kind = "refused"
    BY <2>1 DEF Store!Idle
  <2>3. asked' = [asked EXCEPT ![s] = h] /\ UNCHANGED <<stored, unsent, undone, inbox, selectedGroup, groupMessages>>
    BY <1>1, <1>2, <1>5, <2>1 DEF Store!SoftDelete, Store!Refuse, Store!Answer, Store!screen
  <2>4. asked'[s] = h /\ Store!Requests' = {s}
    BY <1>3, <2>2, <2>3, SoleRequest
  <2>5. Flowing(g)' /\ Right(rows, g)'
    BY <1>4, <2>3, DataRests
  <2>6. Right(groupMessages, selectedGroup)' /\ Flowing(selectedGroup)'
    BY <1>1, <2>3, <2>5 DEF Right
  <2>7. ForScreen(asked[s])'
    BY <2>2, <2>4, <2>6 DEF ForScreen
  <2>8. QED
    BY <2>4, <2>6, <2>7 DEF Screened
<1>6. CASE Store!Alive(n)
  <2>1. PICK e, h : /\ e = [event |-> "groupMessageDeleted", in |-> g, row |-> n]
                    /\ h = [at |-> "answered", kind |-> "delete", msg |-> n]
    OBVIOUS
  <2>2. g \in room
    BY <1>1, <1>3 DEF Store!Meet, Store!Joining, TabInv, RoomsInv, Heading
  <2>3. /\ stored' = [stored EXCEPT ![n].deleted = TRUE] /\ inbox' = Append(inbox, e)
        /\ asked' = [asked EXCEPT ![s] = h]
        /\ UNCHANGED <<unsent, undone, selectedGroup, groupMessages>>
    BY <1>1, <1>2, <1>4, <1>6, <2>1, <2>2
       DEF Store!SoftDelete, Store!Emit, Store!MessageDeleted, Store!Answer, Store!screen
  <2>4. /\ DOMAIN stored' = DOMAIN stored /\ ~Store!Alive(n)'
        /\ \A m \in DOMAIN stored : /\ stored'[m].in = stored[m].in /\ stored'[m].mine = stored[m].mine
                                    /\ m # n => (Store!Alive(m)' <=> Store!Alive(m))
        /\ Store!History(g)' = Store!History(g) \ {n}
    BY <1>4, <2>3, MessageGone
  <2>5. e.event = "groupMessageDeleted" /\ e.row = n /\ e.in = g /\ e \in RoomEvent /\ n # 0
    BY <1>4, <2>1, StoredFacts DEF RoomEvent
  <2>6. /\ DOMAIN inbox' = DOMAIN inbox \cup {k} /\ inbox'[k] = e
        /\ \A i \in DOMAIN inbox : inbox'[i] = inbox[i] /\ k > i
    BY <1>1, <2>3, <2>5, EventAppended
  <2>7. /\ \A i \in DOMAIN inbox' : \/ i \in DOMAIN inbox /\ inbox'[i] = inbox[i]
                                    \/ i = k /\ inbox'[i] = e
        /\ \A i \in DOMAIN inbox : i \in DOMAIN inbox' /\ inbox'[i] = inbox[i]
    BY <2>6
  <2>8. \A i \in DOMAIN inbox' : \A m : Announces(i, m)' => i \in DOMAIN inbox /\ Announces(i, m)
    BY <2>5, <2>7 DEF Announces
  <2>9. \A m : (Pending(m)' <=> Pending(m)) /\ (Gone(m)' <=> Gone(m) \/ m = n)
    <3>1. \A m : Pending(m)' <=> Pending(m)
      BY <2>3, <2>7, <2>8 DEF Pending, Announces
    <3>2. \A m : Gone(m)' <=> Gone(m) \/ m = n
      BY <2>3, <2>5, <2>6, <2>7 DEF Gone, Deletes
    <3>3. QED
      BY <3>1, <3>2
  <2>10. Flowing(g)'
    <3>1. \A m \in unsent' : ~stored'[m].mine
      BY <1>4, <2>3, <2>4, StoredFacts DEF Flowing
    <3>2. \A m \in undone' : ~Store!Alive(m)'
      BY <1>4, <2>3, <2>4, StoredFacts DEF Flowing
    <3>3. \A i \in DOMAIN inbox' : inbox'[i].row # 0 /\ inbox'[i].in = stored'[inbox'[i].row].in
      <4>1. \A i \in DOMAIN inbox : /\ inbox[i].row # 0 /\ inbox[i].in = stored'[inbox[i].row].in
        BY <1>4, <2>4, EventFacts DEF Flowing
      <4>2. stored'[n].in = g
        BY <1>4, <2>4
      <4>3. QED
        BY <2>5, <2>7, <4>1, <4>2
    <3>4. \A i \in DOMAIN inbox', m \in DOMAIN stored' : Deletes(i, m)' => ~Store!Alive(m)'
      BY <1>4, <2>4, <2>5, <2>7 DEF Flowing, Deletes
    <3>5. ASSUME NEW i \in DOMAIN inbox', NEW m \in DOMAIN stored', Announces(i, m)', stored'[m].in = g
          PROVE  Store!Alive(m)' \/ m \in undone' \/ \E j \in DOMAIN inbox' : j > i /\ Deletes(j, m)'
      <4>1. i \in DOMAIN inbox /\ Announces(i, m) /\ m \in DOMAIN stored /\ stored[m].in = g
        BY <2>4, <2>8, <3>5
      <4>2. Store!Alive(m) \/ m \in undone \/ \E j \in DOMAIN inbox : j > i /\ Deletes(j, m)
        BY <1>4, <4>1 DEF Flowing
      <4>3. m = n => k \in DOMAIN inbox' /\ k > i /\ Deletes(k, m)'
        BY <2>5, <2>6, <4>1 DEF Deletes
      <4>4. (\E j \in DOMAIN inbox : j > i /\ Deletes(j, m)) => \E j \in DOMAIN inbox' : j > i /\ Deletes(j, m)'
        BY <2>7 DEF Deletes
      <4>5. QED
        BY <2>3, <2>4, <4>1, <4>2, <4>3, <4>4
    <3>6. \A i \in DOMAIN inbox', m \in DOMAIN stored' :
            Announces(i, m)' =>
               /\ m \notin unsent'
               /\ ~stored'[m].mine => \A j \in DOMAIN inbox' : Announces(j, m)' => i = j
      BY <1>4, <2>3, <2>4, <2>8 DEF Flowing
    <3>7. QED
      BY <3>1, <3>2, <3>3, <3>4, <3>5, <3>6 DEF Flowing
  <2>11. Right(rows, g)'
    BY <1>4, <2>4, <2>9, RightStays
  <2>12. Right(groupMessages, selectedGroup)' /\ Flowing(selectedGroup)'
    BY <1>1, <2>3, <2>10, <2>11 DEF Right
  <2>13. h # Store!Idle /\ h.at = "answered" /\ h.kind = "delete" /\ h.msg = n
    BY <2>1 DEF Store!Idle
  <2>14. asked'[s] = h /\ Store!Requests' = {s}
    BY <1>3, <2>3, <2>13, SoleRequest
  <2>15. ForScreen(asked[s])'
    BY <1>4, <2>4, <2>12, <2>13, <2>14 DEF ForScreen
  <2>16. QED
    BY <2>12, <2>14, <2>15 DEF Screened
<1>7. QED
  BY <1>5, <1>6

\* An answer is put on the screen; others that are under way are loads.
LEMMA ReceiveScreened ==
    ASSUME TabInv, Same, Apart, Screened, NEW s \in Slot, Store!Receive(s)
    PROVE  Screened'
<1>1. PICK q, g, all : q = asked[s] /\ g = selectedGroup /\ all = groupMessages'
  OBVIOUS
<1>2. /\ q.at = "answered" /\ asked' = [asked EXCEPT ![s] = Store!Idle]
      /\ UNCHANGED <<stored, unsent, undone, inbox, selectedGroup>>
  BY <1>1 DEF Store!Receive, Store!server
<1>3. s \in Store!Requests /\ Holds(q) /\ ForScreen(q) /\ Flowing(g)
  BY <1>1, <1>2 DEF Store!Requests, Store!Idle, TabInv, RequestsFit, Screened
<1>4. /\ Flowing(g)'
      /\ \A rows : Right(rows, g) => Right(rows, g)'
  BY <1>2, <1>3, DataRests
<1>5. Flowing(selectedGroup)'
  BY <1>1, <1>2, <1>4
<1>6. asked'[s] = Store!Idle /\ \A r \in Store!Requests' : r \in Store!Requests /\ r # s /\ asked'[r] = asked[r]
  BY <1>2, OneRequest
<1>7. ASSUME NEW r \in Store!Requests' PROVE ForScreen(asked[r])'
  <2>1. PICK p : p = asked[r] /\ p = asked'[r]
    BY <1>6
  <2>2. p.kind = "get"
    BY <1>3, <1>6, <2>1 DEF Apart, Store!Sending
  <2>3. Holds(p) /\ ForScreen(p)
    BY <1>6, <2>1 DEF Screened, Store!Requests, TabInv, RequestsFit
  <2>4. ForScreen(p)'
    BY <1>1, <1>2, <1>4, <2>2, <2>3, RequestScreened
  <2>5. QED
    BY <2>1, <2>4 DEF ForScreen
<1>8. Right(all, g)
  <2>1. CASE q.kind = "get"
    BY <1>1, <1>2, <1>3, <2>1 DEF Store!Receive, ForScreen
  <2>2. CASE q.kind = "send"
    BY <1>1, <1>2, <1>3, <2>2 DEF Store!Receive, ForScreen
  <2>3. CASE q.kind = "delete"
    <3>1. PICK rows, n : rows = groupMessages /\ n = q.msg
      OBVIOUS
    <3>2. RowsFit(rows) /\ Right(rows, g) /\ ~Store!Alive(n)
      BY <1>1, <1>2, <1>3, <2>3, <3>1 DEF TabInv, ForScreen
    <3>3. all = Store!Without(rows, n)
      BY <1>1, <2>3, <3>1 DEF Store!Receive
    <3>4. \A i \in DOMAIN rows : rows[i] # 0
      BY <3>2 DEF Right
    <3>5. /\ \A i \in DOMAIN all : \E k \in DOMAIN rows : all[i] = rows[k] /\ rows[k] # n
          /\ \A k \in DOMAIN rows : rows[k] # n => \E i \in DOMAIN all : all[i] = rows[k]
          /\ \A i, j \in DOMAIN all :
                all[i] = all[j] /\ (\A k, l \in DOMAIN rows : rows[k] = all[i] /\ rows[l] = all[i] => k = l)
                => i = j
      BY <3>2, <3>3, <3>4, WithoutIs
    <3>6. n \notin Store!History(g)
      BY <3>2 DEF Store!History
    <3>7. ASSUME NEW i \in DOMAIN all
          PROVE  /\ all[i] # 0 /\ stored[all[i]].in = g
                 /\ Store!Alive(all[i]) \/ Gone(all[i])
                 /\ ~stored[all[i]].mine => /\ ~Pending(all[i])
                                            /\ \A j \in DOMAIN all : all[j] = all[i] => i = j
      <4>1. PICK k \in DOMAIN rows : all[i] = rows[k]
        BY <3>5
      <4>2. QED
        BY <3>2, <3>5, <4>1 DEF Right
    <3>8. ASSUME NEW m \in Store!History(g)
          PROVE  (\E i \in DOMAIN all : all[i] = m) \/ (~stored[m].mine /\ Pending(m))
      BY <3>2, <3>5, <3>6 DEF Right
    <3>9. QED
      BY <3>7, <3>8 DEF Right
  <2>4. CASE q.kind = "refused"
    BY <1>1, <1>3, <2>4 DEF Store!Receive, ForScreen
  <2>5. QED
    BY <1>2, <1>3, <2>1, <2>2, <2>3, <2>4 DEF Holds
<1>9. Right(groupMessages, selectedGroup)'
  BY <1>1, <1>2, <1>4, <1>8 DEF Right
<1>10. QED
  BY <1>5, <1>7, <1>9 DEF Screened

\* The tab takes an event: the others stay in their order.
LEMMA TakenFlows ==
    ASSUME TabInv, NEW g, Flowing(g), UNCHANGED <<stored, unsent, undone>>, inbox # <<>>, inbox' = Tail(inbox)
    PROVE  /\ Flowing(g)'
           /\ \A m : /\ Pending(m) <=> Pending(m)' \/ Announces(1, m)
                     /\ Gone(m) <=> Gone(m)' \/ Deletes(1, m)
           /\ \A m \in DOMAIN stored : ~stored[m].mine /\ Announces(1, m) => ~Pending(m)'
           /\ \A m \in DOMAIN stored : Announces(1, m) /\ stored[m].in = g => Store!Alive(m) \/ Gone(m)'
<1>1. /\ 1 \in DOMAIN inbox
      /\ \A i \in DOMAIN inbox' : i + 1 \in DOMAIN inbox /\ i + 1 > 1 /\ i + 1 # 1 /\ inbox'[i] = inbox[i + 1]
      /\ \A j \in DOMAIN inbox : j # 1 => \E i \in DOMAIN inbox' : j = i + 1
      /\ \A i, j \in DOMAIN inbox' : (i + 1 > j + 1 <=> i > j) /\ (i + 1 = j + 1 => i = j)
  BY EventTaken
<1>2. \A m : Store!Alive(m)' <=> Store!Alive(m)
  BY DEF Store!Alive
<1>3. \A i \in DOMAIN inbox' : \A m : /\ Announces(i, m)' <=> Announces(i + 1, m)
                                      /\ Deletes(i, m)' <=> Deletes(i + 1, m)
  BY <1>1 DEF Announces, Deletes
<1>4. \A m : /\ Pending(m) <=> Pending(m)' \/ Announces(1, m)
             /\ Gone(m) <=> Gone(m)' \/ Deletes(1, m)
  BY <1>1, <1>3 DEF Pending, Gone
<1>5. \A m \in DOMAIN stored : ~stored[m].mine /\ Announces(1, m) => ~Pending(m)'
  BY <1>1, <1>3 DEF Flowing, Pending
<1>6. ASSUME NEW j \in DOMAIN inbox, j # 1 PROVE \E i \in DOMAIN inbox' : j = i + 1
  BY <1>1, <1>6
<1>7. ASSUME NEW m \in DOMAIN stored, Announces(1, m), stored[m].in = g PROVE Store!Alive(m) \/ Gone(m)'
  <2>1. Store!Alive(m) \/ m \in undone \/ \E j \in DOMAIN inbox : j > 1 /\ Deletes(j, m)
    BY <1>1, <1>7 DEF Flowing
  <2>2. ASSUME NEW j \in DOMAIN inbox, j > 1, Deletes(j, m) PROVE Gone(m)'
    <3>1. j # 1
      BY <2>2
    <3>2. PICK i \in DOMAIN inbox' : j = i + 1
      BY <1>6, <3>1
    <3>3. QED
      BY <1>3, <2>2, <3>2 DEF Gone
  <2>3. QED
    BY <2>1, <2>2 DEF Gone
<1>8. Flowing(g)'
  <2>1. \A m \in unsent' : ~stored'[m].mine
    BY DEF Flowing
  <2>2. \A m \in undone' : ~Store!Alive(m)'
    BY <1>2 DEF Flowing
  <2>3. \A i \in DOMAIN inbox' : inbox'[i].row # 0 /\ inbox'[i].in = stored'[inbox'[i].row].in
    BY <1>1 DEF Flowing
  <2>4. \A i \in DOMAIN inbox', m \in DOMAIN stored' : Deletes(i, m)' => ~Store!Alive(m)'
    BY <1>1, <1>2, <1>3 DEF Flowing
  <2>5. ASSUME NEW i \in DOMAIN inbox', NEW m \in DOMAIN stored', Announces(i, m)', stored'[m].in = g
        PROVE  Store!Alive(m)' \/ m \in undone' \/ \E j \in DOMAIN inbox' : j > i /\ Deletes(j, m)'
    <3>1. Store!Alive(m) \/ m \in undone \/ \E j \in DOMAIN inbox : j > i + 1 /\ Deletes(j, m)
      BY <1>1, <1>3, <2>5 DEF Flowing
    <3>2. ASSUME NEW j \in DOMAIN inbox, j > i + 1, Deletes(j, m)
          PROVE  \E l \in DOMAIN inbox' : l > i /\ Deletes(l, m)'
      <4>1. j # 1
        <5>1. DOMAIN inbox \subseteq Nat /\ i + 1 > 1 /\ i + 1 \in DOMAIN inbox
          BY <1>1, EventFacts
        <5>2. QED
          BY <3>2, <5>1
      <4>2. PICK l \in DOMAIN inbox' : j = l + 1
        BY <1>6, <4>1
      <4>3. QED
        BY <1>1, <1>3, <3>2, <4>2
    <3>3. QED
      BY <1>2, <3>1, <3>2
  <2>6. \A i \in DOMAIN inbox', m \in DOMAIN stored' :
          Announces(i, m)' =>
             /\ m \notin unsent'
             /\ ~stored'[m].mine => \A j \in DOMAIN inbox' : Announces(j, m)' => i = j
    BY <1>1, <1>3 DEF Flowing
  <2>7. QED
    BY <2>1, <2>2, <2>3, <2>4, <2>5, <2>6 DEF Flowing
<1>9. QED
  BY <1>4, <1>5, <1>7, <1>8

\* The one handler that is subscribed appends the row, or takes it away.
LEMMA EventScreened ==
    ASSUME TabInv, Same, Apart, Screened, ~Store!Meet, Store!ReceiveEvent
    PROVE  Screened'
<1>1. PICK g, e, n, rows : g = selectedGroup /\ e = inbox[1] /\ n = inbox[1].row /\ rows = groupMessages
  OBVIOUS
<1>2. /\ inbox # <<>> /\ inbox' = Tail(inbox) /\ Head(inbox) = e /\ 1 \in DOMAIN inbox /\ n = e.row
      /\ UNCHANGED <<stored, unsent, undone, asked, selectedGroup>>
  BY <1>1, EventTaken DEF Store!ReceiveEvent, Store!server
<1>3. Flowing(g)
  BY <1>1 DEF Screened
<1>4. /\ Flowing(g)'
      /\ \A m : /\ Pending(m) <=> Pending(m)' \/ Announces(1, m)
                /\ Gone(m) <=> Gone(m)' \/ Deletes(1, m)
      /\ \A m \in DOMAIN stored : ~stored[m].mine /\ Announces(1, m) => ~Pending(m)'
      /\ \A m \in DOMAIN stored : Announces(1, m) /\ stored[m].in = g => Store!Alive(m) \/ Gone(m)'
  BY <1>2, <1>3, TakenFlows
<1>5. /\ e.event \in {"newGroupMessage", "groupMessageDeleted"} /\ n # 0 /\ n \in DOMAIN stored
      /\ e.in = stored[n].in
  BY <1>1, <1>2, <1>3, EventFacts DEF Flowing
<1>6. listeners = 1
  BY DEF TabInv, TabTyped, Store!Meet, Store!Shown
<1>7. (\A m : Store!Alive(m)' <=> Store!Alive(m)) /\ Store!History(g)' = Store!History(g)
  BY <1>2 DEF Store!Alive, Store!History
<1>8. Store!Requests' = Store!Requests /\ \A s \in Store!Requests : s \in Slot /\ asked'[s] = asked[s] /\ Holds(asked[s])
  BY <1>2 DEF Store!Requests, Store!Idle, TabInv, RequestsFit
<1>9. \A m : /\ m # n => (Pending(m)' <=> Pending(m)) /\ (Gone(m)' <=> Gone(m))
             /\ e.event = "newGroupMessage" => (Gone(m)' <=> Gone(m))
             /\ e.event = "groupMessageDeleted" => (Pending(m)' <=> Pending(m))
  BY <1>1, <1>4 DEF Announces, Deletes
<1>10. RowsFit(rows)
  BY <1>1 DEF TabInv
<1>11. CASE e.in # g
  <2>1. groupMessages' = groupMessages
    BY <1>1, <1>2, <1>11 DEF Store!ReceiveEvent, Store!OnNewMessage, Store!OnMessageDeleted
  <2>2. ASSUME NEW some, RowsFit(some), Right(some, g) PROVE Right(some, g)'
    <3>1. \A m \in Store!History(g) : m # n
      BY <1>5, <1>11 DEF Store!History
    <3>2. \A m \in DOMAIN stored : stored[m].in = g => m # n
      BY <1>5, <1>11
    <3>3. QED
      BY <1>7, <1>9, <2>2, <3>1, <3>2, RightStays
  <2>3. QED
    BY <1>1, <1>2, <1>4, <2>1, <2>2, KeptScreened
<1>12. CASE e.in = g /\ e.event = "newGroupMessage"
  <2>1. groupMessages' = Append(rows, n)
    <3>1. groupMessages' = rows \o [i \in 1..1 |-> n]
      BY <1>1, <1>2, <1>6, <1>12 DEF Store!ReceiveEvent, Store!OnNewMessage
    <3>2. PICK R : R = Row
      OBVIOUS
    <3>3. rows \in Seq(R) /\ n \in R
      BY <1>5, <1>10, <3>2 DEF RowsFit, Row
    <3>4. [i \in 1..1 |-> n] = <<n>>
      OBVIOUS
    <3>5. rows \o <<n>> = Append(rows, n)
      BY <3>3
    <3>6. QED
      BY <3>1, <3>4, <3>5
  <2>2. Announces(1, n) /\ Pending(n) /\ (Store!Alive(n)' \/ Gone(n)')
    BY <1>1, <1>2, <1>4, <1>5, <1>7, <1>12 DEF Announces
  <2>3. PICK all : all = Append(rows, n)
    OBVIOUS
  <2>4. ASSUME Right(rows, g) PROVE Right(groupMessages, g)'
    <3>1. ~stored'[n].mine => ~Pending(n)' /\ \A i \in DOMAIN rows : rows[i] # n
      BY <1>2, <1>4, <1>5, <2>2, <2>4 DEF Right
    <3>2. n \in DOMAIN stored' /\ stored'[n].in = g
      BY <1>2, <1>5, <1>12
    <3>3. \A m \in DOMAIN stored :
              stored[m].in = g /\ m # n =>
                /\ Store!Alive(m) \/ Gone(m) => Store!Alive(m)' \/ Gone(m)'
                /\ ~stored[m].mine => (Pending(m)' => Pending(m))
      BY <1>7, <1>9
    <3>4. \A m \in Store!History(g)' :
              m # n => m \in Store!History(g) /\ (stored[m].mine \/ (Pending(m) => Pending(m)'))
      BY <1>7, <1>9
    <3>5. Right(Append(rows, n), g)'
      BY <1>5, <1>10, <2>2, <2>4, <3>1, <3>2, <3>3, <3>4, RightAppend
    <3>6. Right(all, g)' /\ groupMessages' = all
      BY <2>1, <2>3, <3>5
    <3>7. QED
      BY <3>6 DEF Right
  <2>5. CASE stored[n].mine
    <3>1. ASSUME NEW some, RowsFit(some), Right(some, g) PROVE Right(some, g)'
      <4>1. \A m \in DOMAIN stored : ~stored[m].mine => m # n
        BY <2>5
      <4>2. \A m \in Store!History(g) : stored[m].mine \/ m # n
        BY <2>5
      <4>3. QED
        BY <1>7, <1>9, <1>12, <3>1, <4>1, <4>2, RightStays
    <3>2. Right(groupMessages, g) => Right(groupMessages, g)'
      BY <1>1, <2>4
    <3>3. ASSUME NEW s \in Store!Requests PROVE ForScreen(asked[s])'
      <4>1. PICK q : q = asked[s] /\ q = asked'[s]
        BY <1>8
      <4>2. Holds(q) /\ ForScreen(q)
        BY <1>8, <4>1 DEF Screened
      <4>3. ForScreen(q)'
        BY <1>1, <1>2, <3>1, <3>2, <4>2, RequestScreened
      <4>4. QED
        BY <4>1, <4>3 DEF ForScreen
    <3>4. Store!Requests' = {} => Right(groupMessages, selectedGroup)'
      BY <1>1, <1>2, <1>8, <3>2 DEF Screened
    <3>5. Flowing(selectedGroup)'
      BY <1>1, <1>2, <1>4
    <3>6. QED
      BY <1>8, <3>3, <3>4, <3>5 DEF Screened
  <2>6. CASE ~stored[n].mine
    <3>1. Store!Foreign(inbox[1])
      BY <1>1, <2>6 DEF Store!Foreign
    <3>2. Store!Requests = {}
      BY <1>2, <3>1 DEF Store!Meet, Store!OthersBusy
    <3>3. Right(groupMessages, g)'
      BY <1>1, <2>4, <3>2 DEF Screened
    <3>4. Right(groupMessages, selectedGroup)' /\ Flowing(selectedGroup)'
      BY <1>1, <1>2, <1>4, <3>3
    <3>5. QED
      BY <1>8, <3>2, <3>4 DEF Screened
  <2>7. QED
    BY <2>5, <2>6
<1>13. CASE e.in = g /\ e.event = "groupMessageDeleted"
  <2>1. groupMessages' = Store!Without(rows, n)
    BY <1>1, <1>2, <1>6, <1>13 DEF Store!ReceiveEvent, Store!OnMessageDeleted
  <2>2. ~Store!Alive(n)
    BY <1>1, <1>2, <1>3, <1>5, <1>13 DEF Flowing, Deletes
  <2>3. \A s \in Store!Requests : asked[s].kind = "delete"
    BY <1>1, <1>2, <1>13 DEF Store!Meet, Store!Deletions, Store!Requests
  <2>4. Right(rows, g)
    BY <1>1, <2>3 DEF Screened, ForScreen
  <2>5. PICK all : all = Store!Without(rows, n)
    OBVIOUS
  <2>6. n \notin Store!History(g)'
    BY <1>7, <2>2 DEF Store!History
  <2>7. \A m \in DOMAIN stored :
              stored[m].in = g /\ m # n =>
                /\ Store!Alive(m) \/ Gone(m) => Store!Alive(m)' \/ Gone(m)'
                /\ ~stored[m].mine => (Pending(m)' => Pending(m))
    BY <1>7, <1>9
  <2>8. \A m \in Store!History(g)' :
              m \in Store!History(g) /\ (stored[m].mine \/ (Pending(m) => Pending(m)'))
    BY <1>7, <1>9, <1>13
  <2>9. Right(Store!Without(rows, n), g)'
    BY <1>10, <2>4, <2>6, <2>7, <2>8, RightWithout
  <2>10. Right(all, g)' /\ groupMessages' = all /\ selectedGroup' = g
    BY <1>1, <1>2, <2>1, <2>5, <2>9
  <2>11. Right(groupMessages, selectedGroup)'
    BY <2>10 DEF Right
  <2>12. Flowing(selectedGroup)'
    BY <1>1, <1>2, <1>4
  <2>13. ASSUME NEW s \in Store!Requests PROVE ForScreen(asked[s])'
    <3>1. PICK q : q = asked[s] /\ q = asked'[s]
      BY <1>8
    <3>2. q.kind = "delete" /\ ForScreen(q)
      BY <2>3, <3>1 DEF Screened
    <3>3. ForScreen(q)'
      BY <1>2, <1>7, <2>11, <3>2 DEF ForScreen
    <3>4. QED
      BY <3>1, <3>3 DEF ForScreen
  <2>14. QED
    BY <1>8, <2>11, <2>12, <2>13 DEF Screened
<1>14. QED
  BY <1>5, <1>11, <1>12, <1>13

-----------------------------------------------------------------------------
\* A group is opened, or come back to, while nothing is under way: only loads of it are.
LEMMA OpenScreened ==
    ASSUME TabInv, ~Store!Meet', Store!Requests = {}, NEW h \in Group, NEW S, S # {}, S \subseteq Slot,
           Store!CleanupAndEffect(h), Store!Load(S, h), selectedGroup' = h,
           UNCHANGED <<stored, unsent, undone, inbox>>
    PROVE  Screened'
<1>1. PICK q : q = [at |-> "sent", kind |-> "get", in |-> h]
  OBVIOUS
<1>2. q # Store!Idle /\ q.at = "sent" /\ q.kind = "get" /\ q.in = h
  BY <1>1 DEF Store!Idle
<1>3. asked' = [s \in Slot |-> IF s \in S THEN q ELSE asked[s]]
  BY <1>1 DEF Store!Load
<1>4. S = Store!Requests' /\ \A s \in S : asked'[s] = q
  BY <1>2, <1>3 DEF Store!Requests
<1>5. \A s \in Store!Requests' : ForScreen(asked[s])'
  BY <1>2, <1>4 DEF ForScreen
<1>6. Store!Joining'
  <2>1. uplink' # <<>>
    <3>1. Len(uplink') \in Nat \ {0}
      BY JoinIsLast DEF Store!CleanupAndEffect
    <3>2. QED
      BY <3>1
  <2>2. QED
    BY <2>1 DEF Store!Joining
<1>7. unsent' = {} /\ undone' = {} /\ inbox' = <<>>
  BY <1>4, <1>6 DEF Store!Meet, Store!OthersBusy
<1>8. Flowing(selectedGroup)'
  BY <1>7 DEF Flowing, Announces, Deletes
<1>9. QED
  BY <1>4, <1>5, <1>8 DEF Screened

LEMMA RequestsFinite ==
    ASSUME TabInv, IsFiniteSet(Store!Requests), Store!Next
    PROVE  IsFiniteSet(Store!Requests')
<1>1. ASSUME NEW S, IsFiniteSet(S), NEW g, Store!Load(S, g) PROVE IsFiniteSet(Store!Requests')
  <2>1. Store!Requests' \subseteq Store!Requests \cup S
    BY <1>1 DEF Store!Load, Store!Requests
  <2>2. IsFiniteSet(Store!Requests \cup S)
    BY <1>1, FS_Union
  <2>3. QED
    BY <2>1, <2>2, FS_Subset
<1>2. ASSUME NEW s \in Slot, NEW h, asked' = [asked EXCEPT ![s] = h] PROVE IsFiniteSet(Store!Requests')
  <2>1. Store!Requests' \subseteq Store!Requests \cup {s}
    BY <1>2, OneRequest
  <2>2. IsFiniteSet(Store!Requests \cup {s})
    BY FS_AddElement
  <2>3. QED
    BY <2>1, <2>2, FS_Subset
<1>3. ASSUME UNCHANGED asked PROVE IsFiniteSet(Store!Requests')
  BY <1>3 DEF Store!Requests, Store!Idle
<1>4. ASSUME NEW s, NEW t PROVE IsFiniteSet({s}) /\ IsFiniteSet({s, t})
  <2>1. {s, t} = {s} \cup {t}
    OBVIOUS
  <2>2. IsFiniteSet({s})
    BY FS_Singleton
  <2>3. IsFiniteSet({s} \cup {t})
    BY <2>2, FS_AddElement
  <2>4. QED
    BY <2>1, <2>2, <2>3
<1>5. \/ UNCHANGED asked
      \/ \E s, t, g : Store!Load({s}, g) \/ Store!Load({s, t}, g)
      \/ \E s \in Slot : \E h : asked' = [asked EXCEPT ![s] = h]
  BY DEF Store!Next, Store!OthersSend, Store!EmitSent, Store!OthersDelete, Store!EmitDeleted, Store!Removed,
     Store!FinishJoin, Store!Select, Store!Close, Store!HandleJoin, Store!HandleLeave, Store!ReceiveEvent,
     Store!Reselect, Store!Edit, Store!Return, Store!SendGroupMessage, Store!DeleteGroupMessage,
     Store!GetGroupMessages, Store!SaveMessage, Store!SoftDelete, Store!Receive, Store!Failed, Store!Answer, Store!Refuse
<1>6. QED
  BY <1>1, <1>2, <1>3, <1>4, <1>5

LEMMA MeetCardinality ==
    Store!Cardinality(Store!Requests) = Cardinality(Store!Requests)
    /\ Store!Cardinality(Store!Requests)' = Cardinality(Store!Requests')
BY DEF Store!Cardinality, Cardinality, Store!IsFiniteSet, IsFiniteSet

LEMMA AtMostOne ==
    ASSUME NEW R, IsFiniteSet(R), ~(Cardinality(R) > 1)
    PROVE  \A s, t \in R : s = t
<1> SUFFICES ASSUME NEW s \in R, NEW t \in R, s # t PROVE FALSE
  OBVIOUS
<1>1. {s, t} \subseteq R /\ Cardinality({s, t}) = 2
  <2>1. IsFiniteSet({s}) /\ Cardinality({s}) = 1
    BY FS_Singleton
  <2>2. {s, t} = {s} \cup {t} /\ t \notin {s}
    OBVIOUS
  <2>3. Cardinality({s} \cup {t}) = Cardinality({s}) + 1
    BY <2>1, <2>2, FS_AddElement
  <2>4. QED
    BY <2>1, <2>2, <2>3
<1>2. Cardinality({s, t}) <= Cardinality(R) /\ Cardinality(R) \in Nat
  BY <1>1, FS_Subset, FS_CardinalityType
<1>3. QED
  BY <1>1, <1>2

\* A step of the group that is open and has met nothing.
LEMMA StepScreened ==
    ASSUME TabInv, Apart, Apart', Screened, ~Store!Meet, ~Store!Meet', Store!Next,
           selectedGroup' = selectedGroup, faults' = faults
    PROVE  Screened'
<1>1. Same
  BY StoredSame
<1>2. Store!Shown /\ Store!Shown' /\ selectedGroup \in Group
  BY DEF Store!Meet, Store!Shown, TabInv, TabTyped
<1>3. ~(faults' = faults + 1)
  BY DEF TabInv, TabTyped
<1>4. ASSUME NEW m \in DOMAIN stored, Store!EmitSent(m) \/ Store!OthersDelete(m) \/ Store!EmitDeleted(m)
      PROVE  Screened'
  BY <1>1, <1>4, EmitSentScreened, OthersDeleteScreened, EmitDeletedScreened
<1>5. ASSUME NEW g \in Group, Store!OthersSend(g) PROVE Screened'
  BY <1>1, <1>5, OthersSendScreened
<1>6. ASSUME Store!HandleJoin \/ Store!HandleLeave \/ \E g \in Group : Store!FinishJoin(g) PROVE Screened'
  <2>1. UNCHANGED <<stored, unsent, undone, inbox, asked, selectedGroup, groupMessages>>
    BY <1>6 DEF Store!HandleJoin, Store!HandleLeave, Store!FinishJoin, Store!screen
  <2>2. PICK g : g = selectedGroup
    OBVIOUS
  <2>3. /\ Flowing(g) => Flowing(g)'
        /\ \A rows : Right(rows, g) => Right(rows, g)'
    BY <2>1, DataRests
  <2>4. Flowing(g)'
    BY <2>2, <2>3 DEF Screened
  <2>5. QED
    BY <1>1, <2>1, <2>2, <2>3, <2>4, KeptScreened
<1>7. ASSUME \/ \E g \in Group, s, t \in Slot : Store!Select(g, s, t)
             \/ \E s \in Slot : Store!Reselect(s) \/ Store!Edit(s)
      PROVE  Screened'
  <2>1. /\ UNCHANGED <<stored, unsent, undone, inbox, groupMessages>>
        /\ \E s, t \in Slot : Store!Load({s}, selectedGroup) \/ Store!Load({s, t}, selectedGroup)
    BY <1>7 DEF Store!Select, Store!Reselect, Store!Edit, Store!server, Store!screen, Store!CleanupAndEffect
  <2>2. PICK S : S # {} /\ S \subseteq Slot /\ Store!Load(S, selectedGroup)
    BY <2>1
  <2>3. QED
    BY <1>1, <2>1, <2>2, LoadScreened
<1>8. ASSUME NEW s \in Slot, Store!SendGroupMessage(s) PROVE Screened'
  <2>1. PICK h : h = [at |-> "sent", kind |-> "send", in |-> selectedGroup, captured |-> groupMessages]
    OBVIOUS
  <2>2. /\ h # Store!Idle /\ h.at = "sent" /\ h.in = selectedGroup /\ h.kind = "send"
        /\ h.captured = groupMessages
    BY <2>1 DEF Store!Idle
  <2>3. /\ asked[s] = Store!Idle /\ asked' = [asked EXCEPT ![s] = h]
        /\ UNCHANGED <<stored, unsent, undone, inbox, selectedGroup, groupMessages>>
    BY <1>8, <2>1 DEF Store!SendGroupMessage, Store!Free, Store!server, Store!screen
  <2>4. QED
    BY <1>1, <2>2, <2>3, AskScreened
<1>9. ASSUME NEW s \in Slot, NEW m \in DOMAIN stored, Store!DeleteGroupMessage(s, m) PROVE Screened'
  <2>1. PICK h : h = [at |-> "sent", kind |-> "delete", in |-> stored[m].in, msg |-> m]
    OBVIOUS
  <2>2. h # Store!Idle /\ h.at = "sent" /\ h.in = stored[m].in /\ h.kind = "delete" /\ h.msg = m
    BY <2>1 DEF Store!Idle
  <2>3. /\ asked[s] = Store!Idle /\ asked' = [asked EXCEPT ![s] = h]
        /\ \E i \in DOMAIN groupMessages : groupMessages[i] = m
        /\ UNCHANGED <<stored, unsent, undone, inbox, selectedGroup, groupMessages>>
    BY <1>9, <2>1 DEF Store!DeleteGroupMessage, Store!Free, Store!server, Store!screen
  <2>4. h.in = selectedGroup
    <3>1. s \in Store!Requests' /\ Store!Requests \subseteq Store!Requests' /\ asked'[s] = h /\ s \notin Store!Requests
      BY <2>2, <2>3, OneRequest DEF Store!Requests
    <3>2. Store!Requests = {}
      BY <2>2, <3>1 DEF Apart, Store!Sending
    <3>3. Right(groupMessages, selectedGroup)
      BY <3>2 DEF Screened
    <3>4. QED
      BY <2>2, <2>3, <3>3 DEF Right
  <2>5. QED
    BY <1>1, <2>2, <2>3, <2>4, AskScreened
<1>10. ASSUME NEW s \in Slot,
              Store!GetGroupMessages(s) \/ Store!SaveMessage(s) \/ Store!SoftDelete(s) \/ Store!Receive(s)
       PROVE  Screened'
  BY <1>1, <1>10, GetScreened, SaveScreened, SoftDeleteScreened, ReceiveScreened
<1>11. CASE Store!ReceiveEvent
  BY <1>1, <1>11, EventScreened
<1>12. ~Store!Close /\ \A s \in Slot : ~Store!Return(s)
  BY <1>2 DEF Store!Close, Store!Return, Store!Shown
<1>13. (\A s \in Slot : ~Store!Failed(s)) /\ \A g \in Group : ~Store!Removed(g)
  BY <1>3 DEF Store!Failed, Store!Removed
<1>14. QED
  BY <1>4, <1>5, <1>6, <1>7, <1>8, <1>9, <1>10, <1>11, <1>12, <1>13 DEF Store!Next

LEMMA NextScreenInv ==
    ASSUME TabInv, TabInv', ScreenInv, Store!ObservedNext
    PROVE  ScreenInv'
<1>1. /\ Store!Next
      /\ clean' => /\ IF selectedGroup' # selectedGroup \/ ~Store!Shown THEN Store!Requests = {} ELSE clean
                   /\ ~Store!Meet' /\ faults' = faults
  BY DEF Store!ObservedNext
<1>2. IsFiniteSet(Store!Requests) /\ IsFiniteSet(Store!Requests')
  BY <1>1, RequestsFinite DEF ScreenInv
<1> SUFFICES ASSUME clean' PROVE Screened'
  BY <1>1, <1>2 DEF ScreenInv
<1>3. Store!Shown'
  BY <1>1 DEF Store!Meet
<1>4. CASE selectedGroup' # selectedGroup \/ ~Store!Shown
  <2>1. Store!Requests = {}
    BY <1>1, <1>4
  <2>2. (\E g \in Group, s, t \in Slot : Store!Select(g, s, t)) \/ \E s \in Slot : Store!Return(s)
    BY <1>1, <1>3, <1>4
       DEF Store!Next, Store!Shown, Store!OthersSend, Store!EmitSent, Store!OthersDelete, Store!EmitDeleted, Store!Removed,
           Store!FinishJoin, Store!Close, Store!HandleJoin, Store!HandleLeave, Store!ReceiveEvent,
           Store!Reselect, Store!Edit, Store!SendGroupMessage, Store!DeleteGroupMessage,
           Store!GetGroupMessages, Store!SaveMessage, Store!SoftDelete, Store!Receive, Store!Failed, Store!screen
  <2>3. ASSUME NEW g \in Group, NEW s \in Slot, NEW t \in Slot, Store!Select(g, s, t) PROVE Screened'
    <3>1. PICK S : S = {s, t}
      OBVIOUS
    <3>2. /\ Store!CleanupAndEffect(g) /\ Store!Load(S, g) /\ selectedGroup' = g
          /\ UNCHANGED <<stored, unsent, undone, inbox>>
      BY <2>3, <3>1 DEF Store!Select, Store!server
    <3>3. S # {} /\ S \subseteq Slot
      BY <3>1
    <3>4. QED
      BY <1>1, <2>1, <3>2, <3>3, OpenScreened
  <2>4. ASSUME NEW s \in Slot, Store!Return(s) PROVE Screened'
    <3>1. PICK S, g : S = {s} /\ g = selectedGroup
      OBVIOUS
    <3>2. /\ Store!CleanupAndEffect(g) /\ Store!Load(S, g) /\ selectedGroup' = g /\ g \in Group
          /\ UNCHANGED <<stored, unsent, undone, inbox>>
      BY <2>4, <3>1 DEF Store!Return, Store!server, TabInv, TabTyped
    <3>3. S # {} /\ S \subseteq Slot
      BY <3>1
    <3>4. QED
      BY <1>1, <2>1, <3>2, <3>3, OpenScreened
  <2>5. QED
    BY <2>2, <2>3, <2>4
<1>5. CASE selectedGroup' = selectedGroup /\ Store!Shown
  <2>1. clean /\ Screened /\ ~Store!Meet /\ ~Store!Meet' /\ faults' = faults
    BY <1>1, <1>5 DEF ScreenInv
  <2>2. Apart
    BY <1>2, <2>1, AtMostOne, MeetCardinality DEF Apart, Store!Meet
  <2>3. Apart'
    BY <1>2, <2>1, AtMostOne, MeetCardinality DEF Apart, Store!Meet
  <2>4. QED
    BY <1>1, <1>5, <2>1, <2>2, <2>3, StepScreened
<1>6. QED
  BY <1>4, <1>5

\* The screen rests while the messages at the server move.
LEMMA ScreenRests ==
    ASSUME TabInv, ScreenInv, UNCHANGED storeVars
    PROVE  ScreenInv'
<1>1. UNCHANGED <<stored, unsent, undone, member, joining, uplink, inbox, asked, selectedGroup, groupMessages, listeners,
                  clean>>
  BY DEF storeVars
<1>2. Store!Requests' = Store!Requests
  BY <1>1 DEF Store!Requests, Store!Idle
<1>3. Store!Sending' = Store!Sending /\ (Store!Joining' <=> Store!Joining) /\ (Store!OthersBusy' <=> Store!OthersBusy)
      /\ Store!Deletions' = Store!Deletions /\ (Store!Shown' <=> Store!Shown)
  BY <1>1, <1>2 DEF Store!Sending, Store!Joining, Store!OthersBusy, Store!Foreign, Store!Deletions, Store!Shown
<1>4. Store!Meet' <=> Store!Meet
  <2>1. Store!Cardinality(Store!Requests)' = Store!Cardinality(Store!Requests)
    BY <1>2, MeetCardinality
  <2>2. QED
    BY <1>1, <1>2, <1>3, <2>1 DEF Store!Meet, Store!Alive
<1>5. ASSUME Screened PROVE Screened'
  <2>1. PICK g : g = selectedGroup
    OBVIOUS
  <2>2. /\ Flowing(g) => Flowing(g)'
        /\ \A rows : Right(rows, g) => Right(rows, g)'
    BY <1>1, DataRests
  <2>3. Flowing(g)'
    BY <1>5, <2>1, <2>2 DEF Screened
  <2>4. Same
    BY <1>1 DEF Same, Store!Alive
  <2>5. QED
    BY <1>1, <1>5, <2>1, <2>2, <2>3, <2>4, KeptScreened
<1>6. QED
  BY <1>1, <1>2, <1>4, <1>5 DEF ScreenInv

\* Once a group has been opened while no request was under way, its screen shows exactly
\* the messages of the group, those of others once, as often as nothing is on its way:
\* through messages, deletions and edits, until a schedule of those Meet lists
\* (useGroupStore.js and GroupChatContainer.jsx against groupMessage.controllers.js).
THEOREM GroupScreenAlwaysFaithful == MCSpec => []GroupScreenIsFaithful
<1>1. MCInit => TabInv /\ ScreenInv
  <2>1. ASSUME MCInit PROVE ScreenInv
    <3>1. Store!Requests = {} /\ ~clean
      BY <2>1 DEF MCInit, Store!ObservedInit, Store!Init, Store!Requests
    <3>2. QED
      BY <3>1, FS_EmptySet DEF ScreenInv
  <2>2. QED
    BY <2>1, InitTabInv
<1>2. TabInv /\ ScreenInv /\ [MCNext]_mcVars => TabInv' /\ ScreenInv'
  <2> SUFFICES ASSUME TabInv, ScreenInv, [MCNext]_mcVars PROVE TabInv' /\ ScreenInv'
    OBVIOUS
  <2>1. TabInv'
    BY NextTabInv
  <2>2. CASE Store!ObservedNext
    BY <2>1, <2>2, NextScreenInv
  <2>3. CASE UNCHANGED storeVars
    BY <2>1, <2>3, ScreenRests
  <2>4. QED
    BY <2>1, <2>2, <2>3 DEF MCNext, mcVars, MessageStep, StoreStep
<1>3. TabInv /\ ScreenInv => GroupScreenIsFaithful
  BY RightIsShown
<1>4. QED
  BY <1>1, <1>2, <1>3, PTL DEF MCSpec

=============================================================================
