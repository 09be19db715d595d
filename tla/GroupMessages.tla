----------------------------- MODULE GroupMessages -----------------------------
(***************************************************************************)
(* The messages of one group, the count of them in the group document, and *)
(* how far each member has read: groupMessage.controllers.js, with the     *)
(* part of deleteGroup that GroupMembership leaves out, the cascade over   *)
(* the messages.                                                           *)
(*                                                                         *)
(* A handler stops at every await.  createdAt and lastReadAt are stamped   *)
(* in the process, before the document is written; time is the number of   *)
(* stamps made on messages.  A message is known by its place in the order  *)
(* of insertion.                                                           *)
(***************************************************************************)
EXTENDS Integers, FiniteSets, Sequences

CONSTANTS
    User,         \* the active members
    Owner,        \* the one who may delete the group
    Manager,      \* owner and admins
    AdminsOnly,   \* settings.whoCanMessage = "admins_only"
    Limit,        \* rows of a page
    Request,      \* handlers that may run at the same time
    MaxMessages,  \* bound: messages stamped
    MaxFailures   \* bound: handlers that die between two awaits

ASSUME MemberAssumption == Owner \in Manager /\ Manager \subseteq User
ASSUME LimitAssumption  == Limit \in Nat \ {0} /\ AdminsOnly \in BOOLEAN
ASSUME BoundAssumption  == MaxMessages \in Nat /\ MaxFailures \in Nat

VARIABLES
    group,       \* the document: deleted or not, stats.totalMessages
    dissolved,   \* the cascade has deleted the memberships
    messages,    \* message documents
    lastReadAt,  \* in each membership document
    now,
    req,         \* the handler each request is in
    failures     \* handlers that died so far

vars == <<group, dissolved, messages, lastReadAt, now, req, failures>>

Idle == [at |-> "idle"]

Init ==
    /\ group = [deleted |-> FALSE, totalMessages |-> 0]
    /\ dissolved = FALSE
    /\ messages = <<>>
    /\ lastReadAt = [u \in User |-> 0]
    /\ now = 0
    /\ req = [r \in Request |-> Idle]
    /\ failures = 0

Go(r, handler) == req' = [req EXCEPT ![r] = handler]
Respond(r)     == Go(r, Idle)
At(r, place)   == req[r].at = place

\* Every handler first looks the membership up.
Begin(r, handler) ==
    /\ req[r] = Idle
    /\ ~dissolved
    /\ Go(r, handler)
    /\ UNCHANGED <<group, dissolved, messages, lastReadAt, now, failures>>

Live == {m \in DOMAIN messages : ~messages[m].deleted}

-----------------------------------------------------------------------------
(* sendGroupMessage. *)

BeginSend(r, u) == Begin(r, [at |-> "findGroup", by |-> u])

\* The group is loaded here and saved again at the end.
FindGroup(r) ==
    /\ At(r, "findGroup")
    /\ IF ~group.deleted /\ (AdminsOnly => req[r].by \in Manager)
       THEN Go(r, [at |-> "upload", by |-> req[r].by, total |-> group.totalMessages])
       ELSE Respond(r)
    /\ UNCHANGED <<group, dissolved, messages, lastReadAt, now, failures>>

\* An image is uploaded first, which may take up to 30 s; the message is
\* stamped after that.
StampMessage(r) ==
    /\ At(r, "upload")
    /\ now < MaxMessages
    /\ now' = now + 1
    /\ Go(r, [at |-> "save", by |-> req[r].by, total |-> req[r].total, stamp |-> now + 1])
    /\ UNCHANGED <<group, dissolved, messages, lastReadAt, failures>>

UploadFailsCounted(r) ==  \* mutant: the failure is swallowed, the message counted
    /\ At(r, "upload")
    /\ Go(r, [at |-> "saveTotal", total |-> req[r].total + 1])
    /\ UNCHANGED <<group, dissolved, messages, lastReadAt, now, failures>>

UploadFails(r) ==
    /\ At(r, "upload")
    /\ Respond(r)
    /\ UNCHANGED <<group, dissolved, messages, lastReadAt, now, failures>>

SaveMessage(r) ==
    /\ At(r, "save")
    /\ messages' = Append(messages, [by |-> req[r].by, createdAt |-> req[r].stamp,
                                     deleted |-> FALSE])
    /\ Go(r, [at |-> "saveTotal", total |-> req[r].total + 1])
    /\ UNCHANGED <<group, dissolved, lastReadAt, now, failures>>

\* Mongoose sets the new number, whatever the stored one has become; what
\* follows only reads the message back and emits it.
SaveTotal(r) ==
    /\ At(r, "saveTotal")
    /\ group' = [group EXCEPT !.totalMessages = req[r].total]
    /\ Respond(r)
    /\ UNCHANGED <<dissolved, messages, lastReadAt, now, failures>>

-----------------------------------------------------------------------------
(* deleteGroupMessage. *)

BeginDelete(r, u, m) == Begin(r, [at |-> "findMessage", by |-> u, msg |-> m])

FindMessageAny(r) ==  \* mutant: found although it is deleted already
    LET m == req[r].msg
    IN  /\ At(r, "findMessage")
        /\ IF req[r].by \in Manager \cup {messages[m].by}
           THEN Go(r, [at |-> "softDelete", msg |-> m])
           ELSE Respond(r)
        /\ UNCHANGED <<group, dissolved, messages, lastReadAt, now, failures>>

FindMessage(r) ==
    LET m == req[r].msg
    IN  /\ At(r, "findMessage")
        /\ IF m \in Live /\ req[r].by \in Manager \cup {messages[m].by}
           THEN Go(r, [at |-> "softDelete", msg |-> m])
           ELSE Respond(r)
        /\ UNCHANGED <<group, dissolved, messages, lastReadAt, now, failures>>

SoftDeleteMessage(r) ==
    /\ At(r, "softDelete")
    /\ messages' = [messages EXCEPT ![req[r].msg].deleted = TRUE]
    /\ Go(r, [at |-> "findCounted"])
    /\ UNCHANGED <<group, dissolved, lastReadAt, now, failures>>

FindCounted(r) ==
    /\ At(r, "findCounted")
    /\ IF group.deleted \/ group.totalMessages = 0 THEN Respond(r)
       ELSE Go(r, [at |-> "saveTotal", total |-> group.totalMessages - 1])
    /\ UNCHANGED <<group, dissolved, messages, lastReadAt, now, failures>>

-----------------------------------------------------------------------------
(* getGroupMessages, markGroupMessagesAsRead, getUnreadGroupMessageCount. *)

BeginList(r, u) == Begin(r, [at |-> "findPage", by |-> u])
BeginMark(r, u) == Begin(r, [at |-> "stampRead", by |-> u, page |-> {}])

\* The ids of messages, which are made in the order of the stamps, and no cursor.
Cursor == {messages[m].createdAt : m \in DOMAIN messages} \cup {now + 1}

Newest(S) == {m \in S : Cardinality({n \in S : messages[n].createdAt > messages[m].createdAt}) < Limit}

Page(cursor) == Newest({m \in Live : messages[m].createdAt < cursor})

\* The newest messages, or the newest ones older than the cursor.
FindPage(r) ==
    /\ At(r, "findPage")
    /\ \E cursor \in Cursor : Go(r, [at |-> "stampRead", by |-> req[r].by, page |-> Page(cursor)])
    /\ UNCHANGED <<group, dissolved, messages, lastReadAt, now, failures>>

\* membership.lastReadAt = new Date(), once the page has arrived, with or without
\* a cursor.
StampRead(r) ==
    /\ At(r, "stampRead")
    /\ Go(r, [at |-> "saveRead", by |-> req[r].by, stamp |-> now])
    /\ UNCHANGED <<group, dissolved, messages, lastReadAt, now, failures>>

SaveReadForAll(r) ==  \* mutant: updateMany on the group's memberships
    /\ At(r, "saveRead")
    /\ lastReadAt' = [u \in User |-> req[r].stamp]
    /\ Respond(r)
    /\ UNCHANGED <<group, dissolved, messages, now, failures>>

SaveRead(r) ==
    /\ At(r, "saveRead")
    /\ lastReadAt' = [lastReadAt EXCEPT ![req[r].by] = req[r].stamp]
    /\ Respond(r)
    /\ UNCHANGED <<group, dissolved, messages, now, failures>>

\* What getUnreadGroupMessageCount counts.
Unread(u) == {m \in Live : messages[m].by # u /\ messages[m].createdAt > lastReadAt[u]}

-----------------------------------------------------------------------------
(* deleteGroup: memberships, messages, then the group. *)

BeginDissolve(r) == Begin(r, [at |-> "deleteMembers"])

DeleteMembers(r) ==
    /\ At(r, "deleteMembers")
    /\ dissolved' = TRUE
    /\ Go(r, [at |-> "deleteMessages"])
    /\ UNCHANGED <<group, messages, lastReadAt, now, failures>>

DeleteMessages(r) ==
    /\ At(r, "deleteMessages")
    /\ messages' = [m \in DOMAIN messages |-> [messages[m] EXCEPT !.deleted = TRUE]]
    /\ Go(r, [at |-> "deleteGroup"])
    /\ UNCHANGED <<group, dissolved, lastReadAt, now, failures>>

\* The document is found and saved; its members being gone, nothing else
\* deletes it in between.
DeleteGroup(r) ==
    /\ At(r, "deleteGroup")
    /\ group' = [group EXCEPT !.deleted = TRUE]
    /\ Respond(r)
    /\ UNCHANGED <<dissolved, messages, lastReadAt, now, failures>>

\* The process dies, or a query is rejected.
Fail(r) ==
    /\ failures < MaxFailures
    /\ req[r] # Idle
    /\ Respond(r)
    /\ failures' = failures + 1
    /\ UNCHANGED <<group, dissolved, messages, lastReadAt, now>>

Next == \E r \in Request :
    \/ \E u \in User : \/ BeginSend(r, u) \/ BeginList(r, u) \/ BeginMark(r, u)
                       \/ \E m \in DOMAIN messages : BeginDelete(r, u, m)
    \/ FindGroup(r) \/ StampMessage(r) \/ UploadFails(r) \/ SaveMessage(r) \/ SaveTotal(r)
    \/ FindMessage(r) \/ SoftDeleteMessage(r) \/ FindCounted(r)
    \/ FindPage(r) \/ StampRead(r) \/ SaveRead(r)
    \/ BeginDissolve(r) \/ DeleteMembers(r) \/ DeleteMessages(r) \/ DeleteGroup(r)
    \/ Fail(r)

Spec == Init /\ [][Next]_vars

-----------------------------------------------------------------------------
AllIdle == \A r \in Request : req[r] = Idle

Handler ==
    {Idle}
    \cup [at : {"findGroup", "findPage"}, by : User]
    \cup [at : {"upload"}, by : User, total : Nat]
    \cup [at : {"save"}, by : User, total : Nat, stamp : 0..now]
    \cup [at : {"saveTotal"}, total : Nat]
    \cup [at : {"findMessage"}, by : User, msg : DOMAIN messages]
    \cup [at : {"softDelete"}, msg : DOMAIN messages]
    \cup [at : {"stampRead"}, by : User, page : SUBSET DOMAIN messages]
    \cup [at : {"saveRead"}, by : User, stamp : 0..now]
    \cup [at : {"findCounted", "deleteMembers", "deleteMessages", "deleteGroup"}]

\* Every document and every handler stays in its domain; the count is natural.
TypeOK ==
    /\ group \in [deleted : BOOLEAN, totalMessages : Nat]
    /\ dissolved \in BOOLEAN
    /\ messages \in Seq([by : User, createdAt : 0..now, deleted : BOOLEAN])
    /\ lastReadAt \in [User -> 0..now]
    /\ now \in 0..MaxMessages
    /\ req \in [Request -> Handler]
    /\ failures \in 0..MaxFailures

\* In every interleaving of sends, deletions and the cascade, each saving a
\* count it computed from a document loaded earlier, the stored count never
\* exceeds the messages the group was ever sent, deleted ones included.
NeverOvercounts == group.totalMessages <= Len(messages)
=============================================================================
