------------------------------- MODULE ChatStore -------------------------------
(***************************************************************************)
(* One browser tab and its direct messages: useChatStore.js, the socket    *)
(* handlers of useAuthStore.js and ChatContainer.jsx on one side, the      *)
(* handlers of backend/src/controllers/message.controllers.js on the other.*)
(*                                                                         *)
(* Requests of the tab are answered in any order; events arrive over one   *)
(* socket in the order they were emitted, and not at all while the socket  *)
(* is down.  A message is its number in the store, and a row of the screen *)
(* is a message with the status it is shown with.                          *)
(***************************************************************************)
EXTENDS Integers, Sequences, FiniteSets, SequencesExt

CONSTANTS
    Peer,         \* the users this tab's user chats with
    Slot,         \* requests of the tab under way at the same time
    Limit,        \* messages on the page the tab asks for
    MaxMessages,  \* bound: messages sent
    MaxEvents,    \* bound: events on the way when a peer marks messages as read
    MaxFaults     \* bound: requests that fail and times the socket goes down

Nobody == "nobody"

VARIABLES
    stored,        \* the messages: whose conversation, sent by the peer or not, read
    unsent,        \* messages of peers saved and not yet emitted
    marking,       \* peers whose markMessagesAsRead has updated and not yet emitted
    req,           \* the tab's requests under way
    inbox,         \* events on the way to the tab
    connected,
    selectedUser, messages, unreadCounts, isMessagesLoading,
    faults         \* requests that failed, times the socket went down

server == <<stored, unsent, marking>>
screen == <<selectedUser, messages, unreadCounts, isMessagesLoading>>
vars   == <<server, req, inbox, connected, screen, faults>>

Idle == [at |-> "idle"]

Init ==
    /\ stored = <<>> /\ unsent = {} /\ marking = {}
    /\ req = [s \in Slot |-> Idle]
    /\ inbox = <<>> /\ connected = TRUE
    /\ selectedUser = Nobody /\ messages = <<>>
    /\ unreadCounts = [p \in Peer |-> 0] /\ isMessagesLoading = FALSE
    /\ faults = 0

\* io.to(room) reaches the tab only while its socket is in the room.
Emit(e) == inbox' = IF connected THEN Append(inbox, e) ELSE inbox

SentTo(p) == {m \in DOMAIN stored : stored[m].with = p /\ ~stored[m].fromPeer}

Save(p, fromPeer) ==
    /\ Len(stored) < MaxMessages
    /\ stored' = Append(stored, [with |-> p, fromPeer |-> fromPeer, read |-> FALSE])

-----------------------------------------------------------------------------
(* The peers' requests at the server. *)

\* sendMessage: the message is saved; populate() is awaited before the event.
PeerSends(p) ==
    /\ Save(p, TRUE)
    /\ unsent' = unsent \cup {Len(stored')}
    /\ UNCHANGED <<marking, req, inbox, connected, screen, faults>>

NewMessage(m) ==
    /\ m \in unsent
    /\ unsent' = unsent \ {m}
    /\ Emit([event |-> "newMessage", msg |-> m])
    /\ UNCHANGED <<stored, marking, req, connected, screen, faults>>

\* markMessagesAsRead of a peer: the update, then the ids of all messages read,
\* which are emitted.  They stay read, so the await between the two is left out.
PeerMarks(p) ==
    /\ p \notin marking /\ Len(inbox) < MaxEvents
    /\ stored' = [m \in DOMAIN stored |->
                    [stored[m] EXCEPT !.read = @ \/ m \in SentTo(p)]]
    /\ marking' = marking \cup {p}
    /\ UNCHANGED <<unsent, req, inbox, connected, screen, faults>>

MessagesReadAll(p) ==  \* mutant: the status is not asked for
    /\ p \in marking
    /\ marking' = marking \ {p}
    /\ Emit([event |-> "messagesRead", ids |-> SentTo(p)])
    /\ UNCHANGED <<stored, unsent, req, connected, screen, faults>>

MessagesRead(p) ==
    /\ p \in marking
    /\ marking' = marking \ {p}
    /\ Emit([event |-> "messagesRead", ids |-> {m \in SentTo(p) : stored[m].read}])
    /\ UNCHANGED <<stored, unsent, req, connected, screen, faults>>

-----------------------------------------------------------------------------
(* What the user does in the tab. *)

Issue(s, request) == req[s] = Idle /\ req' = [req EXCEPT ![s] = request]
Go(s, request)    == req' = [req EXCEPT ![s] = request]

\* setSelectedUser clears the badge; ChatContainer, once shown, loads the
\* conversation and listens for receipts.  It also marks the conversation as
\* read, which only the peers' screens show.
Select(p, s) ==
    /\ p # selectedUser
    /\ selectedUser' = p
    /\ unreadCounts' = [unreadCounts EXCEPT ![p] = 0]
    /\ isMessagesLoading' = TRUE
    /\ Issue(s, [at |-> "sent", kind |-> "get", with |-> p])
    /\ UNCHANGED <<server, inbox, connected, messages, faults>>

Close ==
    /\ selectedUser # Nobody
    /\ selectedUser' = Nobody
    /\ UNCHANGED <<server, req, inbox, connected, messages, unreadCounts,
                   isMessagesLoading, faults>>

\* sendMessage of the store keeps the messages it saw before the await.
SendMessage(s) ==
    /\ selectedUser # Nobody
    /\ Issue(s, [at |-> "sent", kind |-> "send", with |-> selectedUser,
                 captured |-> messages])
    /\ UNCHANGED <<server, inbox, connected, screen, faults>>

-----------------------------------------------------------------------------
(* The tab's requests at the server. *)

Conversation(p) == {m \in DOMAIN stored : stored[m].with = p}
NewestAlways(S, k) == S  \* mutant: no limit
Newest(S, k) == {m \in S : Cardinality({x \in S : x > m}) < k}

Row(m) == [msg |-> m, read |-> stored[m].read]
\* Ordered by createdAt.
Ascending(S) == CHOOSE ids \in SetToSeqs(S) : \A i, j \in DOMAIN ids : i < j => ids[i] < ids[j]
Page(p) == LET ids == Ascending(Newest(Conversation(p), Limit))
           IN  [i \in DOMAIN ids |-> Row(ids[i])]

GetMessages(s) ==
    /\ req[s].at = "sent" /\ req[s].kind = "get"
    /\ Go(s, [at |-> "answered", kind |-> "get", page |-> Page(req[s].with)])
    /\ UNCHANGED <<server, inbox, connected, screen, faults>>

\* The answer is the document as saved, whatever happened to it since.
SaveMessage(s) ==
    /\ req[s].at = "sent" /\ req[s].kind = "send"
    /\ Save(req[s].with, FALSE)
    /\ Go(s, [at |-> "answered", kind |-> "send", captured |-> req[s].captured,
              row |-> [msg |-> Len(stored'), read |-> FALSE]])
    /\ UNCHANGED <<unsent, marking, inbox, connected, screen, faults>>

-----------------------------------------------------------------------------
(* What the tab does with answers and events. *)

ReceiveGet(s) ==
    /\ req[s].at = "answered" /\ req[s].kind = "get"
    /\ messages' = req[s].page
    /\ isMessagesLoading' = FALSE
    /\ Go(s, Idle)
    /\ UNCHANGED <<server, inbox, connected, selectedUser, unreadCounts, faults>>

ReceiveSentCurrent(s) ==  \* mutant: appends to the messages of the moment
    /\ req[s].at = "answered" /\ req[s].kind = "send"
    /\ messages' = Append(messages, req[s].row)
    /\ Go(s, Idle)
    /\ UNCHANGED <<server, inbox, connected, selectedUser, unreadCounts,
                   isMessagesLoading, faults>>

ReceiveSent(s) ==
    /\ req[s].at = "answered" /\ req[s].kind = "send"
    /\ messages' = Append(req[s].captured, req[s].row)
    /\ Go(s, Idle)
    /\ UNCHANGED <<server, inbox, connected, selectedUser, unreadCounts,
                   isMessagesLoading, faults>>

\* A request that fails may have been served: a failed load empties the screen.
Failed(s) ==
    /\ faults < MaxFaults
    /\ req[s] # Idle
    /\ faults' = faults + 1
    /\ IF req[s].kind = "get"
       THEN messages' = <<>> /\ isMessagesLoading' = FALSE
       ELSE UNCHANGED <<messages, isMessagesLoading>>
    /\ Go(s, Idle)
    /\ UNCHANGED <<server, inbox, connected, selectedUser, unreadCounts>>

OnNewMessageAny(m) ==  \* mutant: shown whoever is selected
    /\ messages' = Append(messages, Row(m))
    /\ UNCHANGED <<selectedUser, unreadCounts, isMessagesLoading>>

\* The event carries the document as saved.
OnNewMessage(m) ==
    IF stored[m].with = selectedUser
    THEN /\ messages' = Append(messages, [msg |-> m, read |-> FALSE])
         /\ UNCHANGED <<selectedUser, unreadCounts, isMessagesLoading>>
    ELSE /\ unreadCounts' = [unreadCounts EXCEPT ![stored[m].with] = @ + 1]
         /\ UNCHANGED <<selectedUser, messages, isMessagesLoading>>

\* Listened for while a conversation is open.
OnMessagesRead(ids) ==
    /\ messages' = IF selectedUser = Nobody THEN messages
                   ELSE [i \in DOMAIN messages |->
                          [messages[i] EXCEPT !.read = @ \/ messages[i].msg \in ids]]
    /\ UNCHANGED <<selectedUser, unreadCounts, isMessagesLoading>>

ReceiveEvent ==
    /\ inbox # <<>>
    /\ inbox' = Tail(inbox)
    /\ LET e == Head(inbox)
       IN  IF e.event = "newMessage" THEN OnNewMessage(e.msg) ELSE OnMessagesRead(e.ids)
    /\ UNCHANGED <<server, req, connected, faults>>

\* The socket goes down and comes back; nothing is loaded again on reconnection.
Drop ==
    /\ connected /\ faults < MaxFaults
    /\ connected' = FALSE /\ inbox' = <<>>
    /\ faults' = faults + 1
    /\ UNCHANGED <<server, req, screen>>

Reconnect ==
    /\ ~connected
    /\ connected' = TRUE
    /\ UNCHANGED <<server, req, inbox, screen, faults>>

-----------------------------------------------------------------------------
Progress ==
    \/ \E s \in Slot : GetMessages(s) \/ SaveMessage(s) \/ ReceiveGet(s) \/ ReceiveSent(s)
    \/ \E p \in Peer : MessagesRead(p)
    \/ \E m \in DOMAIN stored : NewMessage(m)
    \/ ReceiveEvent
    \/ Reconnect

Next ==
    \/ \E p \in Peer : PeerSends(p) \/ PeerMarks(p) \/ \E s \in Slot : Select(p, s)
    \/ Close
    \/ \E s \in Slot : SendMessage(s) \/ Failed(s)
    \/ Drop
    \/ Progress

Spec == Init /\ [][Next]_vars
-----------------------------------------------------------------------------
Shown == {messages[i].msg : i \in DOMAIN messages}

\* What is stored, shown and under way stays in its domain, and no page is
\* longer than what was asked for.
TypeOK ==
    /\ stored \in Seq([with : Peer, fromPeer : BOOLEAN, read : BOOLEAN])
    /\ unsent \subseteq DOMAIN stored /\ marking \subseteq Peer
    /\ selectedUser \in Peer \cup {Nobody}
    /\ messages \in Seq([msg : DOMAIN stored, read : BOOLEAN])
    /\ unreadCounts \in [Peer -> 0..MaxMessages]
    /\ {isMessagesLoading, connected} \subseteq BOOLEAN
    /\ \A s \in Slot : req[s].at = "answered" /\ req[s].kind = "get" =>
                          Len(req[s].page) <= Limit
    /\ faults \in 0..MaxFaults

\* One's own message is never on the screen twice, in whatever order loads,
\* sends and events meet: it is added to what was shown before it was sent.
OwnShownOnce ==
    \A i, j \in DOMAIN messages :
        i # j /\ messages[i].msg = messages[j].msg => stored[messages[i].msg].fromPeer

\* A message is shown as read only if its receiver has read it.
ReadIsTrue ==
    \A i \in DOMAIN messages : messages[i].read => stored[messages[i].msg].read
=============================================================================
