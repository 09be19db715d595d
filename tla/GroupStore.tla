------------------------------- MODULE GroupStore -------------------------------
(***************************************************************************)
(* One browser tab and the messages of its groups: useGroupStore.js and    *)
(* GroupChatContainer.jsx on one side; the rooms of lib/socket.js and what *)
(* clients see of the handlers of groupMessage.controllers.js on the other.*)
(*                                                                         *)
(* The tab sends requests, answered in any order, and over its socket asks *)
(* to join and leave rooms; the server takes these in order, but a join    *)
(* first looks the membership up.  Events of a room reach the tab in the   *)
(* order they were emitted.                                                *)
(***************************************************************************)
EXTENDS Integers, Sequences, FiniteSets, SequencesExt

CONSTANTS
    Group,
    Slot,         \* requests of the tab under way at the same time
    MaxMessages,  \* bound: messages sent
    MaxEvents,    \* bound: joins and leaves on the way to the server
    MaxFaults     \* bound: requests that fail and memberships that end

NoGroup == "none"
Null == 0     \* what a query for a deleted message returns

VARIABLES
    stored,    \* the messages: whose group, sent from this tab or not, deleted
    unsent,    \* messages of others saved and not yet emitted
    undone,    \* messages others deleted whose event is not yet emitted
    member,    \* groups this tab's user is an active member of
    room,      \* groups whose room its socket is in
    joining,   \* groups whose membership a joinGroup handler is looking up
    uplink,    \* joins and leaves on the way to the server
    inbox,     \* events on the way to the tab
    req,       \* the tab's requests under way
    selectedGroup, groupMessages,
    listeners, \* handlers subscribed to the events of groups
    faults     \* requests that failed, memberships that ended

server == <<stored, unsent, undone, member, room, joining>>
screen == <<selectedGroup, groupMessages, listeners>>
vars   == <<server, uplink, inbox, req, screen, faults>>

Idle == [at |-> "idle"]

\* On connecting, the socket joined the room of every group of its user.
Init ==
    /\ stored = <<>> /\ unsent = {} /\ undone = {}
    /\ member = Group /\ room = Group /\ joining = {}
    /\ uplink = <<>> /\ inbox = <<>>
    /\ req = [s \in Slot |-> Idle]
    /\ selectedGroup = NoGroup /\ groupMessages = <<>> /\ listeners = 0
    /\ faults = 0

\* io.to(room): the tab hears it while its socket is in the room.
Emit(g, e) == inbox' = IF g \in room THEN Append(inbox, e) ELSE inbox

NewMessage(m, row) == [event |-> "newGroupMessage", in |-> stored[m].in, row |-> row]
MessageDeleted(m)  == [event |-> "groupMessageDeleted", in |-> stored[m].in, row |-> m]

Alive(m) == m \in DOMAIN stored /\ ~stored[m].deleted

\* The message is loaded again before it is sent out, and may be gone by then.
Reloaded(m) == IF Alive(m) THEN m ELSE Null

Save(g, mine) ==
    /\ Len(stored) < MaxMessages
    /\ stored' = Append(stored, [in |-> g, mine |-> mine, deleted |-> FALSE])

-----------------------------------------------------------------------------
(* Other users at the server. *)

OthersSend(g) ==
    /\ Save(g, FALSE)
    /\ unsent' = unsent \cup {Len(stored')}
    /\ UNCHANGED <<undone, member, room, joining, uplink, inbox, req, screen, faults>>

EmitSent(m) ==
    /\ m \in unsent
    /\ unsent' = unsent \ {m}
    /\ Emit(stored[m].in, NewMessage(m, Reloaded(m)))
    /\ UNCHANGED <<stored, undone, member, room, joining, uplink, req, screen, faults>>

\* By its author, or by an owner or admin.
OthersDelete(m) ==
    /\ Alive(m)
    /\ stored' = [stored EXCEPT ![m].deleted = TRUE]
    /\ undone' = undone \cup {m}
    /\ UNCHANGED <<unsent, member, room, joining, uplink, inbox, req, screen, faults>>

EmitDeleted(m) ==
    /\ m \in undone
    /\ undone' = undone \ {m}
    /\ Emit(stored[m].in, MessageDeleted(m))
    /\ UNCHANGED <<stored, unsent, member, room, joining, uplink, req, screen, faults>>

\* removeMember ends the membership; the socket stays in the room.
Removed(g) ==
    /\ g \in member /\ faults < MaxFaults
    /\ member' = member \ {g} /\ faults' = faults + 1
    /\ UNCHANGED <<stored, unsent, undone, room, joining, uplink, inbox, req, screen>>

-----------------------------------------------------------------------------
(* What the user does in the tab. *)

Free == {s \in Slot : req[s] = Idle}
Load(S, g) == req' = [s \in Slot |-> IF s \in S THEN [at |-> "sent", kind |-> "get", in |-> g]
                                     ELSE req[s]]

\* The effect of GroupChatContainer joins the room and subscribes; its cleanup,
\* which runs first, leaves the room of the group shown before and unsubscribes
\* every handler.
Shown == selectedGroup # NoGroup /\ listeners > 0
LeaveOld == IF ~Shown THEN <<>> ELSE <<[leave |-> selectedGroup]>>

CleanupAndEffectSwapped(g) ==  \* mutant: the effect runs before the cleanup
    /\ uplink' = uplink \o <<[join |-> g]>> \o LeaveOld
    /\ listeners' = 1

CleanupAndEffect(g) ==
    /\ uplink' = uplink \o LeaveOld \o <<[join |-> g]>>
    /\ listeners' = 1

\* setSelectedGroup loads the messages, and so does the effect, which runs for
\* every object the sidebar passes that it did not pass before, be it that of
\* the group already open.
Select(g, s, t) ==
    /\ Shown \/ selectedGroup = NoGroup
    /\ s # t /\ {s, t} \subseteq Free /\ Len(uplink) < MaxEvents
    /\ selectedGroup' = g
    /\ CleanupAndEffect(g)
    /\ Load({s, t}, g)
    /\ UNCHANGED <<server, inbox, groupMessages, faults>>

\* The sidebar passes the very object that is selected: no effect runs.
Reselect(s) ==
    /\ Shown /\ s \in Free
    /\ Load({s}, selectedGroup)
    /\ UNCHANGED <<server, uplink, inbox, screen, faults>>

\* updateGroup replaces the selected group by a new object, so the effect runs again.
Edit(s) ==
    /\ Shown
    /\ s \in Free /\ Len(uplink) < MaxEvents
    /\ CleanupAndEffect(selectedGroup)
    /\ Load({s}, selectedGroup)
    /\ UNCHANGED <<server, inbox, selectedGroup, groupMessages, faults>>

\* Closing the group, or going to another page of the application, which keeps
\* the group selected.
Close ==
    /\ Shown /\ Len(uplink) < MaxEvents
    /\ uplink' = uplink \o LeaveOld
    /\ selectedGroup' \in {selectedGroup, NoGroup} /\ listeners' = 0
    /\ UNCHANGED <<server, inbox, req, groupMessages, faults>>

\* Coming back to the page of the chats.
Return(s) ==
    /\ selectedGroup # NoGroup /\ ~Shown
    /\ s \in Free /\ Len(uplink) < MaxEvents
    /\ CleanupAndEffect(selectedGroup)
    /\ Load({s}, selectedGroup)
    /\ UNCHANGED <<server, inbox, selectedGroup, groupMessages, faults>>

SendGroupMessage(s) ==
    /\ Shown /\ s \in Free
    /\ req' = [req EXCEPT ![s] = [at |-> "sent", kind |-> "send", in |-> selectedGroup,
                                  captured |-> groupMessages]]
    /\ UNCHANGED <<server, uplink, inbox, screen, faults>>

DeleteGroupMessage(s, m) ==
    /\ Shown /\ s \in Free
    /\ \E i \in DOMAIN groupMessages : groupMessages[i] = m /\ m # Null
    /\ req' = [req EXCEPT ![s] = [at |-> "sent", kind |-> "delete", in |-> stored[m].in,
                                  msg |-> m]]
    /\ UNCHANGED <<server, uplink, inbox, screen, faults>>

-----------------------------------------------------------------------------
(* The tab's joins, leaves and requests at the server. *)

HandleJoin ==
    /\ uplink # <<>> /\ "join" \in DOMAIN Head(uplink)
    /\ uplink' = Tail(uplink)
    /\ joining' = joining \cup {Head(uplink).join}
    /\ UNCHANGED <<stored, unsent, undone, member, room, inbox, req, screen, faults>>

FinishJoin(g) ==
    /\ g \in joining
    /\ joining' = joining \ {g}
    /\ room' = IF g \in member THEN room \cup {g} ELSE room
    /\ UNCHANGED <<stored, unsent, undone, member, uplink, inbox, req, screen, faults>>

HandleLeave ==
    /\ uplink # <<>> /\ "leave" \in DOMAIN Head(uplink)
    /\ uplink' = Tail(uplink)
    /\ room' = room \ {Head(uplink).leave}
    /\ UNCHANGED <<stored, unsent, undone, member, joining, inbox, req, screen, faults>>

Asked(s, kind) == req[s].at = "sent" /\ req[s].kind = kind
Answer(s, a)   == req' = [req EXCEPT ![s] = a]
Refuse(s)      == Answer(s, [at |-> "answered", kind |-> "refused"])

\* The page of 50 that the tab asks for holds them all.
History(g) == {m \in DOMAIN stored : stored[m].in = g /\ Alive(m)}

\* Ordered by createdAt.
Ascending(S) == CHOOSE ids \in SetToSeqs(S) : \A i, j \in DOMAIN ids : i < j => ids[i] < ids[j]

GetGroupMessages(s) ==
    /\ Asked(s, "get")
    /\ IF req[s].in \in member
       THEN Answer(s, [at |-> "answered", kind |-> "get", page |-> Ascending(History(req[s].in))])
       ELSE Refuse(s)
    /\ UNCHANGED <<server, uplink, inbox, screen, faults>>

\* The event is emitted and the request answered in one go; which of the two
\* the tab sees first is open.  The awaits between the write and the event are
\* left to the messages of others.
SaveMessage(s) ==
    /\ Asked(s, "send")
    /\ LET g == req[s].in
           m == Len(stored) + 1
       IN  IF g \in member
           THEN /\ Save(g, TRUE)
                /\ Emit(g, [event |-> "newGroupMessage", in |-> g, row |-> m])
                /\ Answer(s, [at |-> "answered", kind |-> "send", row |-> m,
                             captured |-> req[s].captured])
           ELSE Refuse(s) /\ UNCHANGED <<stored, inbox>>
    /\ UNCHANGED <<unsent, undone, member, room, joining, uplink, screen, faults>>

SoftDelete(s) ==
    /\ Asked(s, "delete")
    /\ LET m == req[s].msg
       IN  IF req[s].in \in member /\ Alive(m)
           THEN /\ stored' = [stored EXCEPT ![m].deleted = TRUE]
                /\ Emit(req[s].in, MessageDeleted(m))
                /\ Answer(s, [at |-> "answered", kind |-> "delete", msg |-> m])
           ELSE Refuse(s) /\ UNCHANGED <<stored, inbox>>
    /\ UNCHANGED <<unsent, undone, member, room, joining, uplink, screen, faults>>

-----------------------------------------------------------------------------
(* What the tab does with answers and events. *)

\* A row that is null makes the filter throw, and the messages stay as they
\* were.  It also makes the page fail when it is next drawn, which is left out.
Without(rows, m) ==
    IF \E i \in DOMAIN rows : rows[i] = Null THEN rows
    ELSE LET kept == Ascending({i \in DOMAIN rows : rows[i] # m})
         IN  [k \in DOMAIN kept |-> rows[kept[k]]]

Receive(s) ==
    /\ req[s].at = "answered"
    /\ groupMessages' = CASE req[s].kind = "get"     -> req[s].page
                          [] req[s].kind = "send"    -> Append(req[s].captured, req[s].row)
                          [] req[s].kind = "delete"  -> Without(groupMessages, req[s].msg)
                          [] req[s].kind = "refused" -> groupMessages
    /\ req' = [req EXCEPT ![s] = Idle]
    /\ UNCHANGED <<server, uplink, inbox, selectedGroup, listeners, faults>>

\* A request that fails may have been served; nothing is done but to say so.
Failed(s) ==
    /\ faults < MaxFaults
    /\ req[s] # Idle
    /\ faults' = faults + 1
    /\ req' = [req EXCEPT ![s] = Idle]
    /\ UNCHANGED <<server, uplink, inbox, screen>>

OnNewMessageAnyGroup(e) ==  \* mutant: the group of the event is not looked at
    groupMessages' = groupMessages \o [i \in 1..listeners |-> e.row]

\* Every handler subscribed appends the row.
OnNewMessage(e) ==
    groupMessages' = IF e.in = selectedGroup
                     THEN groupMessages \o [i \in 1..listeners |-> e.row]
                     ELSE groupMessages

OnMessageDeleted(e) ==
    groupMessages' = IF e.in = selectedGroup /\ listeners > 0
                     THEN Without(groupMessages, e.row) ELSE groupMessages

ReceiveEvent ==
    /\ inbox # <<>>
    /\ inbox' = Tail(inbox)
    /\ LET e == Head(inbox)
       IN  IF e.event = "newGroupMessage" THEN OnNewMessage(e) ELSE OnMessageDeleted(e)
    /\ UNCHANGED <<server, uplink, req, selectedGroup, listeners, faults>>

-----------------------------------------------------------------------------
Next ==
    \/ \E g \in Group : OthersSend(g) \/ Removed(g) \/ FinishJoin(g)
    \/ \E m \in DOMAIN stored : EmitSent(m) \/ OthersDelete(m) \/ EmitDeleted(m)
    \/ \E g \in Group, s, t \in Slot : Select(g, s, t)
    \/ Close \/ HandleJoin \/ HandleLeave \/ ReceiveEvent
    \/ \E s \in Slot :
          \/ Reselect(s) \/ Edit(s) \/ Return(s) \/ SendGroupMessage(s) \/ \E m \in DOMAIN stored : DeleteGroupMessage(s, m)
          \/ GetGroupMessages(s)
          \/ SaveMessage(s) \/ SoftDelete(s)
          \/ Receive(s) \/ Failed(s)

Spec == Init /\ [][Next]_vars

-----------------------------------------------------------------------------
\* What is stored, shown and under way stays in its domain, and at most one
\* handler is subscribed, and only while a group is selected.
TypeOK ==
    /\ stored \in Seq([in : Group, mine : BOOLEAN, deleted : BOOLEAN])
    /\ unsent \cup undone \subseteq DOMAIN stored
    /\ UNION {member, room, joining} \subseteq Group
    /\ selectedGroup \in Group \cup {NoGroup}
    /\ groupMessages \in Seq(DOMAIN stored \cup {Null})
    /\ listeners \in IF selectedGroup = NoGroup THEN {0} ELSE {0, 1}
    /\ faults \in 0..MaxFaults

\* Once its joins and leaves are through, the socket is in the room of the open
\* group, however fast groups were opened, closed and edited: a lookup that
\* takes long can put the socket into a room late but no leave overtakes a join.
OpenGroupIsJoined ==
    Shown /\ uplink = <<>> /\ joining = {} /\ selectedGroup \in member => selectedGroup \in room
=============================================================================
