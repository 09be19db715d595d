---------------------------- MODULE MCGroupMessages ----------------------------
(* Small instances of the messages of groups: at the server (GroupMessages,  *)
(* two members and two requests of one group), and in a tab (GroupStore, two *)
(* groups, their rooms and a message).  A behaviour exercises one of the     *)
(* two, while the other rests where it began.                                *)
(*                                                                           *)
(* History variables tell which messages a member has been sent, whether a   *)
(* page was cut short, and the schedules in which requests overlapped; these *)
(* carry no history further and have fewer messages, which bounds the state  *)
(* space.                                                                    *)
EXTENDS GroupMessages, TLC

CONSTANTS
    MaxOverlapped,   \* bound: messages stamped once requests overlap
    Group, Slot, MaxStored, MaxEvents, MaxFaults   \* of GroupStore

VARIABLES
    part,         \* the component this behaviour exercises
    overlapped,   \* two requests have been in flight at once
    shown,        \* messages each member was sent, or declared read
    cut,          \* a page left older messages out
    stored, unsent, undone, member, room, joining, uplink, inbox, asked, selectedGroup,
    groupMessages, listeners, faults, clean

Store == INSTANCE GroupStoreObserved WITH MaxMessages <- MaxStored, req <- asked

ASSUME StoreAssumption == {MaxStored, MaxEvents, MaxFaults} \subseteq Nat /\ Store!NoGroup \notin Group

messageVars == <<vars, overlapped, shown, cut>>
storeVars   == <<stored, unsent, undone, member, room, joining, uplink, inbox, asked,
                 selectedGroup, groupMessages, listeners, faults, clean>>
mcVars      == <<part, messageVars, storeVars>>

Overlap == \E r, q \in Request : r # q /\ req[r] # Idle /\ req[q] # Idle

Received(u) == UNION {req[r].page : r \in {q \in Request : At(q, "stampRead") /\ req[q].by = u}}
Declared(u) == IF \E r \in Request : BeginMark(r, u) THEN DOMAIN messages ELSE {}

MCInit ==
    /\ part \in {"messages", "store"}
    /\ Init /\ overlapped = FALSE /\ shown = [u \in User |-> {}] /\ cut = FALSE
    /\ Store!ObservedInit

MessageStep ==
    /\ part = "messages"
    /\ Next
    /\ overlapped' = (overlapped \/ Overlap')
    /\ cut' = (~overlapped' /\ (cut \/ \E r \in Request : FindPage(r) /\ ~(Live \subseteq req'[r].page)))
    /\ shown' = [u \in User |-> IF overlapped' \/ cut' THEN {}
                               ELSE shown[u] \cup Received(u)' \cup Declared(u)]
    /\ overlapped' => now' <= MaxOverlapped
    /\ UNCHANGED storeVars

StoreStep == part = "store" /\ Store!ObservedNext /\ UNCHANGED messageVars

MCNext == (MessageStep \/ StoreStep) /\ UNCHANGED part
MCSpec == MCInit /\ [][MCNext]_mcVars

-----------------------------------------------------------------------------
Quiet == AllIdle /\ ~overlapped /\ failures = 0

\* Requests that do not overlap, and of which none died, leave the stored count at
\* the number of messages that can be found, through failed uploads and repeated
\* deletions; and deleteGroup takes the messages with it.
MessagesSettle ==
    Quiet => IF group.deleted THEN Live = {} ELSE group.totalMessages = Cardinality(Live)

\* Every message of somebody else is one the member was sent, declared read, or
\* is still counted unread, although lastReadAt is stamped only after the page
\* was read; as long as no two requests overlapped, no handler died, and no page
\* left out a live message, be it too short or asked for with a cursor.
UnreadOrShown ==
    Quiet /\ ~cut =>
        \A u \in User : \A m \in Live : messages[m].by # u => m \in shown[u] \cup Unread(u)

\* A tab whose socket is up and which has joined what it shows hears of that group,
\* however joins and leaves meet the look-up of the membership.
OpenGroupIsJoined == Store!TypeOK /\ Store!OpenGroupIsJoined

\* Opening a group cures whatever went wrong before: the screen shows its messages.
GroupScreenIsFaithful == Store!GroupScreenIsFaithful

\* The groups of the tab and its requests have the values of the two requests, which
\* are exchanged together.
Symmetry == Permutations(Request)
=============================================================================
