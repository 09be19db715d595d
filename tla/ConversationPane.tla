---------------------------- MODULE ConversationPane ----------------------------
(***************************************************************************)
(* The right half of the home page in one tab: ChatContainer.jsx with      *)
(* MessageInput.jsx for a contact, GroupChatContainer.jsx for a group, and *)
(* the assistant WispBot.jsx in both.  What the user has written, quoted   *)
(* and asked lives in components that are mounted anew when the page       *)
(* changes its shape, which it does while messages load, and not when      *)
(* another conversation of the same kind is selected.  Which conversation  *)
(* is shown depends on both stores and on whether the home page is on      *)
(* screen: the profile page selects a contact and leaves the selected      *)
(* group as it is, which then is the one shown.                            *)
(*                                                                         *)
(* A draft is known by the conversation it was begun in and a number.  A   *)
(* request keeps track of whether the box, the container and the assistant *)
(* that sent it are still the ones on the page.                            *)
(***************************************************************************)
EXTENDS Integers, FiniteSets

CONSTANTS
    Direct, Grp,  \* contacts and groups
    NoOne,
    Request,      \* requests under way
    MaxDrafts,    \* bound: drafts
    MaxRequests,  \* bound: sends and questions
    MaxLoads,     \* bound: loads of messages of one kind under way
    MaxFaults     \* bound: requests that fail

Conversation == Direct \cup Grp
ASSUME KindAssumption  == Direct \cap Grp = {} /\ NoOne \notin Conversation
ASSUME BoundAssumption == {MaxDrafts, MaxRequests, MaxLoads, MaxFaults} \subseteq Nat

VARIABLES
    selectedUser, selectedGroup, home,  \* of the stores; is the home page on screen?
    isMessagesLoading, loads,           \* of each store
    draft,       \* the text in the box
    replyingTo,  \* the conversation of the message quoted
    bot,         \* the assistant: at work, whose answer it shows
    stored,      \* messages the server has saved
    req, drafts, requests, faults

place  == <<selectedUser, selectedGroup, home>>
store  == <<isMessagesLoading, loads>>
pane   == <<draft, replyingTo, bot>>
bounds == <<drafts, requests, faults>>
vars == <<place, store, pane, stored, req, bounds>>

Kind(c) == IF c \in Direct THEN "dm" ELSE "group"
NoDraft == [of |-> NoOne, no |-> 0, late |-> FALSE]
Idle    == [at |-> "idle"]
Unasked == [working |-> FALSE, answer |-> NoOne]

\* What is on screen: HomePage prefers the group.
selected == IF ~home THEN NoOne ELSE IF selectedGroup # NoOne THEN selectedGroup ELSE selectedUser

Init ==
    /\ selectedUser = NoOne /\ selectedGroup = NoOne /\ home = TRUE
    /\ isMessagesLoading = [k \in {"dm", "group"} |-> FALSE]
    /\ loads = [k \in {"dm", "group"} |-> 0]
    /\ draft = NoDraft /\ replyingTo = NoOne /\ bot = Unasked
    /\ stored = {}
    /\ req = [r \in Request |-> Idle]
    /\ drafts = 0 /\ requests = 0 /\ faults = 0

Shown == selected # NoOne /\ ~isMessagesLoading[Kind(selected)]

\* What stays of each request's sender when the page changes.
Keeping(box, container) ==
    [r \in Request |->
        IF req[r] = Idle THEN Idle
        ELSE [req[r] EXCEPT !.box = @ /\ box, !.container = @ /\ container, !.bot = FALSE]]

-----------------------------------------------------------------------------
(* Selecting. *)

\* The page goes on to show c, and n loads of its messages begin.  The container
\* stays from one contact to the next, and from one group to the next, or the same.
\* A contact's box is mounted anew as the page turns to loading; the box of a group
\* is part of the container's state.  The assistant goes.
Show(c, n) ==
    LET k    == Kind(c)
        same == NoOne \notin {selected, c} /\ Kind(selected) = k
        kept == same /\ (k = "group" \/ isMessagesLoading[k])
    IN  /\ loads[k] + n <= MaxLoads
        /\ isMessagesLoading' = [isMessagesLoading EXCEPT ![k] = @ \/ n > 0]
        /\ loads' = [loads EXCEPT ![k] = @ + n]
        /\ draft' = IF kept THEN draft ELSE NoDraft
        /\ replyingTo' = IF same THEN replyingTo ELSE NoOne
        /\ bot' = Unasked
        /\ req' = Keeping(kept, same)
        /\ UNCHANGED <<stored, bounds>>

\* A container that is mounted loads the messages in its effect.
Mount(c) == Show(c, IF c = NoOne THEN 0 ELSE 1)

SelectUser(c) ==
    /\ home /\ c # selected
    /\ selectedUser' = c /\ selectedGroup' = NoOne /\ UNCHANGED home
    /\ Mount(c)

\* setSelectedGroup loads the messages, and so does the effect, unless the object
\* passed is the one selected already.
SelectGroup(c) ==
    /\ home
    /\ selectedUser' = NoOne /\ selectedGroup' = c /\ UNCHANGED home
    /\ \E n \in (IF c = selected THEN {1, 2} ELSE {2}) : Show(c, n)

\* updateGroup replaces the object of the selected group, so the effect runs again.
UpdateGroup ==
    /\ home /\ selectedGroup # NoOne
    /\ Show(selectedGroup, 1)
    /\ UNCHANGED place

\* The cross in the header of a contact.
CloseUser ==
    /\ home /\ selectedGroup = NoOne /\ selectedUser # NoOne
    /\ selectedUser' = NoOne /\ UNCHANGED <<selectedGroup, home>>
    /\ Mount(NoOne)

\* The answer to deleteGroup or leaveGroup, for the group that is selected.
LoseGroup ==
    /\ selectedGroup # NoOne
    /\ selectedGroup' = NoOne /\ UNCHANGED <<selectedUser, home>>
    /\ Mount(IF home THEN selectedUser ELSE NoOne)

\* To another page of the application, and back.
Leave ==
    /\ home
    /\ home' = FALSE /\ UNCHANGED <<selectedUser, selectedGroup>>
    /\ Mount(NoOne)

Return ==
    /\ ~home
    /\ home' = TRUE /\ UNCHANGED <<selectedUser, selectedGroup>>
    /\ Mount(IF selectedGroup # NoOne THEN selectedGroup ELSE selectedUser)

\* handleStartChat of a contact's profile page.
StartChat(c) ==
    /\ ~home
    /\ home' = TRUE /\ selectedUser' = c /\ UNCHANGED selectedGroup
    /\ Mount(IF selectedGroup # NoOne THEN selectedGroup ELSE c)

ReceiveMessagesInPlace(k) ==  \* mutant: the page keeps its shape, and the box
    /\ loads[k] > 0
    /\ loads' = [loads EXCEPT ![k] = @ - 1]
    /\ isMessagesLoading' = [isMessagesLoading EXCEPT ![k] = FALSE]
    /\ UNCHANGED <<place, pane, stored, req, bounds>>

\* The first answer, or failure, turns the page back from loading.
ReceiveMessages(k) ==
    LET turns == isMessagesLoading[k] /\ selected # NoOne /\ Kind(selected) = k
    IN  /\ loads[k] > 0
        /\ loads' = [loads EXCEPT ![k] = @ - 1]
        /\ isMessagesLoading' = [isMessagesLoading EXCEPT ![k] = FALSE]
        /\ draft' = IF turns /\ k = "dm" THEN NoDraft ELSE draft
        /\ bot' = IF turns THEN Unasked ELSE bot
        /\ req' = IF turns THEN Keeping(k = "group", TRUE) ELSE req
        /\ UNCHANGED <<place, replyingTo, stored, bounds>>

-----------------------------------------------------------------------------
(* Writing. *)

Sending == \E r \in Request : req[r] # Idle /\ req[r].op = "send"

\* A new text, or a change of the one that is there.
Write ==
    /\ selected # NoOne /\ drafts < MaxDrafts
    /\ drafts' = drafts + 1
    /\ draft' = [of |-> IF draft = NoDraft THEN selected ELSE draft.of, no |-> drafts + 1,
                 late |-> Sending]
    /\ UNCHANGED <<place, store, replyingTo, bot, stored, req, requests, faults>>

Erase ==
    /\ draft # NoDraft
    /\ draft' = NoDraft
    /\ UNCHANGED <<place, store, replyingTo, bot, stored, req, bounds>>

Quote ==
    /\ Shown
    /\ replyingTo' = selected
    /\ UNCHANGED <<place, store, draft, bot, stored, req, bounds>>

CancelReply ==
    /\ replyingTo # NoOne
    /\ replyingTo' = NoOne
    /\ UNCHANGED <<place, store, draft, bot, stored, req, bounds>>

Begin(r, request) ==
    /\ req[r] = Idle /\ requests < MaxRequests
    /\ requests' = requests + 1
    /\ req' = [req EXCEPT ![r] = request]
    /\ UNCHANGED <<place, store, stored, drafts, faults>>

Send(r) ==
    /\ selected # NoOne /\ draft # NoDraft
    /\ Begin(r, [op |-> "send", at |-> "sent", to |-> selected, draft |-> draft,
                 reply |-> replyingTo, box |-> TRUE, container |-> TRUE, bot |-> FALSE])
    /\ UNCHANGED pane

\* validate() replaces the body by what the schema knows: sendMessageSchema has
\* no replyTo, sendGroupMessageSchema has.
Validated(q) == IF q.to \in Direct THEN NoOne ELSE q.reply

ServeSend(r) ==
    /\ req[r].at = "sent" /\ req[r].op = "send"
    /\ stored' = stored \cup {[to |-> req[r].to, draft |-> req[r].draft, quoted |-> req[r].reply,
                               replyTo |-> Validated(req[r])]}
    /\ req' = [req EXCEPT ![r].at = "answer"]
    /\ UNCHANGED <<place, store, pane, bounds>>

\* The box is emptied and the quote dropped, whatever they hold by now.
Clear(q) ==
    /\ draft' = IF q.box THEN NoDraft ELSE draft
    /\ replyingTo' = IF q.container THEN NoOne ELSE replyingTo

ReceiveSent(r) ==
    /\ req[r].at = "answer" /\ req[r].op = "send"
    /\ Clear(req[r])
    /\ req' = [req EXCEPT ![r] = Idle]
    /\ UNCHANGED <<place, store, bot, stored, bounds>>

FailSendClearing(r) ==  \* mutant: the group store swallows the error too
    /\ req[r] # Idle /\ req[r].op = "send" /\ faults < MaxFaults
    /\ faults' = faults + 1
    /\ Clear(req[r])
    /\ req' = [req EXCEPT ![r] = Idle]
    /\ UNCHANGED <<place, store, bot, stored, drafts, requests>>

\* useChatStore.sendMessage swallows the error, so that MessageInput goes on as
\* if the message were sent; useGroupStore.sendGroupMessage throws it on.
FailSend(r) ==
    /\ req[r] # Idle /\ req[r].op = "send" /\ faults < MaxFaults
    /\ faults' = faults + 1
    /\ IF req[r].to \in Direct THEN Clear(req[r]) ELSE UNCHANGED <<draft, replyingTo>>
    /\ req' = [req EXCEPT ![r] = Idle]
    /\ UNCHANGED <<place, store, bot, stored, drafts, requests>>

-----------------------------------------------------------------------------
(* The assistant. *)

\* Summarize, ask and list action items are disabled while one is at work.
Ask(r) ==
    /\ Shown /\ ~bot.working
    /\ bot' = [working |-> TRUE, answer |-> NoOne]
    /\ Begin(r, [op |-> "ask", at |-> "sent", to |-> selected, draft |-> NoDraft,
                 reply |-> NoOne, box |-> FALSE, container |-> TRUE, bot |-> TRUE])
    /\ UNCHANGED <<draft, replyingTo>>

ReceiveAnswerAnyway(r) ==  \* mutant: the answer is kept outside the component
    /\ req[r].at = "sent" /\ req[r].op = "ask"
    /\ bot' = [working |-> FALSE, answer |-> req[r].to]
    /\ req' = [req EXCEPT ![r] = Idle]
    /\ UNCHANGED <<place, store, draft, replyingTo, stored, bounds>>

\* The answer, or an error in its place; an assistant that has gone gets none.
ReceiveAnswer(r) ==
    /\ req[r].at = "sent" /\ req[r].op = "ask"
    /\ IF req[r].bot
       THEN \E answer \in {req[r].to, NoOne} : bot' = [working |-> FALSE, answer |-> answer]
       ELSE UNCHANGED bot
    /\ req' = [req EXCEPT ![r] = Idle]
    /\ UNCHANGED <<place, store, draft, replyingTo, stored, bounds>>

Next ==
    \/ \E c \in Direct : SelectUser(c) \/ StartChat(c)
    \/ \E c \in Grp : SelectGroup(c)
    \/ UpdateGroup \/ CloseUser \/ LoseGroup \/ Leave \/ Return
    \/ Write \/ Erase \/ Quote \/ CancelReply
    \/ \E k \in {"dm", "group"} : ReceiveMessages(k)
    \/ \E r \in Request : \/ Send(r) \/ ServeSend(r) \/ ReceiveSent(r) \/ FailSend(r)
                          \/ Ask(r) \/ ReceiveAnswer(r)

Spec == Init /\ [][Next]_vars

-----------------------------------------------------------------------------
Origin == Conversation \cup {NoOne}

\* Every variable stays in its domain, and nothing is kept of a closed page.
TypeOK ==
    /\ selectedUser \in Direct \cup {NoOne} /\ selectedGroup \in Grp \cup {NoOne}
    /\ {draft.of, replyingTo, bot.answer} \subseteq Origin
    /\ \A k \in {"dm", "group"} : isMessagesLoading[k] => loads[k] > 0
    /\ selected = NoOne => draft = NoDraft /\ replyingTo = NoOne /\ bot = Unasked
    /\ \A m \in stored : m.to \in Conversation /\ {m.quoted, m.replyTo} \subseteq Origin
    /\ \A r \in Request : req[r].at # "idle" /\ req[r].container =>
            selected # NoOne /\ Kind(selected) = Kind(req[r].to)

\* Once a contact's messages are on the page, the box holds a text begun in
\* that conversation, however fast contacts were switched and whichever loads
\* and sends are still under way.  (While they load it may hold another's, and
\* the box of a group may at any time.)
DirectDraftIsOwn == Shown /\ selected \in Direct => draft.of \in {selected, NoOne}

\* The assistant never shows an answer about another conversation, however late
\* it comes.
AnswerIsOwn == bot.answer \in {selected, NoOne}

\* A text begun in a group disappears from the box unsaved only if the user erases
\* it, if it was written while an earlier one was being sent, or if the page stops
\* showing a group: for a contact, for another page, or because the group was deleted
\* or left.  Going from group to group, loading, editing the group and a send that
\* fails all keep it.
GroupDraftsSurvive ==
    [][draft.of \in Grp /\ draft' = NoDraft /\ draft \notin {m.draft : m \in stored}
          => Erase \/ draft.late \/ selected' \notin Grp]_vars

\* A direct message that was sent as a reply is saved as one.
DirectRepliesAreKept == \A m \in stored : m.to \in Direct => m.replyTo = m.quoted
=============================================================================
