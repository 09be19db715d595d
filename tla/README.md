# A TLA+ model of WispCloud

WispCloud is a chat server and its web client: Express handlers and Socket.IO
connections over MongoDB and Redis (`src/backend/src`), and a React client with
Zustand stores (`src/frontend/Wisp/src`). Its processes share nothing but Redis
and MongoDB, and every `await` on either is a point where any other handler, of
the same process or of another, may run. What is hard about it is what happens
between two awaits, and that is what these modules are about.

## The system

| Component | State it keeps | Operations | Meets |
|---|---|---|---|
| presence (`lib/socket.js`, `lib/redis.js`) | Redis: `online_users`, `user:<id>:sockets`, `socket_user_map`; per process `userSocketMap` | connect, disconnect, each a sequence of awaited commands | broadcaster, typing tracker, shutdown |
| presence broadcast (`lib/presenceBroadcaster.js`) | `timerId`, `pendingFlush` per process | schedule, timer, flush | presence, clients |
| lifecycle (`index.js`) | the drain flag | boot, shutdown, exit | broadcaster, sockets |
| typing tracker (`lib/typingTracker.js`) | an entry with a timer per (sender, target), per process | `recordTyping`, `clearTypingForSender`, timers | presence |
| groups (`group.controllers.js`, two models) | the group document with its count, the membership documents | create, update, delete, add, remove, set role, leave | messages, rooms |
| chat invites (`chatInvite.controllers.js`) | one document per invite | send, accept, reject, cancel | sidebar |
| user cache (`lib/redis.js`, `auth.middleware.js`) | a copy of the user document with a TTL | get, set, delete around MongoDB reads and writes | every authenticated request |
| session (`auth.controller.js`, `jtiBlocklist.js`, `axios.js`, `useAuthStore.js`) | tokens, blocklist, the browser's cookie, each tab's token | log in, call, refresh, log out | user cache |
| direct and group messages (`message.controllers.js`, `groupMessage.controllers.js`) | message documents, `totalMessages` | send, delete, list by page, mark read | groups, client stores |
| group rooms (`lib/socket.js`) | the rooms each socket is in | join, leave | groups, client stores |
| client stores (`useChatStore.js`, `useGroupStore.js`, `useAuthStore.js`, the two containers) | the selected conversation or group, its messages, unread counts, socket listeners | select, load, send, delete, receive, subscribe | messages, rooms |
| typing, end to end (`MessageInput.jsx`, `socket.js`, `ChatContainer.jsx`) | the box's idle timer, the screen's hide timer | press a key, go idle, switch, send, vanish, receive, hide | typing tracker |
| group forms (`CreateGroupModal.jsx`, `GroupDetailsModal.jsx`) | a draft, a lock or a spinner, picked people, the request under way | edit, submit, close, time out, answer | groups, client stores |
| lists of invites and contacts (`useChatInviteStore.js`, `Sidebar.jsx`, the profile page) | four lists, each loaded on its own and changed by events | load, act, receive, reconnect | invites |
| conversation page (the two containers, the two boxes, `WispBot.jsx`) | the text in the box, the message replied to, the assistant's panel | write, reply, send, ask, switch | client stores, validation |
| the tab's socket (`useAuthStore.js`, `axios.js`, the handshake in `socket.js`) | the token it dials with, who it is authenticated as | connect, refuse, drop, redial, sign out | session |
| rate limiter (`rateLimiter.js`, `index.js`) | counters, in Redis or per process | boot, count, refuse, uncount a success | Redis |
| external calls, response cache, errors, logging, scripts, the remaining pages | little or none | | |

`PROJECT.json` lists all of them with their sources and what is left out, and
the hazards with the line where each bites.

## Modules

| Module | Models | State and actions |
|---|---|---|
| `Presence` | connection and disconnect handlers | `pc[s]` names the Redis command the handler of socket `s` is about to have executed; one action per command, plus `Disconnect`, `DisconnectUnheard` (the transport drops before the listener exists), `RedisRejects` (the command may or may not have been executed), `CloseAll` (`io.close()`), `Crash` |
| `PresenceBroadcaster` | the debounced broadcaster of each process | timers, owed broadcasts, reads in flight (a queue: one connection answers in order) |
| `PresenceSystem` | both, the shutdown sequence and the clients | every action of the two modules, joined where the code calls from one into the other |
| `TypingIndicator` | what the typing tracker promises its receivers | abstract: an indicator goes on because somebody typed and dies of age |
| `TypingTracker` | the tracker of one process | every exported function is synchronous, hence one action each; `Tick` is time, timers that are due fire first |
| `GroupMembership` | the handlers of one group | a request is in a handler at an await, with what it loaded; Mongoose's `save` writes only the paths that changed, `find` and `count` skip soft-deleted documents, the unique index does not |
| `ChatInvites` | the handlers on one pair's invites | the same way |
| `UserCache` | the cached copy of one user document | the document is a version number; readers and writers stop at each awaited call, and a Redis call may fail |
| `Session` | one user's browser tabs and the token endpoints | a request is sent, served and received in three steps; `refresh` is served in two, with the awaits between the lookup and the revocation |
| `MessageHistory` | a reader who follows `nextCursor` through the pages of a history | a message is its place in the order of `createdAt` (no two are equal); what its `_id` is made of (second, process, counter) decides which messages are before a cursor; `FetchPage` is `getMessages` or `getGroupMessages`, whose paging is the same |
| `ChatStore` | one tab and its direct messages: the store, the socket handler, the container's effect, and the handlers on the server | a request is sent, served and received in three steps, and keeps the `messages` it captured; events arrive in order over one socket that may drop |
| `GroupStore` | one tab and its groups: the store, the container's effect, the rooms, and what clients see of the group message handlers | as in `ChatStore`; joins and leaves travel to the server in order, a join then waits for a lookup, and the saves and deletions of others are emitted some awaits after they were written |
| `GroupMessages` | the handlers on the messages of one group | as in `GroupMembership`, with the stored `totalMessages`, `lastReadAt` of each member and the messages' half of the cascade; a page is asked for with a cursor or without, and either way stamps `lastReadAt` |
| `CreateGroupForm` | the dialog that creates a group and the list of groups behind it | a submission is two requests in a row, each sent, served and received or lost: success is announced when the first returns, before the members are added, and the dialog is emptied after the second; the timer (`TimeOut`) gives up what goes on; the form may be closed and reopened, or the page left, at any point; `Reload` loads the list again on `groupJoined` |
| `GroupDetails` | the dialog that shows and edits a group | state that outlives a group (selection, picture, member list, drafts) is kept with the group it was meant for; the list behind the dialog has the user's role, which an update takes away and a reload brings back; one visit of the home page, for leaving it mounts the dialog anew |
| `TypingSystem` | sender's box, tracker, receiver's screen | instantiates `TypingTracker` and joins it, call by call, with the timers of both clients and the sender's socket |
| `InviteLists` | four lists of a tab under loads, events and answers | a change on the server is an event in order on one socket, which may drop; a load takes a snapshot and arrives later; a load that is asked for while one is under way is sent all the same for invites, and not for contacts |
| `ConversationPane` | what is written in the box of the open conversation, for direct and group messages, and the panel of the assistant | the page shows the selected group, else the selected contact, so both stores are kept (a profile page's `StartChat` selects a contact and leaves the group); a draft carries the conversation it was begun in; components are unmounted when the page shows something else, a loading skeleton included; the schema's fields decide what of a body reaches the handler |
| `SocketSession` | one tab: its socket, its tokens, users who take turns | dial, handshake and the answer are separate steps; the refresh is as in `Session`, and a sign-out does with the socket what the code does |
| `RateLimiter` | the limiters of a route on several processes | each process chooses a store at boot; a request passes its limiters one increment at a time |
| `PresenceProofs`, `SystemProofs`, `TypingProofs`, `HistoryProofs`, `GroupMembershipProofs`, `GroupMessagesProofs`, `ChatInvitesProofs`, `ConversationPaneProofs` | theorems | see below |
| `PresenceObserved` | `Presence` with the history variable `overlapped` | set when a second handler of a user starts while one is under way |
| `TabSession` | a browser's tokens and sockets | `Session` and `SocketSession` side by side, for `MCPresence` and for the proofs |
| the other `...Observed` | the module of that name with history variables | the variables tell the schedules in which something met what its code does not expect from the others, for the properties that speak of the latter |
| `MC...` | small instances | constants, history variables, and the components that are explored together |

Operators whose comment begins with `mutant:` are plausible bugs of the
definition that follows them. No action uses them; `PROJECT.json` pairs each
with the property that must fail when it takes its neighbour's place.

## What the runs check

Many of the handlers are not written to be atomic, and what the sources promise
is often true only of requests that do not meet. The runs therefore separate
what holds in **every** interleaving from what holds while handlers do not
**overlap**; the second kind of property reads a history variable (`overlapped`,
`raced`, `clean`, ...) that tells at which step they first did, so the overlapping
schedules are explored all the same and the other invariants judge them.

Where components interact, one module composes them: `PresenceSystem` joins the
handlers, the broadcasters, the shutdown and the clients, `TypingSystem` both
clients and the tracker. Components that share no modelled state are explored by
one run side by side: an `MC` module extends one, instantiates the others and has
a variable `part`, chosen at the start, that says which of them a behaviour
exercises, while the others rest where they began. A property of a component at
rest is one of its initial state. The sets that are symmetric have the same
values in each of them, so that one permutation exchanges all.

| Run | Part | Bounds | Shows |
|---|---|---|---|
| `MCPresence` | `presence` | 2 users, 3 tabs (two of one user, on two processes), 1 rejected command, 1 crash | in every interleaving nobody stays online with an empty socket set (`NoGhostOnline`), a live tab stays recorded (`LiveSocketTracked`), and an entry outlives its tab only for a named reason (`StaleEntryHasCause`); without overlap a user is online exactly when a socket is recorded (`OnlineIffTracked`) |
| | `tokens` (`Session`) | 1 tab, 2 concurrent calls, 3 token pairs, 1 lost message | a lone tab is not signed out by rotation or by simultaneous expiry and stays out after logging out (`LoneTabIsRight`), and none of its calls hangs or refreshes for ever (`CallsSettle`) |
| | `sockets` (`SocketSession`) | 2 users, 3 tokens, 1 dropped transport, 1 fault | the socket dials with the store's token and is the user's until a sign-out leaves one behind (`SocketFollowsUser`); who is signed in is connected again or signed out (`Reconnects`) |
| `MCPresenceSystem` | `presence` | 2 users, 1 process that may be shut down, 1 fault, 1 crash or exit, 2 reads in flight | the debounce loses no change: the last list told is the true one, or a broadcast is owed (`NoChangeForgotten`); the timer is armed exactly while one is owed (`TimerIffPending`); open tabs converge to the true list (`Converges`) |
| | `cache` (`UserCache`) | 3 requests, 3 writes, TTL of 2 ticks, 2 failing Redis calls | a stale copy needs a race or the OAuth sign-in (`FreshUnlessRaced`), and none survives its TTL (`StalenessEnds`) |
| `MCTypingTracker` | `tracker` | 2 senders, 2 targets, window of 1 tick, life of 5 (the code's ratio) | an indicator that is on has an armed timer (`NoOrphanedIndicator`); the tracker implements `TypingIndicator` (`IsIndicator`) |
| | `system` (`TypingSystem`) | 2 contacts, timers of 1 tick and a tracker life of 2, 2 events in flight, 1 message sent, 1 load | leaving a conversation ends the typing there or leaves it to the tracker, and an indicator on a screen has a timer (`LeftConversationIsEnded`); once no key is pressed the screens go quiet (`ScreensGoQuiet`) |
| `MCGroupMembership` | `group` | 3 users, 2 requests, capacity 2, with and without approval, 1 handler that dies | the owner stays the owner under every pair of handlers (`OwnerStays`); a group that can be found is owned, and without overlap the count and the cascade are right (`SettledWhenIdle`) and the capacity is kept (`CapacityKept`) |
| | `form` (`CreateGroupForm`) | 2 submissions, 2 forms, 2 loads of the list, 1 lost answer | nobody makes a second group of one form unless an error was shown for the first; what is announced, the group or its members, is so; a group without its members is still being made or had its error shown; and the list is right unless a load met the making of a group (`FormIsHonest`) |
| `MCChatInvites` | `invites` | 1 pair, 3 documents, 2 requests | no connection without the consent of both, in every interleaving (`ConsentOfBoth`); without overlap one invite per pair (`OneInviteUnlessRaced`), and an accepted one is final (`AcceptedIsFinal`) |
| | `lists` (`InviteLists`) | 2 peers, 3 changes, 1 visit of a profile page, 1 failed request or dropped socket | a tab at rest shows the invites and contacts of the server, and a profile what the server allows, unless a load, an event and an answer met or an event was lost (`ListsAreRight`) |
| | `limits` (`RateLimiter`) | 2 processes, 2 requests at a time and 4 in all, ceilings of 3 and 2, windows of 2 ticks, 1 failure to reach Redis | limiters that share Redis share one ceiling, and a limiter in memory refuses only for what it has counted itself (`LimitsKept`) |
| `MCConversationPane` | `pane` | 2 contacts, 1 group, 2 requests, 2 drafts, 2 sends or questions, 2 loads, 1 fault | a text in a direct box was begun there (`DirectDraftIsOwn`), an answer is shown where it was asked (`AnswerIsOwn`), and a text begun in a group disappears unsaved only if it is erased, was written during an earlier send, or the page stops showing a group (`GroupDraftsSurvive`) |
| | `details` (`GroupDetails`) | 2 groups, 2 requests, 2 edits or faults together | a group is never given the name drafted for another, and shown after its deletion only until the answer, unless that is lost or an outdated list comes; pictures, selections and lists stay with their group unless the dialog was left with them under way (`DetailsStayOwn`) |
| `MCGroupMessages` | `messages` | owner and a member, 2 requests, pages of 2, 3 messages (2 once handlers overlap), 1 failure | in every interleaving the stored count is never above what was sent (`NeverOvercounts`); without overlap and without a handler that dies the count and the cascade are right (`MessagesSettle`), and so are the unread marks until a page leaves out a live message (`UnreadOrShown`) |
| | `store` (`GroupStore`) | 2 groups, 2 requests, 1 message, 3 joins and leaves under way, 1 failure or ended membership | however fast groups are opened, closed and edited, the socket ends up in the room of the open one (`OpenGroupIsJoined`); the screen is exact until a message meets a request, a join or a leave (`GroupScreenIsFaithful`) |
| `MCMessageHistory` | `history` | 1 process, 5 messages, pages of 1 and 2, 2 seconds | a reader who follows the cursor to the end gets every message that stays, whatever is sent and deleted meanwhile, if no two have one `createdAt` (`NothingSkipped`), and each page but the last brings a new one (`WalkAdvances`) |
| | `store` (`ChatStore`) | 2 peers, 2 requests, pages of 1, 2 messages, 1 failure or dropped socket | in every interleaving one's own message is shown once (`OwnShownOnce`) and "read" is never shown before it is true (`ReadIsTrue`); the screen is exact until an event meets a request, and exact again when a conversation is opened (`ScreenIsFaithful`) |

Four runs end in a violation, each of a statement the sources make. Each explores
one part of the run whose module it uses, with two tabs where one is not enough.

| Run | Statement | What happens |
|---|---|---|
| `MCPresenceAtomic` | `socket.js:202-204`: of two instances racing to register a first connection one observes the count 1 | `sAdd` and `sCard` are two commands; though none is rejected both may observe 2, and the user is connected and offline |
| `MCSessionTwoTabs` | `axios.js:46`: a failing refresh is the death of the session | two tabs refresh with one cookie, which both present; the slower is answered 401 and signs its user out |
| `MCSocketSessionOwn` | `README.md:39`: a user's sockets are in the user's own room | a socket that survives a sign-out is kept by the next user of the tab |
| `MCRateLimiterAuth` | `rateLimiter.js:19-20`: only failed attempts consume the budget of the auth limiter | in Redis the limiters share one key, and what the global one counts uses up the attempts |

Other statements of the sources are written down in the modules next to what the
code does, and are not true of it: TLC refutes each in the instance its module is
explored in (`TabsAgree` with two tabs of one user):

| Statement | In | What happens |
|---|---|---|
| `StaysUntilLastTab`, `README.md:39` | `Presence` | the closing tab's handler has counted zero and is about to write; a tab that connects meanwhile is taken offline with it |
| `TabsAgree`, `README.md:19` | `PresenceSystem` | only a first connection schedules a broadcast; a second tab shows nobody online until somebody comes or goes |
| `RefusalMeansDead`, `useAuthStore.js:211-213` | `SocketSession` | a tab that redials after its access token has expired is refused and signed out, with a good refresh cookie |
| `KeepsTrying`, `useAuthStore.js:228` | `SocketSession` | an error in the handshake middleware ends the dialling |
| `DirectRepliesAreKept`, `README.md:18` | `ConversationPane` | the schema of `sendMessage` does not know `replyTo` (`validation.js:69`), so the handler never sees it |
| `FailsOpen`, `rateLimiter.js:115-117` | `RateLimiter` | only if Redis was away at boot; when it is lost later the requests fail |

Other disagreements met on the way are listed as hazards without a run of their
own; the steps that lead to them are in the models, and the properties say
under which condition they do not happen:

* a message whose sender was checked before the deletion of the group is saved
  after the cascade and survives it (`group.model.js:100-102`);
* a burst of typing without a pause of two seconds is announced once, and its
  indicator goes off while it lasts (`typingTracker.js:5-7` says that the client
  fires once per about two seconds of activity);
* with two processes, one emits after another's change the list it had read
  before, and every client keeps it (`presenceBroadcaster.js:11-12`);
* a member added between the cascade and the deletion of the group stays
  (`groupMember.model.js:97-98`), and two overlapping additions exceed
  `maxMembers`;
* two overlapping sends create two invites, and an accepted invite can be
  cancelled;
* the Google strategy saves the user and does not delete the cached copy
  (`redis.js:87-88`);
* a page repeats all of the page before it but its newest row, because
  `reverse()` works in place (`message.controllers.js:90`); with two processes a
  page can skip a message, since ids of one second are not in the order of
  `createdAt` (`message.model.js:129`);
* "Group created successfully" is announced when the first of two requests returns
  (`useGroupStore.js:36`): when the second fails the user has seen both the success
  and an error, and the form, still filled in, makes a second group;
* what was written in a group is lost when a contact is opened, for the text is
  state of the container (`GroupChatContainer.jsx:27`);
* a page that is asked for with a cursor stamps `lastReadAt` as well, and newer
  messages that were never sent are counted as read
  (`groupMessage.controllers.js:97`);
* a send writes back the messages it captured, so that one received meanwhile
  vanishes from the screen, and the answer of a conversation left meanwhile
  replaces the one that is open;
* a message of one's own in a group is shown twice, from the answer and from the
  event, when the answer comes first;
* a flush that finds the timer already fired does not wait for its read
  (`index.js:241-243`), and alternating `true` and `false` is never throttled
  (`typingTracker.js:5-6`);
* two overlapping sends or deletions of group messages lose an increment of
  `totalMessages` (`groupMessage.controllers.js:51`);
* the answers of `createGroup` and `updateGroup` carry no `memberRole`, so the
  row of an owner loses the controls until the list is loaded again;
* two overlapping refreshes with one cookie may both succeed
  (`auth.controller.js:143`), since the blocklist is read before other awaits
  and written after them.

### Why the bounds are enough

Three tabs give every order of two handlers of one user and a bystander; a
fourth adds interleavings of the same pairs. Two requests are the least with
which a handler can lose what it loaded; the group run has three users so that
owner, admin and member differ, and a capacity of two so that it is reached.
`UserCache` needs a third request for a write that meets two readers. Three
token pairs are a login, a rotation and a second rotation or login; so that a
refresh under way never meets the bound, what uses tokens up (a page, a login, a
call) begins only while enough are left for all it may cause (`SparePair`). Two requests
of a tab are the least that can overtake one another; one message tells the two
groups apart, and the loads of one selection already fill both requests. Five
messages and pages of two give walks of several pages that overlap, with sends
and deletions between them. `GroupMessages` needs one member besides the owner
for a mark that another's message makes stale, and a page smaller than the
history. A dialog needs two groups for state that is left from one to the other
and two submissions for an answer that comes to a newer form; the box likewise
two contacts, of whom one is left with an answer under way. The typing system
shrinks every timer to a tick, since what it asks is who is told, and not when;
the tracker alone has the ratio of the code. Two peers tell
the lists of one tab apart, and three changes are an invite, its answer and
another. A ceiling of three is passed by the fourth request, two
processes share it in Redis, and one failure may come at boot or later.
Counters that
grow without bound in the code (`MaxFaults`, `MaxCrashes`, `MaxReads`,
`MaxWrites`, `MaxTokens`, `MaxLosses`, `MaxFailures`, `MaxMessages`,
`MaxSubmissions`, `MaxForms`, `MaxEdits`, `MaxDrafts`, `MaxLoads`, `MaxSends`,
`MaxInvites`, `MaxDrops`, `MaxOutages` and the like) are bounded by constants that
only guard the action that counts.

Deadlock is not checked: the bounded system may really stop, when every tab has
come and gone, every request has been answered and the bounds are used up. That
nothing waits for ever is what the liveness properties say.

### Fairness

Weak fairness is given to what the event loop, Redis and MongoDB do with
something already started: a command in flight is answered, its continuation
runs, an armed timer fires, time passes, a sent request is served and its
response handled. No client is obliged to connect, leave, type or ask, no fault
and no crash has to happen, and no token has to expire. In `TypingSystem` the ticks, the
timers of both clients and of the tracker, the delivery of what is in flight and
the server's noticing of a closed transport are fair, pressing keys is not; in
`SocketSession` socket.io dials, the
middleware answers and the client hears the answer. `Converges` is claimed of behaviours
without faults and crashes, since the code has no repair for either. Where a run
explores several components the fairness of one asks nothing of the behaviours of
another, for nothing that is fair is enabled in an initial state.

## What is proved

Each proof module extends the module its run checks (`PresenceProofs` extends
`PresenceObserved`), so that a theorem speaks of the very formula TLC has checked,
for every value of the constants. A component that is explored beside another is
proved through its instance (`Store!`, `Details!`, `Limits!`, ...): its inductive
invariant holds at the start, is kept by its own steps, and is not touched while
another part moves.

**Presence** (`PresenceProofs`, any users, sockets, processes and bounds).

* `TypeCorrect`, and `Inductive`, from which follow `GhostFree` (`NoGhostOnline`),
  `LiveTracked` (`LiveSocketTracked`) and `StaleExplained`
  (`StaleEntryHasCause`). None of the three is inductive by itself: that an
  online user's set is emptied only by a handler that will look at it needs to
  know that a handler about to set its user online has put its own socket into
  the set and that no other handler removes it. The strengthening
  (`HandlersInv`) says, for every socket, at which places of its handlers it is
  in the set, in every fault-free behaviour, and that an open socket has a
  handler in charge of it. The step lemmas treat the handler's own commands
  first, then the steps that start, drop, reject or kill handlers.
* `OwnerKnown` (`TrackedHasOwner`): the hash and the sets agree. A handler writes
  its key before it enters the set and removes it before it leaves, so between
  the two it must be known to have its key (`KeyedIsKept`).
* `OnlineAlwaysTracked` (`OnlineIffTracked`): until two handlers of a user
  overlap, the one that is under way knows what its last count said, and
  everybody else's place agrees with `online_users` (`OnlineInStep`).

**Presence with its broadcasts** (`SystemProofs`, any tabs, processes, signals).

* `StepsAreHandlers`: every step of `PresenceSystem` is a step of the handlers, or
  leaves their variables alone, or is a rejected read. What `PresenceProofs`
  proves therefore carries over (`GhostFreeSystem`), and serves as the handlers'
  half of the system's invariant.
* `TypeCorrect`, `TimerAlwaysPending` (`TimerIffPending`): with `SInv`, which adds
  a bound on the reads in flight that the flush of the shutdown respects as well.
* `NothingForgotten` (`NoChangeForgotten`), for one process: the last list told is
  the true one, or the owed broadcast or the newest read in flight will tell it.
  With two processes it is false, as the list above says.

**Cached users, tokens, sockets** (`SystemProofs`).

* `FreshAlwaysUnlessRaced` (`FreshUnlessRaced`): while no write has met a reader
  that missed, a reader holds what it would find (`CacheInStep`).
* `LoneTabAlwaysRight` (`LoneTabIsRight`), for one tab: while the user is logged
  in, either the cookie is good and unspent or its successor is on the way, and no
  call has been told otherwise (`SignedIn`); once out, there is no cookie and
  nobody who could bring one (`SignedOut`). With two tabs it is false, which is
  what `MCSessionTwoTabs` shows.
* `SocketAlwaysFollows` (`SocketFollowsUser`): what a signed-in tab holds, and what
  is on its way to it, is its user's (`OwnSocket`).

**Typing** (`TypingProofs`, any senders, targets, window, life and timers).

* `NeverOrphaned`, `EntriesInStep`: the two invariants, inductive together with
  `TypeOK`. Both clearing paths go through one lemma on `ClearEntries`; the one on
  disconnect first needs that its `lastIsTyping` test never skips a pair that was
  told "typing".
* `ImplementsIndicator`: `TypingTracker` implements `TypingIndicator`, with the age
  of an indicator read off its timer.
* `LeftConversationAlwaysEnded` (`LeftConversationIsEnded`): the last word said to
  a target, by what is in flight or already served, is "stopped" unless it is the
  open conversation and the box is typing (`Ended`); a tab that is gone and
  noticed has no entry (`GoneIsGone`).

**Groups** (`GroupMembershipProofs`, any users, handlers, capacities, failures).

* `OwnerAlwaysStays` (`OwnerStays`). A handler acts on a membership it loaded some
  awaits ago. The invariant says, for each place of a handler, what it still knows
  whatever the others did: a membership it is about to save is not the owner's
  (`NotOwner`), because no handler ever makes one so but the creation of the
  group; and a group that can be found has been given its owner, or a founding
  handler is about to.
* `CapacityAlwaysKept` (`CapacityKept`): an addition that runs alone has counted,
  and those it has yet to add are places it found free (`Reserved`, `Room`).
* `SettledAlwaysWhenIdle` (`SettledWhenIdle`): the only handler under way knows, at
  each of its awaits, what will be true when it has finished (`Alone`).
* `FormAlwaysHonest` (`FormIsHonest`): each submission is traced on both sides, how
  far the dialog has come with it and what the server made of its two requests
  (`Traced`), and the list lacks the server's by the answers under way
  (`ListTraced`).

**Invites and limits** (`ChatInvitesProofs`).

* `ConsentAlways` (`ConsentOfBoth`): who wrote the direction of an invite was
  willing and stays on record, so the sender whom an accepting handler saw is on
  record even if the document has been turned round since.
* `OneInviteAlways` (`OneInviteUnlessRaced`) and the action property
  `AcceptedStaysFinal` (`AcceptedIsFinal`): what a handler found when it loaded is
  still so when it is alone (`Orderly`).
* `LimitsAlwaysKept` (`LimitsKept`), for any processes, routes, ceilings, windows
  and outages: whatever a counter let through it has counted, or a late decrement
  has taken it back (`PassedCounted`), counted through the requests in whose name
  it may yet be taken back; a limiter in memory has counted at least what its
  counter shows (`OwnCounted`).
* `ListsAlwaysRight` (`ListsAreRight`), for any peers and any number of invites and
  faults. The property speaks of a tab at rest; the invariant (`ListsInv`) says what
  the tab holds at any moment. An id is used once and is known to be one peer's
  (`Known`, `ListsKept`). While the sidebar is mounted and nothing was raced
  (`Steady`), the invites there are are those listed or announced, short of those
  whose end is announced or answered (`PendingRight`, `SentRight`): an invite that
  is announced is listed nowhere yet, and its cancellation comes after it. A load
  answers what there is (`ServedRight`), since nothing happens while one is under
  way (`Calm`); contacts lack only the peers the tab was not told of (`UsersRight`);
  what the user answers is theirs to answer (`ActRight`). A profile page that is
  opened from these lists then says what the server would (`StatusIsTruth`).

**The conversation page** (`ConversationPaneProofs`).

* `DirectDraftAlwaysOwn`, `AnswerAlwaysOwn`: a request remembers which box, container
  and panel it was begun from, and the invariant says what each of the three still
  is while it is mounted.
* `GroupDraftsAlwaysSurvive`, an action property: of the steps that empty the box of
  a group, the answer of a send is the one that needs the invariant. What it clears
  is the text it sent, or one begun while it was under way.
* `DetailsAlwaysOwn` (`DetailsStayOwn`): what is on the screen of the dialog is its
  group's (`OnScreen`), a request carries what was meant for its group (`Fits`),
  the server has made of a group what its own requests asked for (`AsAsked`), and a
  list that is not there is on its way (`ListComes`). A group that is gone is shown
  only until its deletion is answered, which needs to know what a reload under way
  still lists.

**Messages** (`HistoryProofs`, any page sizes, bounds, peers and requests).

* `WalkSkipsNothing` (`NothingSkipped`), for one process. The invariant is that
  whatever a walk has yet to return lies before its cursor. It survives a page
  because the cursor, the newest message of the page, is the newest of all that was
  found (`NextCursorIsLargest`, which takes from the well-foundedness of strict
  inclusion that a finite set has a largest member), and because the last page
  holds all that was found (`WholePage`). That "before" in the order of ids is
  "before" in the order of messages is where one process is needed (`IdsAscend`).
* `WalkAlwaysAdvances` (`WalkAdvances`), for one process. What a page repeats is the
  newest of what lies before its cursor and less than a page (`Repeats`): the page
  after holds all of it, with at least one row more, and is in turn repeated but
  for its newest row (`PageRepeats`, `PageIsShort`).
* `OwnAlwaysShownOnce` (`OwnShownOnce`) and `ReadAlwaysTrue` (`ReadIsTrue`): rows on
  the screen, and rows captured or brought by a request that may put them there,
  are messages there are, one's own once each, and marked read only if they have
  been (`RowsOK`, `Holds`); an answer to a send brings a message nobody else can,
  since the server announces to a tab only what its peers wrote (`InboxOK`,
  `AnnouncedOnce`).
* `ScreenAlwaysFaithful` (`ScreenIsFaithful`). The property speaks of a tab at rest;
  the invariant (`ScreenInv`) says of every request under way which rows it will put
  on the screen, and of those rows, as of the screen when nothing is under way, that
  they are the newest messages but for what is still to be announced, with a status
  that is behind only by a receipt on its way (`Faithful`). That a page is the newest
  of a conversation survives a message because rows are closed upwards: whatever is
  newer than a row is a row, or is coming.

**Messages of groups** (`GroupMessagesProofs`, any members, groups, requests).

* `NeverOvercountsAlways` (`NeverOvercounts`): a count that a handler may yet write
  back is covered by the messages there are; the handler that saves a message
  covers the next count by doing so (`Counting`).
* `MessagesAlwaysSettle` (`MessagesSettle`): as for memberships, the only handler
  under way knows what is missing from the count (`Consistent`).
* `UnreadAlwaysOrShown` (`UnreadOrShown`): a message of somebody else was shown, or
  is younger than the last reading; whoever is about to stamp a reading has been
  shown everything (`Noticed`, `Showing`).
* `OpenGroupAlwaysJoined` (`OpenGroupIsJoined`): every leave of the open group on
  its way to the server is followed by a join, and the socket is in the room unless
  a join is under way or being looked up (`Heading`). The type half of this
  invariant includes that a page and a list without a message are sequences of
  messages there are, for which `Ascending` must exist (`AscendingExists`).
* `GroupScreenAlwaysFaithful` (`GroupScreenIsFaithful`). Again the invariant says
  what each request will make of the screen (`ForScreen`). Rows are `Right` when they
  lack only messages of others that are on their way and show too much only of
  messages whose deletion is; for that, the way must carry a message of somebody else
  once, and after each message that is deleted its deletion (`Flowing`). Every step
  moves a message between the places where it may be without breaking this
  (`RightStays`), adds a row (`RightAppend`) or takes one away (`RightWithout`). That
  the socket is in the room when an event is emitted is `Heading`, above. The attempt
  to prove this also corrected the model: a group that was opened while a load of the
  one before was still under way used to count as opened afresh, which is wrong when
  the old answer arrives last (with three requests under way, TLC shows it);
  `GroupStoreObserved` now asks that no request be under way.

Each module also proves the type invariant of the module it is named after. In all
of them the others' steps come first: a lemma says that what a handler knows
survives what any other handler does (`OthersStaySound`, `Knows`, `Fits`), and the
step lemmas then look at one handler.

### Assumptions

They are the named ones of the modules and of the `MC` modules for the components
they instantiate: `Owner` and `Home` are functions (`OwnerAssumption`,
`HomeAssumption`); sockets, users, capacities and the requests that are limited are
finite sets; bounds are natural numbers; window, life, page sizes and TTL are
positive (`CacheAssumption`, `SystemAssumption`, the two `StoreAssumption`s); a
group can have two members, an invite is between two users; peers are finite in
number and the value for "no profile" is none of them (`ListsAssumption`); the
values that stand for "nobody" and "no group" are nobody's (`TabAssumption`,
`DetailsAssumption`); no process is called like the shared store
(`ProcessAssumption`), a route names a limiter once (`LimiterAssumption`), and no
id is both a contact's and a group's. TLC evaluates each of them in a run. Four
theorems have a hypothesis besides: `OneProcess` for `NothingForgotten`,
`WalkSkipsNothing` and `WalkAlwaysAdvances`, `OneTab` for `LoneTabAlwaysRight`;
each is what the run has, and without it TLC refutes the property.

Some operators are written so that the provers can use them: the page of a history
and a list without a message or an invite are `Ascending` sequences of a set rather
than sorts and filters, whose definitions are recursive, and what was last said to a target is
a question about two neighbours in a queue. What they mean is the same.

### Only model-checked

* `Converges`, `ScreensGoQuiet`, `StalenessEnds`, `CallsSettle`, `Reconnects`:
  properties under fairness are beyond the prover.

Every invariant and every action property the passing runs check is stated by a
theorem.

## What the models leave out

Payloads, wording, notifications that change no modelled state, and the fields
no property reads. `Presence` does not model a socket's rooms; `ChatInvites`
more than one pair; `UserCache` the content of the document; `Session` Redis
failures (revocation then fails open, as its comment says) and signup's and
login's failures, and takes the `/auth/check` that follows a boot-time refresh to
succeed. `GroupMembership` leaves out the messages the cascade also deletes, which are in
`GroupMessages`; that module takes the memberships as given until the cascade
deletes them.
`ChatStore` and `GroupStore` follow one tab: the tab's own marking of
messages as read, permissions other than membership and the drawing of the page
are left out; `GroupStore` takes the write and the event of one's own message as
one step, and `ChatStore` leaves out going to another page of the application,
which `GroupStore` has (`Close`, `Return`). `TypingSystem` covers direct
conversations: the receivers of group typing show nothing. `ConversationPane`
leaves out images and the scroll position; `CreateGroupForm` and `GroupDetails`
their search boxes. `InviteLists` follows, of two loads of one list, the one that is
answered last. `MessageHistory` has no two messages of one `createdAt`: the sort has
no second key, and more of them within a millisecond than fit a page could be
skipped even by one process. `RateLimiter` takes the counting of express-rate-limit and
the eviction of keys from how the code uses them.

## Not modelled

* *External calls* (`withTimeout`): one promise against one timer, with no state
  shared between calls; a failed upload is a step of the handlers that make one.
* *Response cache*: each answer may be as old as its TTL, by design, and no
  handler invalidates it, so there is no second party to meet.
* *Error handling, role checks, routes, the schemas of the other requests*: tables
  and stateless mappings; the models end a failed handler instead.
* *The AI service*: prompts and a remote model; what the client does with its
  answers is in `ConversationPane`.
* *Health endpoints and the drain flag*: answers to a load balancer that is not
  part of the repository.
* *The search and theme stores, the analytics and settings pages*: each keeps
  what it last loaded.
* *Logging, seeds, load and maintenance scripts, vendored packages*: outside the
  running system.

## Where to go from here

No invariant is left that is only model-checked. What would say more is in the
models: the components listed as modelled in part (more than one pair of
`ChatInvites` at a time, a tab's own marking of messages as read in `ChatStore`,
Redis failures in `Session`), each with the invariant its proof needs.
