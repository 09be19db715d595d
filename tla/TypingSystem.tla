------------------------------ MODULE TypingSystem ------------------------------
(***************************************************************************)
(* The typing indicator end to end: the text box of the sender             *)
(* (MessageInput.jsx), the typing handler of socket.js with its tracker    *)
(* (TypingTracker), and the list of contacts of each receiver, who shows   *)
(* "typing..." for as long as setUserTyping of useChatStore.js says so.    *)
(*                                                                         *)
(* One sender, one tab at a time.  A tick is a second; timers fire before  *)
(* the next tick, and messages may be delayed for any number of ticks.     *)
(***************************************************************************)
EXTENDS Integers, Sequences, FiniteSets

CONSTANTS
    Me,           \* the sender
    Target,       \* the sender's contacts
    NoOne,        \* no conversation is open
    IDLE,         \* ticks without a key after which typing has stopped
    SHOW,         \* ticks after which a receiver hides the indicator
    THROTTLE, AUTO_EXPIRE,  \* of the tracker
    MaxInFlight,  \* bound: events under way on each link
    MaxSends,     \* bound: messages of one text box not answered yet
    MaxLoads      \* bound: loads of messages not answered yet

VARIABLES
    tab,            \* "open", "gone" (the server has not noticed), "closed",
                    \* "reloaded" (back before the server noticed)
    selectedUser,
    isTypingRef,
    typingTimeout,  \* ticks until typingTimeoutRef fires, or Off
    isMessagesLoading,
    loads,          \* loads of messages that are not answered
    sending,        \* conversations this text box awaits the answer of a send of
    uplink,         \* typing events on their way to the server
    entries, last, sinceLast, expiry, said,  \* of the tracker
    downlink,       \* userTyping events on their way to each receiver
    typingUsers,    \* what each receiver stores for the sender
    hideTimers      \* timeouts of setUserTyping running at each receiver

loadVars == <<isMessagesLoading, loads>>
boxVars == <<tab, selectedUser, isTypingRef, typingTimeout, sending, loadVars>>
trackerVars == <<entries, last, sinceLast, expiry, said>>
screenVars == <<typingUsers, hideTimers>>
vars == <<boxVars, uplink, trackerVars, downlink, screenVars>>

Off == -1
Tracker == INSTANCE TypingTracker WITH
    Sender <- {Me}, state <- entries, lastIsTyping <- last, sinceEmit <- sinceLast,
    autoExpireTimer <- expiry, told <- said

Init ==
    /\ tab = "open"
    /\ selectedUser = NoOne
    /\ isTypingRef = FALSE
    /\ typingTimeout = Off
    /\ isMessagesLoading = FALSE /\ loads = 0
    /\ sending = {}
    /\ uplink = <<>>
    /\ Tracker!Init
    /\ downlink = [t \in Target |-> <<>>]
    /\ typingUsers = [t \in Target |-> FALSE]
    /\ hideTimers = [t \in Target |-> {}]

-----------------------------------------------------------------------------
(* The text box. *)

Alive == tab \in {"open", "reloaded"}

Emit(t, value) ==
    /\ Len(uplink) < MaxInFlight
    /\ uplink' = Append(uplink, [to |-> t, isTyping |-> value])

\* handleTyping: only the first key of a burst is announced, each restarts the
\* timer.
KeyPress ==
    /\ Alive /\ selectedUser # NoOne
    /\ IF isTypingRef THEN UNCHANGED uplink ELSE Emit(selectedUser, TRUE)
    /\ isTypingRef' = TRUE
    /\ typingTimeout' = IDLE
    /\ UNCHANGED <<tab, selectedUser, sending, loadVars, trackerVars, downlink, screenVars>>

IdleTimeout ==
    /\ typingTimeout = 0
    /\ Emit(selectedUser, FALSE)
    /\ isTypingRef' = FALSE
    /\ typingTimeout' = Off
    /\ UNCHANGED <<tab, selectedUser, sending, loadVars, trackerVars, downlink, screenVars>>

StopTypingSilently(t) ==  \* mutant: the timer is cleared and nobody is told
    isTypingRef' = FALSE /\ typingTimeout' = Off /\ UNCHANGED uplink

\* stopTyping as it was rendered for conversation t.
StopTyping(t) ==
    /\ IF isTypingRef THEN Emit(t, FALSE) ELSE UNCHANGED uplink
    /\ isTypingRef' = FALSE
    /\ typingTimeout' = Off

\* Another conversation is opened, and its messages are loaded.  The cleanup
\* effect of the old one runs.  The text box is a new one, for the page shows
\* another while messages load, unless they were being loaded already.
Select(t) ==
    /\ Alive /\ loads < MaxLoads
    /\ t # selectedUser
    /\ StopTyping(selectedUser)
    /\ selectedUser' = t
    /\ isMessagesLoading' = TRUE /\ loads' = loads + 1
    /\ sending' = IF isMessagesLoading THEN sending ELSE {}
    /\ UNCHANGED <<tab, trackerVars, downlink, screenVars>>

Close ==
    /\ Alive /\ selectedUser # NoOne
    /\ StopTyping(selectedUser)
    /\ selectedUser' = NoOne
    /\ sending' = {}
    /\ UNCHANGED <<tab, loadVars, trackerVars, downlink, screenVars>>

\* The first answer puts the messages on the page, with a new text box.
ReceiveMessages ==
    /\ loads > 0
    /\ loads' = loads - 1
    /\ isMessagesLoading' = FALSE
    /\ IF isMessagesLoading THEN StopTyping(selectedUser) /\ sending' = {}
       ELSE UNCHANGED <<isTypingRef, typingTimeout, uplink, sending>>
    /\ UNCHANGED <<tab, selectedUser, trackerVars, downlink, screenVars>>

SendMessage ==
    /\ Alive /\ selectedUser # NoOne
    /\ sending' = sending \cup {selectedUser}
    /\ Cardinality(sending') <= MaxSends
    /\ UNCHANGED <<tab, selectedUser, isTypingRef, typingTimeout, loadVars, uplink, trackerVars,
                   downlink, screenVars>>

\* The answer clears the box and stops typing, whatever was typed meanwhile and
\* whichever conversation is open by now.
ReceiveAnswer(t) ==
    /\ t \in sending
    /\ StopTyping(t)
    /\ sending' = sending \ {t}
    /\ UNCHANGED <<tab, selectedUser, loadVars, trackerVars, downlink, screenVars>>

\* The tab is closed or its network is lost: no cleanup runs, and the last
\* events under way may not arrive.
Vanish ==
    /\ Alive
    /\ tab' = "gone"
    /\ \E n \in 0..Len(uplink) : uplink' = SubSeq(uplink, 1, n)
    /\ selectedUser' = NoOne /\ isTypingRef' = FALSE /\ typingTimeout' = Off
    /\ sending' = {} /\ isMessagesLoading' = FALSE /\ loads' = 0
    /\ UNCHANGED <<trackerVars, downlink, screenVars>>

\* A new page is up after what was under way from the old one has arrived.
OpenTab ==
    /\ ~Alive /\ uplink = <<>>
    /\ tab' = IF tab = "closed" THEN "open" ELSE "reloaded"
    /\ UNCHANGED <<selectedUser, isTypingRef, typingTimeout, sending, loadVars, uplink,
                   trackerVars, downlink, screenVars>>

-----------------------------------------------------------------------------
(* The server. *)

Room(t) == Len(downlink[t]) < MaxInFlight

Tell(t, value) == Room(t) /\ downlink' = [downlink EXCEPT ![t] = Append(@, value)]

HandleTyping ==
    /\ uplink # <<>>
    /\ LET t == Head(uplink).to
           k == <<Me, t>>
       IN  IF Head(uplink).isTyping
           THEN \/ Tracker!Refresh(k) /\ UNCHANGED downlink
                \/ Tracker!Forward(k) /\ Tell(t, TRUE)
           ELSE Tracker!StopTyping(k) /\ Tell(t, FALSE)
    /\ uplink' = Tail(uplink)
    /\ UNCHANGED <<boxVars, screenVars>>

AutoExpire(t) ==
    /\ Tracker!AutoExpire(<<Me, t>>)
    /\ Tell(t, FALSE)
    /\ UNCHANGED <<boxVars, uplink, screenVars>>

\* The last tab of the sender is found to be gone.
NoticeGone ==
    /\ tab = "gone" /\ uplink = <<>>
    /\ tab' = "closed"
    /\ \A t \in Target : said[<<Me, t>>] => Room(t)
    /\ downlink' = [t \in Target |-> IF said[<<Me, t>>] THEN Append(downlink[t], FALSE)
                                     ELSE downlink[t]]
    /\ Tracker!ClearTypingForSender(Me)
    /\ UNCHANGED <<selectedUser, isTypingRef, typingTimeout, sending, loadVars, uplink, screenVars>>

-----------------------------------------------------------------------------
(* A receiver. *)

\* setUserTyping; a timer that is running is left to run.
Receive(t) ==
    /\ downlink[t] # <<>>
    /\ downlink' = [downlink EXCEPT ![t] = Tail(@)]
    /\ typingUsers' = [typingUsers EXCEPT ![t] = Head(downlink[t])]
    /\ hideTimers' = [hideTimers EXCEPT ![t] =
            IF Head(downlink[t]) THEN @ \cup {SHOW} ELSE @]
    /\ UNCHANGED <<boxVars, uplink, trackerVars>>

HideToggles(t) ==  \* mutant: the timer flips the flag
    /\ 0 \in hideTimers[t]
    /\ hideTimers' = [hideTimers EXCEPT ![t] = @ \ {0}]
    /\ typingUsers' = [typingUsers EXCEPT ![t] = ~@]
    /\ UNCHANGED <<boxVars, uplink, trackerVars, downlink>>

Hide(t) ==
    /\ 0 \in hideTimers[t]
    /\ hideTimers' = [hideTimers EXCEPT ![t] = @ \ {0}]
    /\ typingUsers' = [typingUsers EXCEPT ![t] = FALSE]
    /\ UNCHANGED <<boxVars, uplink, trackerVars, downlink>>

Tick ==
    /\ typingTimeout # 0 /\ \A t \in Target : 0 \notin hideTimers[t]
    /\ typingTimeout' = IF typingTimeout = Off THEN Off ELSE typingTimeout - 1
    /\ hideTimers' = [t \in Target |-> {n - 1 : n \in hideTimers[t]}]
    /\ Tracker!Tick
    /\ UNCHANGED <<tab, selectedUser, isTypingRef, sending, loadVars, uplink, downlink, typingUsers>>

Next ==
    \/ KeyPress \/ IdleTimeout \/ Close \/ ReceiveMessages \/ SendMessage \/ Vanish \/ OpenTab
    \/ HandleTyping \/ NoticeGone \/ Tick
    \/ \E t \in Target : \/ Select(t) \/ ReceiveAnswer(t)
                       \/ AutoExpire(t) \/ Receive(t) \/ Hide(t)

Spec == Init /\ [][Next]_vars

\* Timers fire, events that were not lost arrive, and the ping timeout of the
\* server finds a tab that has gone.  The sender owes nothing.
Fairness ==
    /\ WF_vars(Tick) /\ WF_vars(IdleTimeout) /\ WF_vars(HandleTyping) /\ WF_vars(NoticeGone)
    /\ \A t \in Target : WF_vars(AutoExpire(t)) /\ WF_vars(Receive(t)) /\ WF_vars(Hide(t))

-----------------------------------------------------------------------------
\* Every variable stays in its domain, the box is typed in exactly while its
\* timer runs, and no text box means no timer and nothing to wait for.
TypeOK ==
    /\ tab \in {"open", "gone", "closed", "reloaded"}
    /\ selectedUser \in Target \cup {NoOne}
    /\ isTypingRef \in BOOLEAN
    /\ typingTimeout \in {Off} \cup 0..IDLE
    /\ isTypingRef <=> typingTimeout # Off
    /\ sending \subseteq Target
    /\ isMessagesLoading \in BOOLEAN /\ loads \in 0..MaxLoads
    /\ isMessagesLoading => loads > 0
    /\ selectedUser = NoOne => ~isTypingRef /\ sending = {}
    /\ uplink \in Seq([to : Target, isTyping : BOOLEAN])
    /\ Tracker!TypeOK
    /\ downlink \in [Target -> Seq(BOOLEAN)]
    /\ typingUsers \in [Target -> BOOLEAN]
    /\ hideTimers \in [Target -> SUBSET (0..SHOW)]

\* What the sender's box has said last of t, arrived or not.
About(t) == {i \in DOMAIN uplink : uplink[i].to = t}
LastSaid(t) ==
    IF About(t) = {} THEN said[<<Me, t>>]
    ELSE \E i \in About(t) : uplink[i].isTyping /\ \A j \in About(t) : j <= i

\* An indicator on a receiver's screen always has a timer that will hide it,
\* even if no further event ever arrives.
ShownHasTimer == \A t \in Target : typingUsers[t] => hideTimers[t] # {}

\* Once the sender stops pressing keys every screen stops showing the
\* indicator, through lost events, vanished tabs and late deliveries.
KeysCease == <>[][~KeyPress]_vars
ScreensGoQuiet == KeysCease => \A t \in Target : <>[](~typingUsers[t])
=============================================================================
