---------------------------- MODULE MCTypingTracker ----------------------------
(* Small instances of typing indicators: the tracker by itself, with two     *)
(* senders who each type in two conversations, a throttle window of one tick *)
(* and a life of five, the ratio of the code; and the indicator end to end   *)
(* (TypingSystem), from the text box of one sender through that tracker to   *)
(* the screens of two receivers.  A behaviour exercises one of the two.      *)
EXTENDS TypingTracker

CONSTANTS
    Me, NoOne, IDLE, SHOW, Life, MaxInFlight, MaxSends, MaxLoads   \* of TypingSystem

VARIABLES
    part,         \* the component this behaviour exercises
    tab, selectedUser, isTypingRef, typingTimeout, isMessagesLoading, loads, sending, uplink,
    entries, last, sinceLast, expiry, said,
    downlink, typingUsers, hideTimers, misdirected

System == INSTANCE TypingSystemObserved WITH AUTO_EXPIRE <- Life

ASSUME SystemAssumption ==
    /\ Life \in Nat \ {0} /\ {IDLE, SHOW, MaxLoads} \subseteq Nat
    /\ NoOne \notin Target

systemVars == <<tab, selectedUser, isTypingRef, typingTimeout, isMessagesLoading, loads, sending,
                uplink, entries, last, sinceLast, expiry, said,
                downlink, typingUsers, hideTimers, misdirected>>
mcVars     == <<part, vars, systemVars>>

MCInit == part \in {"tracker", "system"} /\ Init /\ System!ObservedInit

TrackerStep == part = "tracker" /\ Next /\ UNCHANGED systemVars
SystemStep  == part = "system" /\ System!ObservedNext /\ UNCHANGED vars

MCNext == (TrackerStep \/ SystemStep) /\ UNCHANGED part

\* Nothing that is fair is enabled in an initial state, so that the fairness of the
\* system asks nothing of the behaviours of the tracker.
MCSpec == MCInit /\ [][MCNext]_mcVars /\ System!Fairness

-----------------------------------------------------------------------------
\* Whatever is typed, sent, left or lost: the last word about a conversation is
\* "stopped" unless its box is being typed in, and an indicator on a screen has a
\* timer that will hide it.
LeftConversationIsEnded ==
    System!TypeOK /\ System!ShownHasTimer /\ System!LeftConversationIsEnded

\* Once the sender stops pressing keys every screen stops showing the indicator.
ScreensGoQuiet == System!ScreensGoQuiet
=============================================================================
