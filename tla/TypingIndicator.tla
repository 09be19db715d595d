---------------------------- MODULE TypingIndicator ----------------------------
(***************************************************************************)
(* What the typing tracker promises the receivers of a conversation: they  *)
(* are told "is typing" only because of a typing event, and they are told  *)
(* "stopped" no later than AUTO_EXPIRE after the last one, whatever the    *)
(* sender's client does or omits.                                          *)
(***************************************************************************)
EXTENDS Naturals

CONSTANTS Conversation,   \* (sender, target) pairs
          AUTO_EXPIRE     \* ticks an indicator may outlive its last event

VARIABLES told,   \* what the receivers were told last
          age     \* ticks since the last typing event, while told

vars == <<told, age>>

Init ==
    /\ told = [c \in Conversation |-> FALSE]
    /\ age = [c \in Conversation |-> 0]

\* The sender types: an indicator that is off may come on, one that is on
\* starts a new life.
Type(c) ==
    /\ told' = [told EXCEPT ![c] = TRUE]
    /\ age' = [age EXCEPT ![c] = 0]

\* Receivers are told that the sender stopped, in one or more conversations.
Stop(C) ==
    /\ told' = [c \in Conversation |-> told[c] /\ c \notin C]
    /\ age' = [c \in Conversation |-> IF c \in C THEN 0 ELSE age[c]]

\* Time passes, but never past the end of an indicator's life.
Tick ==
    /\ \A c \in Conversation : told[c] => age[c] < AUTO_EXPIRE
    /\ age' = [c \in Conversation |-> IF told[c] THEN age[c] + 1 ELSE 0]
    /\ UNCHANGED told

Next ==
    \/ \E c \in Conversation : Type(c)
    \/ \E C \in SUBSET Conversation : Stop(C)
    \/ Tick

Spec == Init /\ [][Next]_vars
=============================================================================
