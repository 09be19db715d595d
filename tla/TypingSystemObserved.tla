------------------------ MODULE TypingSystemObserved -------------------------
(* TypingSystem with a history variable that tells whether the answer of a  *)
(* send has ended the typing in a conversation opened since.                *)
EXTENDS TypingSystem

VARIABLE misdirected  \* an answer ended the typing in a conversation opened meanwhile

ObservedInit == Init /\ misdirected = FALSE
ObservedNext ==
    /\ Next
    /\ misdirected' = \/ misdirected
                      \/ isTypingRef /\ \E t \in Target \ {selectedUser} : ReceiveAnswer(t)
observedVars == <<vars, misdirected>>

\* However conversations are switched, messages loaded and sent, the last word
\* about a conversation is "stopped" unless its box is being typed in: no
\* sequence of events leaves the end of typing unsaid.  There are two
\* exceptions: a page that is reloaded before the server noticed the old one
\* go, and the answer of a send from a box that outlived its conversation.
LeftConversationIsEnded ==
    tab = "open" /\ ~misdirected => \A t \in Target : LastSaid(t) => isTypingRef /\ selectedUser = t
=============================================================================
