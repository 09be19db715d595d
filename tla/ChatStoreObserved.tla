-------------------------- MODULE ChatStoreObserved --------------------------
(* ChatStore with a history variable that tells since when the conversation *)
(* on the screen has not met what its code does not expect.                 *)
EXTENDS ChatStore

VARIABLE clean   \* nothing has met a request of the tab since the conversation was opened

Requests == {s \in Slot : req[s] # Idle}
ServerBusy == unsent # {} \/ marking # {}
Meet ==
    \/ Cardinality(Requests) > 1
    \/ Requests # {} /\ (ServerBusy \/ inbox # <<>>)
    \/ ~connected

ObservedInit == Init /\ clean = FALSE
ObservedNext ==
    /\ Next
    /\ clean' = /\ clean \/ selectedUser' \notin {selectedUser, Nobody}
                /\ ~Meet' /\ faults' = faults
observedVars == <<vars, clean>>

Quiet == Requests = {} /\ ~ServerBusy /\ inbox = <<>> /\ connected

\* Opening a conversation cures whatever went wrong before: the screen shows
\* the latest messages of the conversation, each once and with its status, and
\* goes on doing so through messages and receipts of any number of peers, until
\* one of them meets a request of the tab, a request fails or the socket drops.
ScreenIsFaithful ==
    clean /\ Quiet /\ selectedUser # Nobody =>
        LET all == Conversation(selectedUser)
        IN  /\ Cardinality(Shown) = Len(messages)
            /\ Shown = Newest(all, Len(messages))
            /\ Len(messages) >= Limit \/ Shown = all
            /\ \A i \in DOMAIN messages :
                 LET m == messages[i].msg
                 IN  stored[m].fromPeer \/ messages[i].read = stored[m].read
=============================================================================
