---------------------------- MODULE MCMessageHistory ----------------------------
(* Small instances of what a reader is shown of a conversation: its history, *)
(* page by page (MessageHistory, one process), and the messages of a tab     *)
(* (ChatStore, two peers).  A behaviour exercises one of the two, while the  *)
(* other rests where it began.                                               *)
EXTENDS MessageHistory, TLC

CONSTANTS Peer, Slot, PageSize, MaxStored, MaxEvents, MaxFaults   \* of ChatStore

VARIABLES
    part,         \* the component this behaviour exercises
    stored, unsent, marking, req, inbox, connected, selectedUser, messages, unreadCounts,
    isMessagesLoading, faults, clean

Store == INSTANCE ChatStoreObserved WITH Limit <- PageSize, MaxMessages <- MaxStored

ASSUME StoreAssumption ==
    /\ PageSize \in Nat \ {0} /\ {MaxStored, MaxEvents, MaxFaults} \subseteq Nat
    /\ Store!Nobody \notin Peer

storeVars == <<stored, unsent, marking, req, inbox, connected, selectedUser, messages,
               unreadCounts, isMessagesLoading, faults, clean>>
mcVars    == <<part, vars, storeVars>>

MCInit == part \in {"history", "store"} /\ Init /\ Store!ObservedInit

HistoryStep == part = "history" /\ Next /\ UNCHANGED storeVars
StoreStep   == part = "store" /\ Store!ObservedNext /\ UNCHANGED vars

MCNext == (HistoryStep \/ StoreStep) /\ UNCHANGED part
MCSpec == MCInit /\ [][MCNext]_mcVars

-----------------------------------------------------------------------------
\* The tab's own messages are shown once, whatever comes of the request and the event.
OwnShownOnce == Store!TypeOK /\ Store!OwnShownOnce

\* A row shown as read is one the peer has read.
ReadIsTrue == Store!ReadIsTrue

\* Opening a conversation cures whatever went wrong before: the screen shows its
\* latest messages, each once and with its status.
ScreenIsFaithful == Store!ScreenIsFaithful

\* The peers have the values of the requests, and both are exchanged together.
Symmetry == Permutations(Slot)
=============================================================================
