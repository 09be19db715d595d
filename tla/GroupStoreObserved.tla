------------------------- MODULE GroupStoreObserved --------------------------
(* GroupStore with a history variable that tells since when the group on    *)
(* the screen has not met what its code does not expect.                    *)
EXTENDS GroupStore

VARIABLE clean   \* nothing of the kind has happened since the group was opened

Requests == {s \in Slot : req[s] # Idle}
Sending  == {s \in Requests : req[s].kind # "get"}
Joining  == uplink # <<>> \/ joining # {}
Foreign(e) == e.row = Null \/ ~stored[e.row].mine
Deletions == {i \in DOMAIN inbox : inbox[i].event = "groupMessageDeleted"}
OthersBusy ==
    unsent \cup undone # {} \/ \E i \in DOMAIN inbox : Foreign(inbox[i])

Meet ==
    \/ OthersBusy /\ (Joining \/ Requests # {})
    \/ Sending # {} /\ (Joining \/ Cardinality(Requests) > 1)
    \/ inbox # <<>> /\ Joining
    \/ Deletions # {} /\ \E s \in Requests : req[s].kind # "delete"
    \/ \E m \in unsent : ~Alive(m)
    \/ ~Shown \/ selectedGroup \notin member

ObservedInit == Init /\ clean = FALSE
ObservedNext ==
    /\ Next
    /\ clean' = /\ IF selectedGroup' # selectedGroup \/ ~Shown THEN Requests = {} ELSE clean
                /\ ~Meet' /\ faults' = faults
observedVars == <<vars, clean>>

Times(m) == Cardinality({i \in DOMAIN groupMessages : groupMessages[i] = m})

\* Opening a group, or coming back to it, while no request is under way cures
\* whatever went wrong before: the screen shows exactly the messages of the
\* group, those of others once, and goes on doing so through messages, deletions
\* and edits, until a message or deletion meets a join or leave of the tab, that
\* of another user meets a request of the tab or one of the tab's meets a load,
\* a message is deleted before it was sent out, a request fails, or the
\* membership ends.
GroupScreenIsFaithful ==
    clean /\ Shown /\ Requests = {} /\ ~Joining /\ ~OthersBusy /\ inbox = <<>> =>
        /\ {groupMessages[i] : i \in DOMAIN groupMessages} = History(selectedGroup)
        /\ \A m \in History(selectedGroup) : stored[m].mine \/ Times(m) = 1
=============================================================================
