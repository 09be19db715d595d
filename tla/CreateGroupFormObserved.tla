----------------------- MODULE CreateGroupFormObserved -----------------------
(* CreateGroupForm with a history variable that tells the schedules in      *)
(* which a load of the list met the making of a group.                      *)
EXTENDS CreateGroupForm

VARIABLE raced   \* the list was loaded while a group was made, or an answer was lost

Overlap == listing # Free /\ \E n \in Submission : create[n] \in {"sent", "served"}

ObservedInit == Init /\ raced = FALSE
ObservedNext == Next /\ raced' = (raced \/ Overlap' \/ \E n \in Submission : create'[n] = "lost")
observedVars == <<vars, raced>>

\* Unless the list is loaded while a group is made, the list shows every group
\* of the server once, those included whose submission was given up by the timer.
ListIsFaithful ==
    ~raced =>
        /\ \A i, j \in DOMAIN groups : groups[i] = groups[j] => i = j
        /\ (\A n \in Submission : create[n] \in {"none", "announced", "refused"})
              => {groups[i] : i \in DOMAIN groups} = stored
=============================================================================
