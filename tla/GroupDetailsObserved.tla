------------------------ MODULE GroupDetailsObserved -------------------------
(* GroupDetails with history variables that tell when something of one      *)
(* group could still be at hand while another was on screen.                *)
EXTENDS GroupDetails

VARIABLES chosen,    \* groups a picture was chosen for
          pending,   \* users were chosen since the last addition
          left,      \* the details were left while that was so
          crossed,   \* details were opened or closed while a request was under way
          outdated   \* a group was deleted while a list with it was under way

ObservedInit == Init /\ chosen = {} /\ pending = FALSE /\ left = FALSE /\ crossed = FALSE
                /\ outdated = FALSE
ObservedNext ==
    /\ Next
    /\ chosen' = chosen \cup ({image'} \ {NoGroup})
    /\ pending' = (picks' # {} /\ (pending \/ picks' # picks)
                   /\ ~\E r \in Request : Answered(r, "add") /\ req'[r].at = "load")
    /\ left' = (left \/ (pending /\ shown # NoGroup /\ shown' = NoGroup))
    /\ crossed' = (crossed \/ (shown # shown' /\ \E r \in Request : req[r] # Idle /\ req'[r] # Idle))
    /\ outdated' = (outdated \/ (listing'.at = "served" /\ ~(listing'.rows \subseteq alive')))
observedVars == <<vars, chosen, pending, left, crossed, outdated>>

\* Users are added to the group they were chosen for, unless details were
\* left with users selected and not yet added.
AddedWherePicked == ~left => \A g \in Group : added[g] \subseteq {g}

\* A group's picture is its own, unless one was ever chosen for another group.
PictureIsOwn == \A g \in Group : chosen \subseteq {g} => picture[g] = g

\* The list of members belongs to the group on screen once it has been loaded,
\* unless a request was under way when the details changed, or failed, or the group
\* is not there any more.
ListBelongs ==
    shown \in alive /\ ~crossed /\ faults = 0 /\ (\A r \in Request : req[r] = Idle)
        => members = shown

\* The details of a group that was deleted are on screen only until the deletion is
\* answered, however often they are opened meanwhile and whatever other answers come:
\* unless that answer was lost, or a list that still had the group came late.
NoDetailsOfDeleted ==
    shown # NoGroup /\ shown \notin alive /\ faults = 0 /\ ~outdated =>
        \E r \in Request : Answered(r, "delete") /\ req[r].of = shown
=============================================================================
