--------------------------- MODULE MCConversationPane ---------------------------
(* Small instances of what a tab shows of its conversations: the pane        *)
(* (ConversationPane: two contacts, a group, and two requests under way),    *)
(* and the details of its groups (GroupDetails: two groups).  The modal and  *)
(* the pane share no state, so a behaviour exercises one of them, while the  *)
(* other rests where it began.                                               *)
EXTENDS ConversationPane, TLC

CONSTANTS Group, MaxEdits   \* of GroupDetails

VARIABLES
    part,         \* the component this behaviour exercises
    shown, role, listed, listing, alive, members, drafted, image, picks, editing, adding, name,
    picture, added, load, edits, failed, chosen, pending, left, crossed, outdated

Details == INSTANCE GroupDetailsObserved WITH
    draft <- drafted, req <- load, faults <- failed

ASSUME DetailsAssumption == MaxEdits \in Nat /\ Details!NoGroup \notin Group

detailsVars == <<shown, role, listed, listing, alive, members, drafted, image, picks, editing,
                 adding, name, picture, added, load, edits, failed, chosen, pending, left, crossed,
                 outdated>>
mcVars      == <<part, vars, detailsVars>>

MCInit == part \in {"pane", "details"} /\ Init /\ Details!ObservedInit

PaneStep    == part = "pane" /\ Next /\ UNCHANGED detailsVars
DetailsStep == part = "details" /\ Details!ObservedNext /\ UNCHANGED vars

MCNext == (PaneStep \/ DetailsStep) /\ UNCHANGED part
MCSpec == MCInit /\ [][MCNext]_mcVars

-----------------------------------------------------------------------------
\* What is chosen, drafted or loaded in the details of one group stays with it,
\* but for the schedules GroupDetailsObserved names.
DetailsStayOwn ==
    /\ Details!TypeOK
    /\ Details!NamesStayApart /\ Details!NoDetailsOfDeleted
    /\ Details!AddedWherePicked /\ Details!PictureIsOwn /\ Details!ListBelongs

\* The two groups of the details have the values of the two contacts of the pane,
\* which are exchanged together.
Symmetry == Permutations(Direct) \cup Permutations(Request)
=============================================================================
