------------------------------ MODULE GroupDetails ------------------------------
(***************************************************************************)
(* The details of a group: GroupDetailsModal.jsx over useGroupStore.js, as *)
(* the sidebar uses it.  The modal stays mounted when it is closed and     *)
(* when another group is opened, so that what was chosen, drafted or       *)
(* loaded for one group meets another.                                     *)
(*                                                                         *)
(* A draft, a picture, a selection and a list of members are abstracted to *)
(* the groups they come from.  The user owns every group, and does not     *)
(* look at two groups of one name.  The list of groups is loaded anew      *)
(* whenever a group is opened for its messages.  The home page stays on    *)
(* screen: leaving it would mount the modal anew.                          *)
(***************************************************************************)
EXTENDS Integers, FiniteSets

CONSTANTS
    Group,
    Request,     \* handlers that may run at the same time
    MaxEdits     \* bound: updates, additions, changes of members, deletions, reloads
                 \* and failures, together

NoGroup == "none"
Origin  == Group \cup {NoGroup}

VARIABLES
    shown,     \* the group whose details are on screen, or NoGroup
    role,      \* memberRole in the snapshot of it the modal was given
    listed,    \* memberRole of each group in the store's list, or "gone"
    listing,   \* the load of the list
    members,   \* the group the list of members belongs to
    draft,     \* the group the name and description were drafted for
    image,     \* the group a picture was chosen for
    picks,     \* the groups the selected users were chosen for
    editing, adding,
    alive,     \* the groups the server has
    name, picture, added,  \* and what it made of each
    req, edits, faults

local  == <<members, draft, image, picks, editing, adding>>
server == <<alive, name, picture, added>>
list   == <<listed, listing>>
vars   == <<shown, role, list, local, server, req, edits, faults>>

Idle == [at |-> "idle"]
Free == [at |-> "free"]

Init ==
    /\ shown = NoGroup /\ role = "none"
    /\ listed = [g \in Group |-> "owner"] /\ listing = Free
    /\ members = NoGroup /\ draft = NoGroup /\ image = NoGroup
    /\ picks = {} /\ editing = FALSE /\ adding = FALSE
    /\ alive = Group /\ name = [g \in Group |-> g] /\ picture = [g \in Group |-> g]
    /\ added = [g \in Group |-> {}]
    /\ req = [r \in Request |-> Idle]
    /\ edits = 0 /\ faults = 0

Go(r, handler) == req' = [req EXCEPT ![r] = handler]
Load(g)        == [at |-> "load", of |-> g]

-----------------------------------------------------------------------------
(* The user. *)

\* The effect loads the members and sets name, description and preview anew.
Open(r, g) ==
    /\ shown = NoGroup /\ listed[g] # "gone" /\ req[r] = Idle
    /\ shown' = g /\ role' = listed[g]
    /\ draft' = g
    /\ Go(r, Load(g))
    /\ UNCHANGED <<list, members, image, picks, editing, adding, server, edits, faults>>

Close ==
    /\ shown # NoGroup
    /\ shown' = NoGroup /\ role' = "none"
    /\ UNCHANGED <<list, local, server, req, edits, faults>>

\* Edit; and Cancel, which forgets name and preview but not the picture.
ToggleEditing ==
    /\ shown # NoGroup
    /\ editing \/ role = "owner"
    /\ editing' = ~editing
    /\ draft' = IF editing THEN shown ELSE draft
    /\ UNCHANGED <<shown, role, list, members, image, picks, adding, server, req, edits, faults>>

ChooseImage ==
    /\ shown # NoGroup /\ editing /\ role = "owner"
    /\ image' = shown
    /\ UNCHANGED <<shown, role, list, members, draft, picks, editing, adding, server, req, edits, faults>>

ToggleAdding ==
    /\ shown # NoGroup /\ role = "owner"
    /\ adding' = ~adding
    /\ UNCHANGED <<shown, role, list, members, draft, image, picks, editing, server, req, edits, faults>>

\* Users who are not in the list of members may be chosen, and chosen users left out.
Pick ==
    /\ shown # NoGroup /\ adding
    /\ \/ picks' = picks \cup {shown}
       \/ \E g \in picks : picks' = picks \ {g}
    /\ UNCHANGED <<shown, role, list, members, draft, image, editing, adding, server, req, edits, faults>>

Ask(r, handler) ==
    /\ shown # NoGroup /\ req[r] = Idle
    /\ edits + faults < MaxEdits
    /\ edits' = edits + 1
    /\ Go(r, handler)
    /\ UNCHANGED <<shown, role, list, local, server, faults>>

\* A picture that was chosen is sent, or else the one the group has.
Save(r) == editing /\ Ask(r, [at |-> "update", of |-> shown, name |-> draft,
                              image |-> IF image = NoGroup THEN shown ELSE image])
AddPicked(r) == adding /\ picks # {} /\ Ask(r, [at |-> "add", of |-> shown, who |-> picks])
\* Remove and the two role buttons are offered beside each member.
ChangeMember(r) == role = "owner" /\ members # NoGroup /\ Ask(r, [at |-> "change", of |-> shown])
\* An owner whose group has no memberRole is offered Leave instead; the server
\* refuses it.
DeleteShown(r)  == role = "owner" /\ Ask(r, [at |-> "delete", of |-> shown])

\* groupJoined, after a group was opened for its messages, has the store load the
\* list, unless it is being loaded.  The snapshot that is shown stays as it is.
Reload ==
    /\ listing = Free /\ edits + faults < MaxEdits
    /\ edits' = edits + 1
    /\ listing' = [at |-> "sent"]
    /\ UNCHANGED <<shown, role, listed, local, server, req, faults>>

-----------------------------------------------------------------------------
(* The server, and its answers. *)

\* A group that was deleted has no members who may do anything with it.
Refuse(r) ==
    /\ req[r].at \in {"load", "update", "add", "change", "delete"} /\ req[r].of \notin alive
    /\ Go(r, Idle)
    /\ UNCHANGED <<shown, role, list, local, server, edits, faults>>

Serve(r) ==
    LET q == req[r]
    IN  /\ q.at # "idle" /\ q.at # "answer" /\ q.of \in alive
        /\ name' = IF q.at = "update" THEN [name EXCEPT ![q.of] = q.name] ELSE name
        /\ picture' = IF q.at = "update" THEN [picture EXCEPT ![q.of] = q.image] ELSE picture
        /\ added' = IF q.at = "add" THEN [added EXCEPT ![q.of] = @ \cup q.who] ELSE added
        /\ alive' = IF q.at = "delete" THEN alive \ {q.of} ELSE alive
        /\ Go(r, [at |-> "answer", to |-> q.at, of |-> q.of])
        /\ UNCHANGED <<shown, role, list, local, edits, faults>>

ServeList ==
    /\ listing.at = "sent"
    /\ listing' = [at |-> "served", rows |-> alive]
    /\ UNCHANGED <<shown, role, listed, local, server, req, edits, faults>>

\* Every row comes with its memberRole.
ReceiveList ==
    /\ listing.at = "served"
    /\ listed' = [g \in Group |-> IF g \in listing.rows THEN "owner" ELSE "gone"]
    /\ listing' = Free
    /\ UNCHANGED <<shown, role, local, server, req, edits, faults>>

Answered(r, to) == req[r].at = "answer" /\ req[r].to = to

ReceiveMembers(r) ==
    /\ Answered(r, "load")
    /\ members' = req[r].of
    /\ Go(r, Idle)
    /\ UNCHANGED <<shown, role, list, draft, image, picks, editing, adding, server, edits, faults>>

\* The answer carries no memberRole, so the list loses it.
ReceiveUpdate(r) ==
    /\ Answered(r, "update")
    /\ listed' = [listed EXCEPT ![req[r].of] = IF @ = "gone" THEN @ ELSE "bare"]
    /\ editing' = FALSE
    /\ Go(r, Idle)
    /\ UNCHANGED <<shown, role, listing, members, draft, image, picks, adding, server, edits, faults>>

ReceiveAddKeepsPicks(r) ==  \* mutant: the selection is kept
    /\ Answered(r, "add")
    /\ adding' = FALSE
    /\ Go(r, Load(req[r].of))
    /\ UNCHANGED <<shown, role, list, members, draft, image, picks, editing, server, edits, faults>>

ReceiveAdd(r) ==
    /\ Answered(r, "add")
    /\ picks' = {} /\ adding' = FALSE
    /\ Go(r, Load(req[r].of))
    /\ UNCHANGED <<shown, role, list, members, draft, image, editing, server, edits, faults>>

ReceiveChange(r) ==
    /\ Answered(r, "change")
    /\ Go(r, Load(req[r].of))
    /\ UNCHANGED <<shown, role, list, local, server, edits, faults>>

\* onClose, whatever is on screen by now.
ReceiveDelete(r) ==
    /\ Answered(r, "delete")
    /\ listed' = [listed EXCEPT ![req[r].of] = "gone"]
    /\ shown' = NoGroup /\ role' = "none"
    /\ Go(r, Idle)
    /\ UNCHANGED <<listing, local, server, edits, faults>>

FailList ==
    /\ edits + faults < MaxEdits
    /\ listing # Free
    /\ faults' = faults + 1
    /\ listing' = Free
    /\ UNCHANGED <<shown, role, listed, local, server, req, edits>>

FailRequest(r) ==
    /\ edits + faults < MaxEdits
    /\ req[r] # Idle
    /\ faults' = faults + 1
    /\ Go(r, Idle)
    /\ UNCHANGED <<shown, role, list, local, server, edits>>

Next ==
    \/ Close \/ ToggleEditing \/ ChooseImage \/ ToggleAdding \/ Pick
    \/ Reload \/ ServeList \/ ReceiveList \/ FailList
    \/ \E r \in Request :
          \/ \E g \in Group : Open(r, g)
          \/ Save(r) \/ AddPicked(r) \/ ChangeMember(r) \/ DeleteShown(r)
          \/ Serve(r) \/ Refuse(r) \/ ReceiveMembers(r) \/ ReceiveUpdate(r) \/ ReceiveAdd(r)
          \/ ReceiveChange(r) \/ ReceiveDelete(r) \/ FailRequest(r)

Spec == Init /\ [][Next]_vars

-----------------------------------------------------------------------------
\* Every variable stays in its domain, and there is a role exactly while a
\* group is shown.
TypeOK ==
    /\ {shown, members, draft, image} \subseteq Origin
    /\ role \in {"none", "owner", "bare"}
    /\ role = "none" <=> shown = NoGroup
    /\ listed \in [Group -> {"owner", "bare", "gone"}]
    /\ alive \subseteq Group
    /\ {picks} \cup {added[g] : g \in Group} \subseteq SUBSET Group
    /\ {editing, adding} \subseteq BOOLEAN
    /\ {name[g] : g \in Group} \cup {picture[g] : g \in Group} \subseteq Group
    /\ edits \in 0..MaxEdits /\ faults \in 0..MaxEdits

\* However fast groups are opened and closed around slow requests, a group is
\* only ever given a name drafted for it.
NamesStayApart == name = [g \in Group |-> g]
=============================================================================
