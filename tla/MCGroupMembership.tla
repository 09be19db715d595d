--------------------------- MODULE MCGroupMembership ---------------------------
(* Small instances of what becomes of a group: its membership on the server  *)
(* (GroupMembership: three users, two requests in flight), and the form that *)
(* creates it (CreateGroupForm).  They share no modelled state, so a         *)
(* behaviour exercises one of them, while the other rests where it began.    *)
(*                                                                           *)
(* Users are interchangeable, and so are requests.  A history variable tells *)
(* the schedules in which requests overlapped from those in which each       *)
(* waited for the one before; groups that require approval are explored in   *)
(* the latter only, which bounds the state space.                            *)
EXTENDS GroupMembership, TLC

CONSTANTS
    MaxSubmissions, MaxForms, MaxLists, MaxLosses   \* of CreateGroupForm

ASSUME FormAssumption == {MaxSubmissions, MaxLists, MaxLosses} \subseteq Nat /\ MaxForms \in Nat \ {0}

VARIABLES
    part,         \* the component this behaviour exercises
    overlapped,   \* two requests have been in flight at once
    form, submitting, flow, formOf, create, add, stored, joined, groups, listing, lists,
    losses, raced

Form == INSTANCE CreateGroupFormObserved

groupVars == <<vars, overlapped>>
formVars  == <<form, submitting, flow, formOf, create, add, stored, joined, groups, listing,
               lists, losses, raced>>
mcVars    == <<part, groupVars, formVars>>

Overlap == \E r, q \in Request : r # q /\ req[r] # Idle /\ req[q] # Idle

MCInit ==
    /\ part \in {"group", "form"}
    /\ Init /\ overlapped = FALSE
    /\ Form!ObservedInit

GroupStep ==
    /\ part = "group"
    /\ Next
    /\ overlapped' = (overlapped \/ Overlap')
    /\ overlapped' => ~group'.requireApproval
    /\ UNCHANGED formVars

FormStep == part = "form" /\ Form!ObservedNext /\ UNCHANGED groupVars

MCNext == (GroupStep \/ FormStep) /\ UNCHANGED part
MCSpec == MCInit /\ [][MCNext]_mcVars

-----------------------------------------------------------------------------
\* Requests that do not overlap leave nothing over: the stored count is the
\* number of active members, through removals, re-additions and approvals, and a
\* deleted group has no member; and however they overlap a live group has an owner.
SettledWhenIdle ==
    /\ LiveGroupIsOwned
    /\ ~overlapped /\ AllIdle /\ failures = 0 =>
        /\ GroupFound => group.totalMembers = Cardinality(With({"active"}))
        /\ group.at = "deleted" => With(Joined) = {}

\* A group whose capacity never changes stays within it, whoever leaves, waits for
\* approval, is removed or comes back, as long as requests do not overlap: two
\* additions that count before either has written may exceed it together.
CapacityKept ==
    ~overlapped /\ Cardinality(Capacity) = 1 =>
        \A max \in Capacity : Cardinality(With(Joined)) <= max

\* No form makes two groups unless its user was shown an error for the first; a
\* group announced as created is on the server, and without its members only while
\* they are being added or after an error was shown; and the list shows what the
\* server has unless a load met the making of a group.
FormIsHonest ==
    Form!TypeOK /\ Form!SecondGroupWasAsked /\ Form!OnlyWholeGroups /\ Form!ListIsFaithful

Symmetry == Permutations(User) \cup Permutations(Request)
=============================================================================
