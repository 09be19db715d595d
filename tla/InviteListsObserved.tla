------------------------- MODULE InviteListsObserved -------------------------
(* InviteLists with history variables. raced: since the sidebar was last    *)
(* mounted with nothing under way, a change met a load or a request, or the *)
(* tab could not be told of it. untold: peers who accepted since the        *)
(* contacts were last read. truth: what the profile page should have said   *)
(* when it was opened, if the lists were right.                             *)
EXTENDS InviteLists

VARIABLES raced, untold, truth

Loading == \E k \in List : load[k] # Free
Quiet   == ~Loading /\ inbox = <<>> /\ act = Free

IdsOf(rows)  == {rows[i].id : i \in DOMAIN rows}
Once(rows)   == Cardinality(IdsOf(rows)) = Len(rows)
Ids(who)     == {row.id : row \in Rows(who)}
Accepted     == {p \in Peer : invite[p].status = "accepted"}

ListsRight   == /\ IdsOf(pendingInvites) = Ids("peer") /\ Once(pendingInvites)
                /\ IdsOf(sentInvites) = Ids("user") /\ Once(sentInvites)

Truth(p) == CASE invite[p].status = "accepted" -> "accepted"
              [] Pending(p, "user") -> "pending"
              [] Pending(p, "peer") -> "received"
              [] OTHER -> "none"

ObservedInit == Init /\ raced = FALSE /\ untold = {} /\ truth = "unknown"

Unheard == (\E p \in Peer : OtherTabActs(p)) \/ (invite' # invite /\ ~connected) \/ faults' # faults

ObservedNext ==
    /\ Next
    /\ raced' = IF ReturnHome THEN ~(Quiet /\ connected)
                ELSE \/ raced
                     \/ Unheard
                     \/ Loading' /\ (invite' # invite \/ inbox' # <<>>)
                     \/ act.at = "done" /\ invite' # invite
    /\ untold' = IF ServeLoad("users") THEN {}
                 ELSE untold \cup {p \in Peer : invite[p].by = "user" /\
                            invite[p].status = "pending" /\ invite'[p].status = "accepted"}
    /\ truth' = IF \E p \in Peer : OpenProfile(p)
                THEN IF /\ Quiet /\ ~raced /\ untold = {}
                        /\ \A i \in DOMAIN pendingInvites : pendingInvites[i].from = "load"
                     THEN Truth(profile'.of) ELSE "unknown"
                ELSE IF profile' # profile THEN "unknown" ELSE truth

observedVars == <<vars, raced, untold, truth>>

-----------------------------------------------------------------------------
\* A tab that has come to rest shows the invites the server has, each once:
\* events, answers and loads that do not meet leave both lists right.
ListsAreRight == mounted /\ Quiet /\ ~raced => ListsRight

\* Such a tab shows as contacts the peers who are connected, short of those who
\* accepted the user's own invite since the contacts were loaded.
ContactsAreRight == mounted /\ Quiet /\ ~raced => users = Accepted \ untold

\* A profile page opened from a tab at rest, whose invites were loaded and not
\* told of, offers what the server allows at that moment.
ProfileIsRight == truth # "unknown" => profile.status = truth
=============================================================================
