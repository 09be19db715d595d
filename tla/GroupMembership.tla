---------------------------- MODULE GroupMembership ----------------------------
(***************************************************************************)
(* The life of one group: its document, its membership documents, and the  *)
(* HTTP handlers of backend/src/controllers/group.controllers.js that      *)
(* change them.  MongoDB executes one query or one save at a time; between *)
(* two awaits of a handler any other handler may run, so a handler holds   *)
(* documents it loaded earlier and saves them later.                       *)
(*                                                                         *)
(* Mongoose writes only the paths of a document that differ from what was  *)
(* loaded, and save() reaches soft-deleted documents; find and count skip  *)
(* them (lib/softDeletePlugin.js).                                         *)
(***************************************************************************)
EXTENDS Integers, FiniteSets

CONSTANTS
    User,
    Request,      \* handlers that may run at the same time
    Capacity,     \* values maxMembers is given
    Approval,     \* values settings.requireApproval is given
    MaxFailures   \* bound: handlers that die between two awaits

ASSUME UserAssumption     == IsFiniteSet(User)
ASSUME CapacityAssumption == Capacity \subseteq Nat \ {0, 1} /\ Capacity # {} /\ IsFiniteSet(Capacity)
ASSUME ApprovalAssumption == Approval \subseteq BOOLEAN /\ Approval # {}
ASSUME FailureAssumption  == MaxFailures \in Nat

VARIABLES
    group,     \* the group document
    member,    \* the membership document of each user
    req,       \* the handler each request is in
    failures   \* handlers that died so far

vars == <<group, member, req, failures>>

Roles  == {"owner", "admin", "member"}
Joined == {"active", "pending"}

NoMember == [exists |-> FALSE, role |-> "member", manages |-> FALSE,
             status |-> "left", deleted |-> FALSE]

\* The pre-save hook sets the permissions whenever the role is set; owners and
\* admins get those to add and remove members and to edit the group.
Membership(role, status) ==
    [exists |-> TRUE, role |-> role, manages |-> role # "member",
     status |-> status, deleted |-> FALSE]

\* What find and count see.
Live(u) == member[u].exists /\ ~member[u].deleted
With(statuses) == {u \in User : Live(u) /\ member[u].status \in statuses}
GroupFound == group.at = "live"

Idle == [at |-> "idle"]

Init ==
    /\ group = [at |-> "none", maxMembers |-> 0, requireApproval |-> FALSE,
                totalMembers |-> 0]
    /\ member = [u \in User |-> NoMember]
    /\ req = [r \in Request |-> Idle]
    /\ failures = 0

Begin(r, handler) == req[r] = Idle /\ req' = [req EXCEPT ![r] = handler]
Go(r, handler)    == req' = [req EXCEPT ![r] = handler]
Respond(r)        == req' = [req EXCEPT ![r] = Idle]
At(r, place)      == req[r].at = place
Adding(r, place)  == Go(r, [at |-> place, todo |-> req[r].todo,
                            loaded |-> req[r].loaded])

-----------------------------------------------------------------------------
(* createGroup: the group document, then the owner's membership. *)

CreateGroup(r, u, max, approval) ==
    /\ group.at = "none"
    /\ group' = [at |-> "live", maxMembers |-> max, requireApproval |-> approval,
                 totalMembers |-> 1]
    /\ Begin(r, [at |-> "createOwner", by |-> u])
    /\ UNCHANGED <<member, failures>>

CreateOwner(r) ==
    /\ At(r, "createOwner")
    /\ member' = [member EXCEPT ![req[r].by] = Membership("owner", "active")]
    /\ Respond(r)
    /\ UNCHANGED <<group, failures>>

-----------------------------------------------------------------------------
(* The first query of the other handlers: may this user do it? *)

Manager(u)  == u \in With({"active"}) /\ member[u].manages
OwnerNow(u) == u \in With({"active"}) /\ member[u].role = "owner"

BeginUpdate(r, u, max, approval) ==
    /\ Manager(u)
    /\ Begin(r, [at |-> "updateGroup", max |-> max, approval |-> approval])
    /\ UNCHANGED <<group, member, failures>>

BeginDelete(r, u) ==
    /\ OwnerNow(u)
    /\ Begin(r, [at |-> "deleteMembers"])
    /\ UNCHANGED <<group, member, failures>>

BeginRemove(r, u, v) ==
    /\ Manager(u)
    /\ Begin(r, [at |-> "findRemoved", byRole |-> member[u].role, who |-> v])
    /\ UNCHANGED <<group, member, failures>>

BeginSetRole(r, u, v, role) ==
    /\ OwnerNow(u)
    /\ Begin(r, [at |-> "findPromoted", who |-> v, role |-> role])
    /\ UNCHANGED <<group, member, failures>>

BeginLeave(r, u) ==
    /\ u \in With({"active"})
    /\ member[u].role # "owner"
    /\ Begin(r, [at |-> "saveLeft", who |-> u, was |-> "active"])
    /\ UNCHANGED <<group, member, failures>>

\* addMember loads the group first; it is saved again at the end.
BeginAdd(r, u, W) ==
    /\ GroupFound
    /\ Begin(r, [at |-> "mayAdd", by |-> u, todo |-> W, loaded |-> group])
    /\ UNCHANGED <<group, member, failures>>

-----------------------------------------------------------------------------
(* updateGroup and deleteGroup. *)

UpdateGroup(r) ==
    /\ At(r, "updateGroup")
    /\ group' = IF GroupFound
                THEN [group EXCEPT !.maxMembers = req[r].max,
                                   !.requireApproval = req[r].approval]
                ELSE group
    /\ Respond(r)
    /\ UNCHANGED <<member, failures>>

\* The cascade: memberships, then messages, which are not modelled here, then the group.
DeleteMembers(r) ==
    /\ At(r, "deleteMembers")
    /\ member' = [u \in User |-> [member[u] EXCEPT !.deleted = member[u].exists]]
    /\ Go(r, [at |-> "findDeleted"])
    /\ UNCHANGED <<group, failures>>

FindDeleted(r) ==
    /\ At(r, "findDeleted")
    /\ IF GroupFound THEN Go(r, [at |-> "softDelete"]) ELSE Respond(r)
    /\ UNCHANGED <<group, member, failures>>

SoftDelete(r) ==
    /\ At(r, "softDelete")
    /\ group' = [group EXCEPT !.at = "deleted"]
    /\ Respond(r)
    /\ UNCHANGED <<member, failures>>

-----------------------------------------------------------------------------
(* addMember, after the group has been loaded. *)

MayAdd(r) ==
    /\ At(r, "mayAdd")
    /\ IF Manager(req[r].by) THEN Adding(r, "countCapacity") ELSE Respond(r)
    /\ UNCHANGED <<group, member, failures>>

CountCapacityActive(r) ==  \* mutant: pending members take no place
    /\ At(r, "countCapacity")
    /\ IF Cardinality(With({"active"})) + Cardinality(req[r].todo) > req[r].loaded.maxMembers
       THEN Respond(r) ELSE Adding(r, "addNext")
    /\ UNCHANGED <<group, member, failures>>

\* Counted against the maxMembers loaded with the group.
CountCapacity(r) ==
    /\ At(r, "countCapacity")
    /\ IF Cardinality(With(Joined)) + Cardinality(req[r].todo) > req[r].loaded.maxMembers
       THEN Respond(r) ELSE Adding(r, "addNext")
    /\ UNCHANGED <<group, member, failures>>

\* One turn of the loop: look the user up, then save or create; a user who is
\* active or pending is skipped.
FindExisting(r, v) ==
    LET rest == req[r].todo \ {v}
        Turn(place) == Go(r, [at |-> place, who |-> v, todo |-> rest,
                              loaded |-> req[r].loaded])
    IN  /\ At(r, "addNext")
        /\ v \in req[r].todo
        /\ \/ ~Live(v) /\ Turn("create")
           \/ Live(v) /\ member[v].status = "left" /\ Turn("rejoin")
           \/ v \in With(Joined) /\ Go(r, [req[r] EXCEPT !.todo = rest])
        /\ UNCHANGED <<group, member, failures>>

Entry(r) == IF req[r].loaded.requireApproval THEN "pending" ELSE "active"

\* Only the status is set: a member who comes back keeps the role they left with.
Rejoin(r) ==
    /\ At(r, "rejoin")
    /\ member' = [member EXCEPT ![req[r].who].status = Entry(r)]
    /\ Adding(r, "addNext")
    /\ UNCHANGED <<group, failures>>

\* The unique index on (groupId, userId) counts soft-deleted documents too; the
\* handler then throws, leaving totalMembers as it was.
CreateMember(r) ==
    /\ At(r, "create")
    /\ IF member[req[r].who].exists
       THEN Respond(r) /\ UNCHANGED member
       ELSE /\ member' = [member EXCEPT ![req[r].who] = Membership("member", Entry(r))]
            /\ Adding(r, "addNext")
    /\ UNCHANGED <<group, failures>>

AllAdded(r) ==
    /\ At(r, "addNext")
    /\ req[r].todo = {}
    /\ Go(r, [at |-> "countMembers", loaded |-> req[r].loaded])
    /\ UNCHANGED <<group, member, failures>>

-----------------------------------------------------------------------------
(* removeMember, updateMemberRole and leaveGroup. *)

FindRemovedAnyRole(r) ==  \* mutant: the owner can be removed
    LET v == req[r].who
    IN  /\ At(r, "findRemoved")
        /\ IF Live(v) /\ (member[v].role = "admin" => req[r].byRole = "owner")
           THEN Go(r, [at |-> "saveLeft", who |-> v, was |-> member[v].status])
           ELSE Respond(r)
        /\ UNCHANGED <<group, member, failures>>

FindRemoved(r) ==
    LET v == req[r].who
    IN  /\ At(r, "findRemoved")
        /\ IF /\ Live(v)
              /\ member[v].role # "owner"
              /\ member[v].role = "admin" => req[r].byRole = "owner"
           THEN Go(r, [at |-> "saveLeft", who |-> v, was |-> member[v].status])
           ELSE Respond(r)
        /\ UNCHANGED <<group, member, failures>>

SaveLeft(r) ==
    /\ At(r, "saveLeft")
    /\ member' = IF req[r].was = "left" THEN member
                 ELSE [member EXCEPT ![req[r].who].status = "left"]
    /\ Go(r, [at |-> "findGroup"])
    /\ UNCHANGED <<group, failures>>

\* A group deleted meanwhile is null here; the count is still awaited before
\* the handler trips over it.
FindGroup(r) ==
    /\ At(r, "findGroup")
    /\ IF GroupFound THEN Go(r, [at |-> "countMembers", loaded |-> group])
                     ELSE Respond(r)
    /\ UNCHANGED <<group, member, failures>>

FindPromoted(r) ==
    LET v == req[r].who
    IN  /\ At(r, "findPromoted")
        /\ IF v \in With({"active"}) /\ member[v].role # "owner"
           THEN Go(r, [at |-> "saveRole", who |-> v, role |-> req[r].role,
                       was |-> member[v].role])
           ELSE Respond(r)
        /\ UNCHANGED <<group, member, failures>>

SaveRole(r) ==
    /\ At(r, "saveRole")
    /\ member' = IF req[r].role = req[r].was THEN member
                 ELSE [member EXCEPT ![req[r].who].role = req[r].role,
                                     ![req[r].who].manages = req[r].role # "member"]
    /\ Respond(r)
    /\ UNCHANGED <<group, failures>>

-----------------------------------------------------------------------------
(* The common end of addMember, removeMember and leaveGroup. *)

CountMembersPending(r) ==  \* mutant: pending members are counted
    /\ At(r, "countMembers")
    /\ Go(r, [at |-> "saveTotal", was |-> req[r].loaded.totalMembers,
              total |-> Cardinality(With(Joined))])
    /\ UNCHANGED <<group, member, failures>>

CountMembers(r) ==
    /\ At(r, "countMembers")
    /\ Go(r, [at |-> "saveTotal", was |-> req[r].loaded.totalMembers,
              total |-> Cardinality(With({"active"}))])
    /\ UNCHANGED <<group, member, failures>>

SaveTotal(r) ==
    /\ At(r, "saveTotal")
    /\ group' = IF req[r].total = req[r].was THEN group
                ELSE [group EXCEPT !.totalMembers = req[r].total]
    /\ Respond(r)
    /\ UNCHANGED <<member, failures>>

\* The process dies, or a query is rejected: the handler goes no further.
Fail(r) ==
    /\ failures < MaxFailures
    /\ req[r] # Idle
    /\ Respond(r)
    /\ failures' = failures + 1
    /\ UNCHANGED <<group, member>>

Begins(r) ==
    \E u \in User :
        \/ \E max \in Capacity, approval \in Approval :
              CreateGroup(r, u, max, approval) \/ BeginUpdate(r, u, max, approval)
        \/ BeginDelete(r, u)
        \/ \E v \in User :
              \/ BeginRemove(r, u, v)
              \/ \E role \in {"admin", "member"} : BeginSetRole(r, u, v, role)
        \/ BeginLeave(r, u)
        \/ \E W \in SUBSET User \ {{}} : BeginAdd(r, u, W)

Continues(r) ==
    \/ CreateOwner(r)
    \/ UpdateGroup(r)
    \/ DeleteMembers(r) \/ FindDeleted(r) \/ SoftDelete(r)
    \/ MayAdd(r) \/ CountCapacity(r) \/ AllAdded(r)
    \/ \E v \in User : FindExisting(r, v)
    \/ Rejoin(r) \/ CreateMember(r)
    \/ FindRemoved(r) \/ SaveLeft(r) \/ FindGroup(r)
    \/ FindPromoted(r) \/ SaveRole(r)
    \/ CountMembers(r) \/ SaveTotal(r)

Next == \E r \in Request : Begins(r) \/ Continues(r) \/ Fail(r)

Spec == Init /\ [][Next]_vars

-----------------------------------------------------------------------------
AllIdle == \A r \in Request : req[r] = Idle
Owners  == {u \in User : member[u].exists /\ member[u].role = "owner"}
Doing(places) == \E r \in Request : req[r].at \in places

\* Every document stays in its domain.
TypeOK ==
    /\ group.at \in {"none", "live", "deleted"}
    /\ group.maxMembers \in Capacity \cup {0}
    /\ group.requireApproval \in BOOLEAN
    /\ group.totalMembers \in 0..Cardinality(User)
    /\ \A u \in User : /\ member[u].role \in Roles
                       /\ member[u].status \in Joined \cup {"left"}
                       /\ {member[u].exists, member[u].manages, member[u].deleted}
                            \subseteq BOOLEAN
    /\ failures \in 0..MaxFailures

\* The owner stays: no interleaving of removals, role changes, leaving and
\* re-adding, each acting on a document loaded earlier, demotes or retires the
\* owner, makes a second one, or parts a member from their role's permissions.
OwnerStays ==
    /\ Cardinality(Owners) <= 1
    /\ \A u \in Owners : member[u].status = "active"
    /\ \A u \in User : member[u].exists => (member[u].manages <=> member[u].role # "member")

\* A group that can be found has an owner who can manage it, except inside
\* createGroup and deleteGroup, if no handler died half-way.
LiveGroupIsOwned ==
    failures = 0 /\ GroupFound =>
        \/ \E u \in Owners : Live(u)
        \/ Doing({"createOwner", "findDeleted", "softDelete"})
=============================================================================
