------------------------- MODULE GroupMembershipProofs -------------------------
(***************************************************************************)
(* Proofs about GroupMembership for any users, any number of handlers in   *)
(* flight, any capacities and any number of failures: its type invariant,  *)
(* that the owner of a group stays its owner, and, as long as handlers do  *)
(* not overlap, that the counts add up and the capacity is kept. Then      *)
(* about CreateGroupForm, for any number of submissions, forms and losses: *)
(* what the dialog that creates a group claims of it.                      *)
(***************************************************************************)
EXTENDS MCGroupMembership, Sequences, FiniteSetTheorems, TLAPS

Statuses == Joined \cup {"left"}
Document == [exists : BOOLEAN, role : Roles, manages : BOOLEAN,
             status : Statuses, deleted : BOOLEAN]
Group    == [at : {"none", "live", "deleted"}, maxMembers : Capacity \cup {0},
             requireApproval : BOOLEAN, totalMembers : 0..Cardinality(User)]

Documents ==
    /\ group \in Group
    /\ member \in [User -> Document]
    /\ req = [r \in Request |-> req[r]]
    /\ failures \in 0..MaxFailures

\* A membership that is not the owner's never becomes the owner's.
NotOwner(docs, u) == docs[u].exists /\ docs[u].role # "owner"

\* What a handler knows at each place, whatever the others do.
Sound(docs, h) ==
    /\ h.at = "createOwner" => h.by \in User
    /\ h.at = "updateGroup" => h.max \in Capacity /\ h.approval \in BOOLEAN
    /\ h.at \in {"findRemoved", "findPromoted", "create"} => h.who \in User
    /\ h.at \in {"findPromoted", "saveRole"} => h.role \in {"admin", "member"}
    /\ h.at \in {"mayAdd", "countCapacity", "addNext", "create", "rejoin"} => h.todo \subseteq User
    /\ h.at \in {"mayAdd", "countCapacity", "addNext", "create", "rejoin", "countMembers"} =>
          h.loaded \in Group
    /\ h.at \in {"saveLeft", "saveRole", "rejoin"} => h.who \in User /\ NotOwner(docs, h.who)
    /\ h.at = "saveTotal" => h.total \in 0..Cardinality(User)

\* Until the owner's membership is written nobody is a member, and nobody can get
\* further than asking whether they may add.
Unfounded == \A u \in User : ~member[u].exists
Founding ==
    /\ group.at = "none" => Unfounded /\ \A r \in Request : req[r].at = "idle"
    /\ \A r \in Request : req[r].at = "createOwner" => Unfounded
    /\ \A r, q \in Request : req[r].at = "createOwner" /\ req[q].at = "createOwner" => r = q
    /\ Unfounded => \A r \in Request : req[r].at \in {"idle", "createOwner", "mayAdd"}

OneOwner ==
    /\ \A u, v \in Owners : u = v
    /\ \A u \in Owners : member[u].status = "active"
    /\ \A u \in User : member[u].exists => (member[u].manages <=> member[u].role # "member")

IInv == /\ Documents
        /\ \A r \in Request : Sound(member, req[r])
        /\ Founding
        /\ OneOwner

-----------------------------------------------------------------------------
\* There is no group yet, and no handler has begun.
LEMMA InitIInv == Init => IInv
<1> SUFFICES ASSUME Init PROVE IInv
  OBVIOUS
<1>1. Cardinality(User) \in Nat
  BY UserAssumption, FS_CardinalityType
<1>2. Documents
  BY <1>1, FailureAssumption DEF Init, Documents, Group, Document, NoMember, Roles, Statuses, Joined
<1>3. \A u \in User : ~member[u].exists
  BY DEF Init, NoMember
<1>4. \A r \in Request : req[r].at = "idle"
  BY DEF Init, Idle
<1>5. \A r \in Request : Sound(member, req[r])
  BY <1>4 DEF Sound
<1>6. Founding
  BY <1>3, <1>4 DEF Founding, Unfounded
<1>7. OneOwner
  BY <1>3 DEF OneOwner, Owners
<1>8. QED
  BY <1>2, <1>5, <1>6, <1>7 DEF IInv

\* A step of one handler leaves the others sound, as long as nobody's membership
\* turns into the owner's or goes away.
LEMMA OthersStaySound ==
    ASSUME IInv, NEW r \in Request, NEW h, req' = [req EXCEPT ![r] = h],
           \A u \in User : NotOwner(member, u) => NotOwner(member', u),
           Sound(member', h)
    PROVE  \A q \in Request : Sound(member', req'[q])
<1> SUFFICES ASSUME NEW q \in Request PROVE Sound(member', req'[q])
  OBVIOUS
<1>1. CASE q = r
  <2>1. req'[q] = h
    BY <1>1 DEF IInv, Documents
  <2>2. QED
    BY <2>1 DEF Sound, NotOwner
<1>2. CASE q # r
  <2>1. req'[q] = req[q] /\ Sound(member, req[q])
    BY <1>2 DEF IInv, Documents
  <2>2. QED
    BY <2>1 DEF Sound
<1>3. QED
  BY <1>1, <1>2

\* A step that changes no membership and starts no group keeps everything, if what
\* the handler now knows is sound and it may be where it is.
LEMMA HandlerMoves ==
    ASSUME IInv, NEW r \in Request, NEW h, req' = [req EXCEPT ![r] = h], Sound(member, h),
           group' \in Group, group'.at = "none" <=> group.at = "none",
           group.at = "none" => h.at = "idle",
           h.at # "createOwner",
           Unfounded => h.at \in {"idle", "mayAdd"},
           member' = member, failures' \in 0..MaxFailures
    PROVE  IInv'
<1>1. Sound(member', h) /\ (\A u \in User : NotOwner(member, u) => NotOwner(member', u))
  BY DEF Sound, NotOwner
<1>2. \A q \in Request : Sound(member', req'[q])
  BY <1>1, OthersStaySound
<1>3. \A q \in Request : req'[q] = IF q = r THEN h ELSE req[q]
  BY DEF IInv, Documents
<1>4. Documents'
  BY DEF IInv, Documents
<1>5. Founding'
  BY <1>3 DEF IInv, Founding, Unfounded
<1>6. OneOwner'
  BY DEF IInv, OneOwner, Owners
<1>7. QED
  BY <1>2, <1>4, <1>5, <1>6 DEF IInv

-----------------------------------------------------------------------------
(* The handlers, one lemma each. *)

USE CapacityAssumption, ApprovalAssumption, FailureAssumption

LEMMA Counting == Cardinality(User) \in Nat /\ \A S \in SUBSET User :
                    IsFiniteSet(S) /\ Cardinality(S) \in 0..Cardinality(User)
<1>1. \A S \in SUBSET User : IsFiniteSet(S) /\ Cardinality(S) <= Cardinality(User)
  BY UserAssumption, FS_Subset
<1>2. QED
  BY <1>1, UserAssumption, FS_CardinalityType

\* createGroup: nobody is a member when its first write is executed, and only one
\* handler ever gets there.
LEMMA CreateGroupKeeps ==
    ASSUME IInv, NEW r \in Request, NEW u \in User, NEW max \in Capacity,
           NEW approval \in Approval, CreateGroup(r, u, max, approval)
    PROVE  IInv'
<1> DEFINE h == [at |-> "createOwner", by |-> u]
<1>1. /\ req' = [req EXCEPT ![r] = h]
      /\ group.at = "none" /\ Unfounded
      /\ \A q \in Request : req[q].at = "idle"
      /\ member' = member /\ failures' = failures
  BY DEF CreateGroup, Begin, IInv, Founding
<1>2. group' \in Group /\ group'.at = "live"
  <2>1. Cardinality(User) \in Nat /\ Cardinality(User) # 0
    BY Counting, UserAssumption, FS_EmptySet
  <2>2. QED
    BY <2>1 DEF CreateGroup, Group
<1>3. Documents'
  BY <1>1, <1>2 DEF IInv, Documents
<1>4. \A q \in Request : req'[q] = IF q = r THEN h ELSE req[q]
  BY <1>1 DEF IInv, Documents
<1>5. \A q \in Request : Sound(member', req'[q])
  BY <1>1, OthersStaySound DEF Sound, NotOwner
<1>6. Founding'
  BY <1>1, <1>2, <1>4 DEF Founding, Unfounded
<1>7. OneOwner'
  BY <1>1 DEF IInv, OneOwner, Owners
<1>8. QED
  BY <1>3, <1>5, <1>6, <1>7 DEF IInv

LEMMA CreateOwnerKeeps ==
    ASSUME IInv, NEW r \in Request, CreateOwner(r)
    PROVE  IInv'
<1> DEFINE u == req[r].by
           m == [exists |-> TRUE, role |-> "owner", manages |-> TRUE,
                 status |-> "active", deleted |-> FALSE]
<1>1. /\ u \in User /\ Unfounded
      /\ req' = [req EXCEPT ![r] = Idle] /\ req[r].at = "createOwner"
      /\ group' = group /\ failures' = failures
  BY DEF CreateOwner, At, Respond, IInv, Sound, Founding
<1>2. \A v \in User : member'[v] = IF v = u THEN m ELSE member[v]
  BY <1>1 DEF CreateOwner, Membership, IInv, Documents
<1>3. member' \in [User -> Document]
  BY <1>1 DEF CreateOwner, Membership, IInv, Documents, Document, Roles, Statuses, Joined
<1>4. Documents'
  BY <1>1, <1>3 DEF IInv, Documents
<1>5. \A q \in Request : Sound(member', req'[q])
  BY <1>1, OthersStaySound DEF Unfounded, NotOwner, Sound, Idle
<1>6. \A q \in Request : req'[q] = IF q = r THEN Idle ELSE req[q]
  BY <1>1 DEF IInv, Documents
<1>7. Founding'
  <2>1. group.at # "none"
    BY <1>1 DEF IInv, Founding
  <2>2. \A q \in Request : req'[q].at # "createOwner"
    BY <1>1, <1>6 DEF IInv, Founding, Idle
  <2>3. ~Unfounded'
    BY <1>1, <1>2 DEF Unfounded
  <2>4. QED
    BY <1>1, <2>1, <2>2, <2>3 DEF Founding
<1>8. OneOwner'
  <2>1. \A v \in User : member'[v].exists => v = u
    BY <1>1, <1>2 DEF Unfounded
  <2>2. QED
    BY <1>1, <1>2, <2>1 DEF OneOwner, Owners
<1>9. QED
  BY <1>4, <1>5, <1>7, <1>8 DEF IInv

\* A write to one membership that neither makes nor unmakes an owner.
LEMMA MemberSaved ==
    ASSUME IInv, NEW r \in Request, NEW h, req' = [req EXCEPT ![r] = h], Sound(member', h),
           ~Unfounded, h.at # "createOwner",
           NEW v \in User, NEW m \in Document, member' = [member EXCEPT ![v] = m],
           m.exists, m.role # "owner", m.manages <=> m.role # "member",
           ~(member[v].exists /\ member[v].role = "owner"),
           group' = group, failures' = failures
    PROVE  IInv'
<1>1. \A w \in User : member'[w] = IF w = v THEN m ELSE member[w]
  BY DEF IInv, Documents
<1>2. \A w \in User : NotOwner(member, w) => NotOwner(member', w)
  BY <1>1 DEF NotOwner
<1>3. \A q \in Request : Sound(member', req'[q])
  BY <1>2, OthersStaySound
<1>4. Documents'
  BY DEF IInv, Documents
<1>5. \A q \in Request : req'[q] = IF q = r THEN h ELSE req[q]
  BY DEF IInv, Documents
<1>6. ~Unfounded'
  BY <1>1 DEF Unfounded
<1>7. Founding'
  BY <1>5, <1>6 DEF IInv, Founding
<1>8. OneOwner'
  BY <1>1 DEF IInv, OneOwner, Owners
<1>9. QED
  BY <1>3, <1>4, <1>7, <1>8 DEF IInv

\* The first query of every other handler: who passes it is a member already.
LEMMA BeginsKeeps ==
    ASSUME IInv, NEW r \in Request, Begins(r)
    PROVE  IInv'
<1> USE DEF Begin, Idle
<1>1. PICK u \in User :
        \/ \E max \in Capacity, approval \in Approval :
              CreateGroup(r, u, max, approval) \/ BeginUpdate(r, u, max, approval)
        \/ BeginDelete(r, u)
        \/ \E v \in User :
              \/ BeginRemove(r, u, v)
              \/ \E role \in {"admin", "member"} : BeginSetRole(r, u, v, role)
        \/ BeginLeave(r, u)
        \/ \E W \in SUBSET User \ {{}} : BeginAdd(r, u, W)
  BY DEF Begins
<1>2. Live(u) => ~Unfounded /\ group.at # "none"
  BY DEF Live, Unfounded, IInv, Founding
<1>3. u \in With({"active"}) => Live(u) /\ member[u] \in Document
  BY DEF With, IInv, Documents
<1>4. group \in Group /\ failures \in 0..MaxFailures
  BY DEF IInv, Documents
<1>5. ASSUME NEW max \in Capacity, NEW approval \in Approval, CreateGroup(r, u, max, approval)
      PROVE  IInv'
  BY <1>5, CreateGroupKeeps
<1>6. ASSUME NEW max \in Capacity, NEW approval \in Approval, BeginUpdate(r, u, max, approval)
      PROVE  IInv'
  <2> DEFINE h == [at |-> "updateGroup", max |-> max, approval |-> approval]
  <2>1. req' = [req EXCEPT ![r] = h] /\ Sound(member, h)
    BY <1>6 DEF BeginUpdate, Sound
  <2>2. QED
    BY <1>2, <1>3, <1>4, <1>6, <2>1, HandlerMoves DEF BeginUpdate, Manager
<1>7. ASSUME BeginDelete(r, u) PROVE IInv'
  <2> DEFINE h == [at |-> "deleteMembers"]
  <2>1. req' = [req EXCEPT ![r] = h] /\ Sound(member, h)
    BY <1>7 DEF BeginDelete, Sound
  <2>2. QED
    BY <1>2, <1>3, <1>4, <1>7, <2>1, HandlerMoves DEF BeginDelete, OwnerNow
<1>8. ASSUME NEW v \in User, BeginRemove(r, u, v) PROVE IInv'
  <2> DEFINE h == [at |-> "findRemoved", byRole |-> member[u].role, who |-> v]
  <2>1. req' = [req EXCEPT ![r] = h] /\ Sound(member, h)
    BY <1>8 DEF BeginRemove, Sound
  <2>2. QED
    BY <1>2, <1>3, <1>4, <1>8, <2>1, HandlerMoves DEF BeginRemove, Manager
<1>9. ASSUME NEW v \in User, NEW role \in {"admin", "member"}, BeginSetRole(r, u, v, role)
      PROVE  IInv'
  <2> DEFINE h == [at |-> "findPromoted", who |-> v, role |-> role]
  <2>1. req' = [req EXCEPT ![r] = h] /\ Sound(member, h)
    BY <1>9 DEF BeginSetRole, Sound
  <2>2. QED
    BY <1>2, <1>3, <1>4, <1>9, <2>1, HandlerMoves DEF BeginSetRole, OwnerNow
<1>10. ASSUME BeginLeave(r, u) PROVE IInv'
  <2> DEFINE h == [at |-> "saveLeft", who |-> u, was |-> "active"]
  <2>1. req' = [req EXCEPT ![r] = h] /\ Sound(member, h)
    BY <1>3, <1>10 DEF BeginLeave, Sound, NotOwner, Live
  <2>2. QED
    BY <1>2, <1>3, <1>4, <1>10, <2>1, HandlerMoves DEF BeginLeave
<1>11. ASSUME NEW W \in SUBSET User \ {{}}, BeginAdd(r, u, W) PROVE IInv'
  <2> DEFINE h == [at |-> "mayAdd", by |-> u, todo |-> W, loaded |-> group]
  <2>1. req' = [req EXCEPT ![r] = h] /\ Sound(member, h)
    BY <1>4, <1>11 DEF BeginAdd, Sound
  <2>2. QED
    BY <1>4, <1>11, <2>1, HandlerMoves DEF BeginAdd, GroupFound
<1>12. QED
  BY <1>1, <1>5, <1>6, <1>7, <1>8, <1>9, <1>10, <1>11

\* A handler that responds, fails or dies leaves what the others may rely on.
LEMMA RespondKeeps ==
    ASSUME IInv, NEW r \in Request, req' = [req EXCEPT ![r] = Idle],
           group' \in Group, group'.at = "none" <=> group.at = "none",
           member' = member, failures' \in 0..MaxFailures
    PROVE  IInv'
<1>1. Sound(member, Idle) /\ Idle.at = "idle"
  BY DEF Idle, Sound
<1>2. QED
  BY <1>1, HandlerMoves

\* updateGroup, deleteGroup and the common end of the others.
LEMMA GroupHandlersKeep ==
    ASSUME IInv, NEW r \in Request,
           \/ UpdateGroup(r) \/ FindDeleted(r) \/ SoftDelete(r)
           \/ FindGroup(r) \/ CountMembers(r) \/ SaveTotal(r)
    PROVE  IInv'
<1> USE DEF At, Go, Respond, GroupFound
<1>1. group \in Group /\ failures \in 0..MaxFailures /\ Sound(member, req[r])
  BY DEF IInv, Documents
<1>2. req[r].at \notin {"idle", "createOwner", "mayAdd"} => ~Unfounded /\ group.at # "none"
  BY DEF IInv, Founding
<1>3. CASE UpdateGroup(r)
  <2>1. group' \in Group /\ (group'.at = "none" <=> group.at = "none")
    BY <1>1, <1>3 DEF UpdateGroup, Sound, Group
  <2>2. QED
    BY <1>1, <1>3, <2>1, RespondKeeps DEF UpdateGroup
<1>4. CASE FindDeleted(r)
  <2>1. Sound(member, [at |-> "softDelete"])
    BY DEF Sound
  <2>2. QED
    BY <1>1, <1>2, <1>4, <2>1, HandlerMoves, RespondKeeps DEF FindDeleted
<1>5. CASE SoftDelete(r)
  <2>1. group' \in Group /\ (group'.at = "none" <=> group.at = "none")
    BY <1>1, <1>2, <1>5 DEF SoftDelete, Group
  <2>2. QED
    BY <1>1, <1>5, <2>1, RespondKeeps DEF SoftDelete
<1>6. CASE FindGroup(r)
  <2>1. Sound(member, [at |-> "countMembers", loaded |-> group])
    BY <1>1 DEF Sound
  <2>2. QED
    BY <1>1, <1>2, <1>6, <2>1, HandlerMoves, RespondKeeps DEF FindGroup
<1>7. CASE CountMembers(r)
  <2> DEFINE h == [at |-> "saveTotal", was |-> req[r].loaded.totalMembers,
                   total |-> Cardinality(With({"active"}))]
  <2>1. With({"active"}) \in SUBSET User
    BY DEF With
  <2>2. Sound(member, h) /\ req' = [req EXCEPT ![r] = h]
    BY <1>7, <2>1, Counting DEF CountMembers, Sound
  <2>3. QED
    BY <1>1, <1>2, <1>7, <2>2, HandlerMoves DEF CountMembers
<1>8. CASE SaveTotal(r)
  <2>1. group' \in Group /\ (group'.at = "none" <=> group.at = "none")
    BY <1>1, <1>8 DEF SaveTotal, Sound, Group
  <2>2. QED
    BY <1>1, <1>8, <2>1, RespondKeeps DEF SaveTotal
<1>9. QED
  BY <1>3, <1>4, <1>5, <1>6, <1>7, <1>8

\* addMember, removeMember and updateMemberRole up to their writes: who is going
\* to be written is not the owner, and will not become the owner meanwhile.
LEMMA LookupsKeep ==
    ASSUME IInv, NEW r \in Request,
           \/ MayAdd(r) \/ CountCapacity(r) \/ AllAdded(r)
           \/ \E v \in User : FindExisting(r, v)
           \/ FindRemoved(r) \/ FindPromoted(r)
    PROVE  IInv'
<1> USE DEF At, Go, Respond, Adding
<1>1. group \in Group /\ failures \in 0..MaxFailures /\ Sound(member, req[r])
  BY DEF IInv, Documents
<1>2. req[r].at \notin {"idle", "createOwner", "mayAdd"} => ~Unfounded /\ group.at # "none"
  BY DEF IInv, Founding
<1>3. \A u \in User : Live(u) => ~Unfounded /\ group.at # "none"
  BY DEF Live, Unfounded, IInv, Founding
<1>4. \A u \in User : Live(u) /\ member[u].role # "owner" => NotOwner(member, u)
  BY DEF Live, NotOwner
<1>5. CASE MayAdd(r)
  <2> DEFINE h == [at |-> "countCapacity", todo |-> req[r].todo, loaded |-> req[r].loaded]
  <2>1. Sound(member, h)
    BY <1>1, <1>5 DEF MayAdd, Sound
  <2>2. Manager(req[r].by) => ~Unfounded /\ group.at # "none"
    BY <1>3 DEF Manager, With
  <2>3. QED
    BY <1>1, <1>5, <2>1, <2>2, HandlerMoves, RespondKeeps DEF MayAdd
<1>6. CASE CountCapacity(r)
  <2> DEFINE h == [at |-> "addNext", todo |-> req[r].todo, loaded |-> req[r].loaded]
  <2>1. Sound(member, h)
    BY <1>1, <1>6 DEF CountCapacity, Sound
  <2>2. QED
    BY <1>1, <1>2, <1>6, <2>1, HandlerMoves, RespondKeeps DEF CountCapacity
<1>7. CASE AllAdded(r)
  <2> DEFINE h == [at |-> "countMembers", loaded |-> req[r].loaded]
  <2>1. Sound(member, h)
    BY <1>1, <1>7 DEF AllAdded, Sound
  <2>2. QED
    BY <1>1, <1>2, <1>7, <2>1, HandlerMoves DEF AllAdded
<1>8. ASSUME NEW v \in User, FindExisting(r, v) PROVE IInv'
  <2> DEFINE turn(place) == [at |-> place, who |-> v, todo |-> req[r].todo \ {v},
                             loaded |-> req[r].loaded]
             skip == [req[r] EXCEPT !.todo = req[r].todo \ {v}]
  <2>1. ~Unfounded /\ group.at # "none" /\ req[r].at = "addNext"
    BY <1>2, <1>8 DEF FindExisting
  <2>2. CASE req' = [req EXCEPT ![r] = turn("create")]
    <3>1. Sound(member, turn("create"))
      BY <1>1, <2>1 DEF Sound
    <3>2. QED
      BY <1>1, <1>8, <2>1, <2>2, <3>1, HandlerMoves DEF FindExisting
  <2>3. CASE /\ req' = [req EXCEPT ![r] = turn("rejoin")]
             /\ Live(v) /\ member[v].status = "left"
    <3>1. NotOwner(member, v)
      BY <2>3 DEF Live, NotOwner, IInv, OneOwner, Owners
    <3>2. Sound(member, turn("rejoin"))
      BY <1>1, <2>1, <3>1 DEF Sound
    <3>3. QED
      BY <1>1, <1>8, <2>1, <2>3, <3>2, HandlerMoves DEF FindExisting
  <2>4. CASE req' = [req EXCEPT ![r] = skip]
    <3>1. skip.at = "addNext" /\ skip.loaded = req[r].loaded /\ skip.todo \subseteq User
      BY <1>1, <2>1 DEF Sound
    <3>2. Sound(member, skip)
      BY <1>1, <2>1, <3>1 DEF Sound
    <3>3. QED
      BY <1>1, <1>8, <2>1, <2>4, <3>1, <3>2, HandlerMoves DEF FindExisting
  <2>5. QED
    BY <1>8, <2>2, <2>3, <2>4 DEF FindExisting
<1>9. CASE FindRemoved(r)
  <2> DEFINE v == req[r].who
             h == [at |-> "saveLeft", who |-> v, was |-> member[v].status]
  <2>1. Live(v) /\ member[v].role # "owner" => Sound(member, h)
    BY <1>1, <1>4, <1>9 DEF FindRemoved, Sound
  <2>2. QED
    BY <1>1, <1>2, <1>9, <2>1, HandlerMoves, RespondKeeps DEF FindRemoved
<1>10. CASE FindPromoted(r)
  <2> DEFINE v == req[r].who
             h == [at |-> "saveRole", who |-> v, role |-> req[r].role, was |-> member[v].role]
  <2>1. v \in With({"active"}) /\ member[v].role # "owner" => Sound(member, h)
    BY <1>1, <1>4, <1>10 DEF FindPromoted, With, Sound
  <2>2. QED
    BY <1>1, <1>2, <1>10, <2>1, HandlerMoves, RespondKeeps DEF FindPromoted
<1>11. QED
  BY <1>5, <1>6, <1>7, <1>8, <1>9, <1>10

\* deleteGroup marks every membership, the owner's too, and takes nobody's role.
LEMMA DeleteMembersKeeps ==
    ASSUME IInv, NEW r \in Request, DeleteMembers(r)
    PROVE  IInv'
<1> DEFINE h == [at |-> "findDeleted"]
<1>1. /\ req' = [req EXCEPT ![r] = h] /\ group' = group /\ failures' = failures
      /\ req[r].at = "deleteMembers"
  BY DEF DeleteMembers, At, Go
<1>2. \A u \in User : /\ member'[u] \in Document
                      /\ member'[u].exists = member[u].exists
                      /\ member'[u].role = member[u].role
                      /\ member'[u].manages = member[u].manages
                      /\ member'[u].status = member[u].status
  BY DEF DeleteMembers, IInv, Documents, Document
<1>3. member' = [u \in User |-> member'[u]]
  BY DEF DeleteMembers
<1>4. Documents'
  BY <1>1, <1>2, <1>3 DEF IInv, Documents
<1>5. \A u \in User : NotOwner(member, u) <=> NotOwner(member', u)
  BY <1>2 DEF NotOwner
<1>6. \A q \in Request : Sound(member', req'[q])
  <2>1. Sound(member', h)
    BY DEF Sound
  <2>2. QED
    BY <1>1, <1>5, <2>1, OthersStaySound
<1>7. Founding'
  <2>1. \A q \in Request : req'[q] = IF q = r THEN h ELSE req[q]
    BY <1>1 DEF IInv, Documents
  <2>2. Unfounded' <=> Unfounded
    BY <1>2 DEF Unfounded
  <2>3. QED
    BY <1>1, <2>1, <2>2 DEF IInv, Founding
<1>8. OneOwner'
  BY <1>2 DEF IInv, OneOwner, Owners
<1>9. QED
  BY <1>4, <1>6, <1>7, <1>8 DEF IInv

\* The writes of one membership.
LEMMA MemberHandlersKeep ==
    ASSUME IInv, NEW r \in Request, Rejoin(r) \/ CreateMember(r) \/ SaveLeft(r) \/ SaveRole(r)
    PROVE  IInv'
<1> USE DEF At, Go, Respond, Adding, Roles, Statuses, Joined
<1>1. /\ group \in Group /\ failures \in 0..MaxFailures /\ Sound(member, req[r])
      /\ member \in [User -> Document]
  BY DEF IInv, Documents
<1>2. req[r].at \notin {"idle", "createOwner", "mayAdd"} => ~Unfounded /\ group.at # "none"
  BY DEF IInv, Founding
<1>3. \A u \in User : NotOwner(member, u) => member[u].manages <=> member[u].role # "member"
  BY DEF IInv, OneOwner, NotOwner
<1>4. Sound(member', Idle) /\ Idle.at = "idle"
  BY DEF Idle, Sound
<1>5. Entry(r) \in {"pending", "active"}
  BY DEF Entry
<1> DEFINE v == req[r].who
<1>6. CASE Rejoin(r)
  <2> DEFINE h == [at |-> "addNext", todo |-> req[r].todo, loaded |-> req[r].loaded]
             m == [member[v] EXCEPT !.status = Entry(r)]
  <2>1. v \in User /\ NotOwner(member, v) /\ ~Unfounded /\ Sound(member', h)
    BY <1>1, <1>2, <1>6 DEF Rejoin, Sound
  <2>2. /\ m \in Document /\ m.exists = member[v].exists /\ m.role = member[v].role
        /\ m.manages = member[v].manages
    BY <1>1, <1>5, <2>1 DEF Document
  <2>3. member' = [member EXCEPT ![v] = m]
    BY <1>6 DEF Rejoin
  <2>4. m.exists /\ m.role # "owner" /\ (m.manages <=> m.role # "member")
    BY <1>3, <2>1, <2>2 DEF NotOwner
  <2> HIDE DEF m
  <2>5. QED
    BY <1>6, <2>1, <2>2, <2>3, <2>4, MemberSaved DEF Rejoin, NotOwner
<1>7. CASE CreateMember(r)
  <2> DEFINE h == [at |-> "addNext", todo |-> req[r].todo, loaded |-> req[r].loaded]
             m == Membership("member", Entry(r))
  <2>0. /\ req[r].at = "create" /\ group' = group /\ failures' = failures
        /\ member[v].exists => req' = [req EXCEPT ![r] = Idle] /\ member' = member
        /\ ~member[v].exists => /\ member' = [member EXCEPT ![v] = m]
                                /\ req' = [req EXCEPT ![r] = h]
    BY <1>7 DEF CreateMember
  <2>1. CASE member[v].exists
    BY <1>1, <2>0, <2>1, RespondKeeps
  <2>2. CASE ~member[v].exists
    <3>1. v \in User /\ ~Unfounded /\ Sound(member', h)
      BY <1>1, <1>2, <2>0 DEF Sound
    <3>2. m \in Document /\ m.exists /\ m.role = "member" /\ ~m.manages
      BY <1>5 DEF Membership, Document
    <3> HIDE DEF m
    <3>3. QED
      BY <2>0, <2>2, <3>1, <3>2, MemberSaved
  <2>3. QED
    BY <2>1, <2>2
<1>8. CASE SaveLeft(r)
  <2> DEFINE h == [at |-> "findGroup"]
             m == [member[v] EXCEPT !.status = "left"]
  <2>1. /\ v \in User /\ NotOwner(member, v) /\ ~Unfounded /\ group.at # "none"
        /\ Sound(member, h) /\ Sound(member', h)
    BY <1>1, <1>2, <1>8 DEF SaveLeft, Sound
  <2>2. CASE member' = member
    BY <1>1, <1>8, <2>1, <2>2, HandlerMoves DEF SaveLeft
  <2>3. CASE member' = [member EXCEPT ![v] = m]
    <3>1. /\ m \in Document /\ m.exists = member[v].exists /\ m.role = member[v].role
          /\ m.manages = member[v].manages
      BY <1>1, <2>1 DEF Document
    <3>2. m.exists /\ m.role # "owner" /\ (m.manages <=> m.role # "member")
      BY <1>3, <2>1, <3>1 DEF NotOwner
    <3> HIDE DEF m
    <3>3. QED
      BY <1>8, <2>1, <2>3, <3>1, <3>2, MemberSaved DEF SaveLeft, NotOwner
  <2>4. QED
    BY <1>8, <2>2, <2>3 DEF SaveLeft
<1>9. CASE SaveRole(r)
  <2> DEFINE role == req[r].role
             m == [member[v] EXCEPT !.role = role, !.manages = role # "member"]
  <2>1. v \in User /\ NotOwner(member, v) /\ ~Unfounded /\ role \in {"admin", "member"}
    BY <1>1, <1>2, <1>9 DEF SaveRole, Sound
  <2>2. CASE member' = member
    BY <1>1, <1>9, <2>2, RespondKeeps DEF SaveRole
  <2>3. CASE member' = [member EXCEPT ![v].role = role, ![v].manages = role # "member"]
    <3>1. /\ m \in Document /\ m.exists = member[v].exists /\ m.role = role
          /\ m.manages <=> role # "member"
      <4> DEFINE d == member[v]
                 k == [d EXCEPT !.role = role]
      <4>1. d \in Document
        BY <1>1, <2>1
      <4>2. k \in Document /\ k.exists = d.exists /\ k.role = role
        BY <2>1, <4>1 DEF Document
      <4>3. \A b \in BOOLEAN :
              LET n == [k EXCEPT !.manages = b]
              IN  n \in Document /\ n.exists = k.exists /\ n.role = k.role /\ n.manages = b
        <5> HIDE DEF k
        <5>1. QED
          BY <4>2 DEF Document
      <4>4. QED
        BY <4>2, <4>3
    <3>2. member' = [member EXCEPT ![v] = m]
      BY <1>1, <2>1, <2>3 DEF Document
    <3>3. m.exists /\ m.role # "owner" /\ (m.manages <=> m.role # "member")
      BY <2>1, <3>1 DEF NotOwner
    <3> HIDE DEF m
    <3>4. QED
      BY <1>4, <1>9, <2>1, <3>1, <3>2, <3>3, MemberSaved DEF SaveRole, NotOwner
  <2>4. QED
    BY <1>9, <2>2, <2>3 DEF SaveRole
<1>10. QED
  BY <1>6, <1>7, <1>8, <1>9

\* Every step of every handler keeps the invariant.
LEMMA NextIInv == IInv /\ [Next]_vars => IInv'
<1> SUFFICES ASSUME IInv, [Next]_vars PROVE IInv'
  OBVIOUS
<1>1. CASE UNCHANGED vars
  BY <1>1 DEF vars, IInv, Documents, Sound, NotOwner, Founding, Unfounded, OneOwner, Owners
<1>2. ASSUME NEW r \in Request, Begins(r) PROVE IInv'
  BY <1>2, BeginsKeeps
<1>3. ASSUME NEW r \in Request, Continues(r) PROVE IInv'
  BY <1>3, CreateOwnerKeeps, GroupHandlersKeep, LookupsKeep, DeleteMembersKeeps,
     MemberHandlersKeep DEF Continues
<1>4. ASSUME NEW r \in Request, Fail(r) PROVE IInv'
  <2>1. group' \in Group /\ failures' \in 0..MaxFailures
    BY <1>4 DEF Fail, IInv, Documents
  <2>2. QED
    BY <1>4, <2>1, RespondKeeps DEF Fail, Respond
<1>5. QED
  BY <1>1, <1>2, <1>3, <1>4 DEF Next

\* Every document stays in its domain, for any number of users and handlers.
THEOREM TypeCorrect == Spec => []TypeOK
<1>1. IInv => TypeOK
  <2> SUFFICES ASSUME IInv PROVE TypeOK
    OBVIOUS
  <2>1. group \in Group /\ member \in [User -> Document] /\ failures \in 0..MaxFailures
    BY DEF IInv, Documents
  <2>2. \A u \in User : member[u] \in Document
    BY <2>1
  <2>3. QED
    BY <2>1, <2>2 DEF Group, Document, Statuses, TypeOK
<1>2. QED
  BY <1>1, InitIInv, NextIInv, PTL DEF Spec

\* No interleaving of removals, role changes, leaving and re-adding, each acting on
\* a document loaded earlier, demotes or retires the owner or makes a second one.
THEOREM OwnerAlwaysStays == Spec => []OwnerStays
<1>1. IInv => OwnerStays
  <2> SUFFICES ASSUME IInv PROVE OwnerStays
    OBVIOUS
  <2>1. \A u, v \in Owners : u = v
    BY DEF IInv, OneOwner
  <2>2. Cardinality(Owners) <= 1
    <3>1. CASE Owners = {}
      BY <3>1, FS_EmptySet
    <3>2. CASE \E u \in Owners : TRUE
      <4>1. PICK u \in Owners : TRUE
        BY <3>2
      <4>2. Owners = {u}
        BY <2>1, <4>1
      <4>3. QED
        BY <4>2, FS_Singleton
    <3>3. QED
      BY <3>1, <3>2
  <2>3. QED
    BY <2>2 DEF IInv, OneOwner, OwnerStays
<1>2. QED
  BY <1>1, InitIInv, NextIInv, PTL DEF Spec

-----------------------------------------------------------------------------
(* Requests that wait for one another. *)

\* Everything adds up: the stored count, and who is left in a group.
Settled ==
    /\ GroupFound => group.totalMembers = Cardinality(With({"active"}))
    /\ group.at # "deleted" => \A u \in User : ~member[u].deleted
    /\ group.at = "deleted" => With(Joined) = {}

\* What the only handler under way knows of the group and its members, at each place.
Adds  == {"mayAdd", "countCapacity", "addNext", "create", "rejoin"}
Alone(h) ==
    /\ h.at \in {"idle", "updateGroup", "deleteMembers", "mayAdd", "countCapacity", "findRemoved",
                 "findPromoted", "saveLeft", "saveRole"} => Settled
    /\ h.at \in Adds \cup {"createOwner", "findRemoved", "saveLeft", "findGroup", "countMembers",
                           "saveTotal"} =>
          GroupFound /\ \A u \in User : ~member[u].deleted
    /\ h.at = "createOwner" => group.totalMembers = 1
    /\ h.at \in {"findDeleted", "softDelete"} => With(Joined) = {}
    /\ h.at \in Adds \cup {"countMembers"} => h.loaded.totalMembers = group.totalMembers
    /\ h.at = "create" => ~member[h.who].exists
    /\ h.at = "saveTotal" => /\ h.was = group.totalMembers
                             /\ h.total = Cardinality(With({"active"}))

\* The places addMember has found free, for those it has yet to add.
Reserved(h) == IF h.at = "addNext" THEN Cardinality(h.todo)
               ELSE IF h.at \in {"create", "rejoin"} THEN Cardinality(h.todo) + 1
               ELSE 0

Room(h) == \A max \in Capacity :
              Capacity = {max} => Cardinality(With(Joined)) + Reserved(h) <= max

Knows(h) == Room(h) /\ (failures = 0 => Alone(h))

InTurn ==
    ~overlapped =>
        /\ ~Overlap
        /\ \A r \in Request : req[r] # Idle => Knows(req[r])
        /\ AllIdle => Knows(Idle)

\* What a handler that waits for the others finds is what the one before left.
LEMMA StepInTurn ==
    ASSUME IInv, InTurn, NEW r \in Request, NEW h, req' = [req EXCEPT ![r] = h],
           req[r] # Idle \/ h # Idle, overlapped' = (overlapped \/ Overlap'),
           Knows(req[r]) => Knows(h)'
    PROVE  InTurn'
<1> SUFFICES ASSUME ~overlapped' PROVE InTurn'
  BY DEF InTurn
<1>1. ~overlapped /\ ~Overlap /\ ~Overlap'
  BY DEF InTurn
<1>2. \A q \in Request : req'[q] = IF q = r THEN h ELSE req[q]
  BY DEF IInv, Documents
<1>3. \A q \in Request : q # r => req[q] = Idle /\ req'[q] = Idle
  BY <1>1, <1>2 DEF Overlap, Idle
<1>4. Knows(req[r])
  <2>1. CASE req[r] = Idle
    BY <1>1, <1>3, <2>1 DEF InTurn, AllIdle
  <2>2. CASE req[r] # Idle
    BY <1>1, <2>2 DEF InTurn
  <2>3. QED
    BY <2>1, <2>2
<1>5. Knows(h)'
  BY <1>4
<1>6. AllIdle' => h = Idle
  BY <1>2 DEF AllIdle, Idle
<1>7. Knows(Idle)' \/ ~AllIdle'
  BY <1>5, <1>6 DEF Idle
<1>8. \A q \in Request : req'[q] # Idle => q = r /\ req'[q] = h
  BY <1>2, <1>3
<1>9. \A q \in Request : (req[q] # Idle)' => Knows(req[q])'
  BY <1>5, <1>8 DEF Knows, Room, Reserved, Alone, Idle
<1>10. QED
  BY <1>1, <1>7, <1>9 DEF InTurn

\* A step of one handler, and what it knows after it.
Takes(r, h) ==
    /\ req' = [req EXCEPT ![r] = h]
    /\ req[r] # Idle \/ h # Idle
    /\ Knows(req[r]) => Knows(h)'

LEMMA WithCounts ==
    \A statuses : /\ With(statuses) \in SUBSET User /\ With(statuses)' \in SUBSET User
                  /\ Cardinality(With(statuses)) \in Nat /\ Cardinality(With(statuses)') \in Nat
<1>1. \A statuses : With(statuses) \in SUBSET User /\ With(statuses)' \in SUBSET User
  BY DEF With
<1>2. QED
  BY <1>1, Counting

\* Memberships that are not written are counted as before.
LEMMA SameRoom ==
    ASSUME member' = member, failures' = failures, NEW h, NEW g, Reserved(g) = Reserved(h), Room(h)
    PROVE  Room(g)' /\ \A statuses : With(statuses)' = With(statuses)
<1>1. \A statuses : With(statuses)' = With(statuses)
  BY DEF With, Live
<1>2. Reserved(g)' = Reserved(g)
  BY DEF Reserved
<1>3. QED
  BY <1>1, <1>2 DEF Room

\* The first query of every handler.
LEMMA BeginsInTurn ==
    ASSUME IInv, NEW r \in Request, Begins(r)
    PROVE  \E h : Takes(r, h)
<1> USE DEF Begin, Idle
<1>1. PICK u \in User :
        \/ \E max \in Capacity, approval \in Approval :
              CreateGroup(r, u, max, approval) \/ BeginUpdate(r, u, max, approval)
        \/ BeginDelete(r, u)
        \/ \E v \in User :
              \/ BeginRemove(r, u, v)
              \/ \E role \in {"admin", "member"} : BeginSetRole(r, u, v, role)
        \/ BeginLeave(r, u)
        \/ \E W \in SUBSET User \ {{}} : BeginAdd(r, u, W)
  BY DEF Begins
<1>2. /\ req[r] = Idle /\ member' = member /\ failures' = failures
      /\ \E h : req' = [req EXCEPT ![r] = h]
  BY <1>1 DEF CreateGroup, BeginUpdate, BeginDelete, BeginRemove, BeginSetRole, BeginLeave, BeginAdd
<1>3. PICK h : /\ req' = [req EXCEPT ![r] = h]
               /\ \/ /\ h.at = "createOwner" /\ group.at = "none"
                     /\ group'.at = "live" /\ group'.totalMembers = 1
                  \/ /\ h.at \in {"updateGroup", "deleteMembers", "findRemoved", "findPromoted", "saveLeft"}
                     /\ u \in With({"active"}) /\ group' = group
                  \/ h.at = "mayAdd" /\ h.loaded = group /\ GroupFound /\ group' = group
  <2>1. CASE \E max \in Capacity, approval \in Approval : CreateGroup(r, u, max, approval)
    <3> WITNESS [at |-> "createOwner", by |-> u]
    <3>1. QED
      BY <2>1 DEF CreateGroup
  <2>2. CASE \E max \in Capacity, approval \in Approval : BeginUpdate(r, u, max, approval)
    <3>1. PICK max \in Capacity, approval \in Approval : BeginUpdate(r, u, max, approval)
      BY <2>2
    <3> WITNESS [at |-> "updateGroup", max |-> max, approval |-> approval]
    <3>2. QED
      BY <3>1 DEF BeginUpdate, Manager
  <2>3. CASE BeginDelete(r, u)
    <3> WITNESS [at |-> "deleteMembers"]
    <3>1. QED
      BY <2>3 DEF BeginDelete, OwnerNow
  <2>4. CASE \E v \in User : BeginRemove(r, u, v)
    <3>1. PICK v \in User : BeginRemove(r, u, v)
      BY <2>4
    <3> WITNESS [at |-> "findRemoved", byRole |-> member[u].role, who |-> v]
    <3>2. QED
      BY <3>1 DEF BeginRemove, Manager
  <2>5. CASE \E v \in User, role \in {"admin", "member"} : BeginSetRole(r, u, v, role)
    <3>1. PICK v \in User, role \in {"admin", "member"} : BeginSetRole(r, u, v, role)
      BY <2>5
    <3> WITNESS [at |-> "findPromoted", who |-> v, role |-> role]
    <3>2. QED
      BY <3>1 DEF BeginSetRole, OwnerNow
  <2>6. CASE BeginLeave(r, u)
    <3> WITNESS [at |-> "saveLeft", who |-> u, was |-> "active"]
    <3>1. QED
      BY <2>6 DEF BeginLeave
  <2>7. CASE \E W \in SUBSET User \ {{}} : BeginAdd(r, u, W)
    <3>1. PICK W \in SUBSET User \ {{}} : BeginAdd(r, u, W)
      BY <2>7
    <3> WITNESS [at |-> "mayAdd", by |-> u, todo |-> W, loaded |-> group]
    <3>2. QED
      BY <3>1 DEF BeginAdd
  <2>8. QED
    BY <1>1, <2>1, <2>2, <2>3, <2>4, <2>5, <2>6, <2>7
<1>4. ASSUME Knows(Idle) PROVE Knows(h)'
  <2>1. /\ Reserved(h) = Reserved(Idle)
        /\ Room(h)' /\ \A statuses : With(statuses)' = With(statuses)
    <3>1. Reserved(h) = Reserved(Idle)
      BY <1>3 DEF Reserved
    <3>2. QED
      BY <1>2, <1>4, <3>1, SameRoom DEF Knows
  <2>2. ASSUME failures = 0 PROVE Alone(h)'
    <3>1. Settled
      BY <1>4, <2>2 DEF Knows, Alone
    <3>2. u \in With({"active"}) => GroupFound
      <4>1. With({"active"}) \subseteq With(Joined) /\ group \in Group
        BY DEF With, Joined, IInv, Documents
      <4>2. u \in With({"active"}) => ~Unfounded
        BY DEF With, Live, Unfounded
      <4>3. QED
        BY <3>1, <4>1, <4>2 DEF Settled, GroupFound, IInv, Founding, Group
    <3>3. CASE h.at = "createOwner"
      <4>1. group'.at = "live" /\ group'.totalMembers = 1 /\ \A v \in User : ~member[v].deleted
        BY <1>3, <3>1, <3>3 DEF Settled
      <4>2. QED
        BY <1>2, <3>3, <4>1 DEF Alone, Adds, GroupFound
    <3>4. CASE h.at # "createOwner"
      <4>1. /\ Settled' /\ GroupFound' /\ group' = group
            /\ \A v \in User : ~member'[v].deleted
        BY <1>2, <1>3, <2>1, <3>1, <3>2, <3>4 DEF Settled, GroupFound
      <4>2. QED
        BY <1>3, <3>4, <4>1 DEF Alone, Adds
    <3>5. QED
      BY <3>3, <3>4
  <2>3. QED
    BY <1>2, <2>1, <2>2 DEF Knows
<1>5. h # Idle
  BY <1>3
<1>6. QED
  BY <1>2, <1>3, <1>4, <1>5 DEF Takes

\* The queries of a handler, and its writes to the group.
LEMMA QueriesInTurn ==
    ASSUME IInv, NEW r \in Request, Knows(req[r]),
           \/ UpdateGroup(r) \/ FindDeleted(r) \/ SoftDelete(r)
           \/ MayAdd(r) \/ CountCapacity(r) \/ AllAdded(r)
           \/ FindRemoved(r) \/ FindGroup(r) \/ FindPromoted(r)
           \/ CountMembers(r) \/ SaveTotal(r)
    PROVE  \E h : req' = [req EXCEPT ![r] = h] /\ Knows(h)'
<1> USE DEF At, Go, Respond, Adding, Idle
<1>1. /\ member' = member /\ failures' = failures
      /\ group \in Group /\ Sound(member, req[r]) /\ member \in [User -> Document]
  BY DEF UpdateGroup, FindDeleted, SoftDelete, MayAdd, CountCapacity, AllAdded, FindRemoved,
         FindGroup, FindPromoted, CountMembers, SaveTotal, IInv, Documents
<1>2. /\ \A statuses : With(statuses)' = With(statuses)
      /\ \A g : Reserved(g) = Reserved(req[r]) => Room(g)'
  BY <1>1, SameRoom DEF Knows
<1>3. failures = 0 => Alone(req[r])
  BY DEF Knows
<1>4. CASE UpdateGroup(r)
  <2>1. /\ req' = [req EXCEPT ![r] = Idle] /\ req[r].at = "updateGroup"
        /\ group'.at = group.at /\ group'.totalMembers = group.totalMembers
    BY <1>1, <1>4 DEF UpdateGroup, Group
  <2>2. Reserved(Idle) = Reserved(req[r])
    BY <2>1 DEF Reserved
  <2>3. failures = 0 => Alone(Idle)'
    BY <1>1, <1>2, <1>3, <2>1 DEF Alone, Settled, GroupFound, Adds
  <2>4. QED
    BY <1>1, <1>2, <2>1, <2>2, <2>3 DEF Knows
<1>5. CASE FindDeleted(r)
  <2>1. PICK h \in {Idle, [at |-> "softDelete"]} :
          /\ req' = [req EXCEPT ![r] = h] /\ req[r].at = "findDeleted" /\ group' = group
          /\ h = Idle => group.at # "live"
    BY <1>5 DEF FindDeleted, GroupFound
  <2>2. Reserved(h) = Reserved(req[r])
    BY <2>1 DEF Reserved
  <2>3. group.at # "none"
    BY <2>1 DEF IInv, Founding
  <2>4. failures = 0 => Alone(h)'
    BY <1>1, <1>2, <1>3, <2>1, <2>3 DEF Alone, Settled, GroupFound, Adds, Group
  <2>5. QED
    BY <1>1, <1>2, <2>1, <2>2, <2>4 DEF Knows
<1>6. CASE SoftDelete(r)
  <2>1. /\ req' = [req EXCEPT ![r] = Idle] /\ req[r].at = "softDelete" /\ group'.at = "deleted"
    BY <1>1, <1>6 DEF SoftDelete, Group
  <2>2. Reserved(Idle) = Reserved(req[r])
    BY <2>1 DEF Reserved
  <2>3. failures = 0 => Alone(Idle)'
    BY <1>1, <1>2, <1>3, <2>1 DEF Alone, Settled, GroupFound, Adds
  <2>4. QED
    BY <1>1, <1>2, <2>1, <2>2, <2>3 DEF Knows
<1>7. CASE MayAdd(r)
  <2>1. PICK h \in {Idle, [at |-> "countCapacity", todo |-> req[r].todo, loaded |-> req[r].loaded]} :
          req' = [req EXCEPT ![r] = h] /\ req[r].at = "mayAdd" /\ group' = group
    BY <1>7 DEF MayAdd
  <2>2. Reserved(h) = Reserved(req[r])
    BY <2>1 DEF Reserved
  <2>3. failures = 0 => Alone(h)'
    BY <1>1, <1>2, <1>3, <2>1 DEF Alone, Settled, GroupFound, Adds
  <2>4. QED
    BY <1>1, <1>2, <2>1, <2>2, <2>3 DEF Knows
<1>8. CASE CountCapacity(r)
  <2>1. PICK h \in {Idle, [at |-> "addNext", todo |-> req[r].todo, loaded |-> req[r].loaded]} :
          /\ req' = [req EXCEPT ![r] = h] /\ req[r].at = "countCapacity" /\ group' = group
          /\ h = Idle \/ ~(Cardinality(With(Joined)) + Cardinality(req[r].todo)
                             > req[r].loaded.maxMembers)
    BY <1>8 DEF CountCapacity
  <2>2. CASE h = Idle
    <3>1. Reserved(h) = Reserved(req[r])
      BY <2>1, <2>2 DEF Reserved
    <3>2. failures = 0 => Alone(h)'
      BY <1>1, <1>2, <1>3, <2>1, <2>2 DEF Alone, Settled, GroupFound, Adds
    <3>3. QED
      BY <1>1, <1>2, <2>1, <3>1, <3>2 DEF Knows
  <2>3. CASE h = [at |-> "addNext", todo |-> req[r].todo, loaded |-> req[r].loaded] /\ h # Idle
    <3>1. /\ Reserved(h)' = Cardinality(req[r].todo)
          /\ Cardinality(req[r].todo) \in Nat /\ Cardinality(With(Joined)) \in Nat
          /\ req[r].loaded.maxMembers \in Capacity \cup {0}
      BY <1>1, <2>1, <2>3, Counting, WithCounts DEF Reserved, Sound, Group
    <3>2. Room(h)'
      <4> SUFFICES ASSUME NEW max \in Capacity, Capacity = {max}
                   PROVE  Cardinality(With(Joined)) + Cardinality(req[r].todo) <= max
        BY <1>2, <3>1 DEF Room
      <4>1. max \in Nat /\ req[r].loaded.maxMembers \in {max, 0}
        BY <3>1
      <4>2. QED
        BY <2>1, <2>3, <3>1, <4>1
    <3>3. failures = 0 => Alone(h)'
      BY <1>1, <1>2, <1>3, <2>1, <2>3 DEF Alone, Settled, GroupFound, Adds
    <3>4. QED
      BY <1>1, <2>1, <3>2, <3>3 DEF Knows
  <2>4. QED
    BY <2>1, <2>2, <2>3
<1>9. CASE AllAdded(r)
  <2>1. PICK h \in {[at |-> "countMembers", loaded |-> req[r].loaded]} :
        /\ req' = [req EXCEPT ![r] = h] /\ req[r].at = "addNext" /\ group' = group
        /\ req[r].todo = {}
    BY <1>9 DEF AllAdded
  <2>2. Reserved(h) = Reserved(req[r])
    BY <2>1, FS_EmptySet DEF Reserved
  <2>3. failures = 0 => Alone(h)'
    BY <1>1, <1>2, <1>3, <2>1 DEF Alone, Settled, GroupFound, Adds
  <2>4. QED
    BY <1>1, <1>2, <2>1, <2>2, <2>3 DEF Knows
<1>10. CASE FindRemoved(r)
  <2>1. PICK h \in {Idle, [at |-> "saveLeft", who |-> req[r].who, was |-> member[req[r].who].status]} :
          req' = [req EXCEPT ![r] = h] /\ req[r].at = "findRemoved" /\ group' = group
    BY <1>10 DEF FindRemoved
  <2>2. Reserved(h) = Reserved(req[r])
    BY <2>1 DEF Reserved
  <2>3. failures = 0 => Alone(h)'
    BY <1>1, <1>2, <1>3, <2>1 DEF Alone, Settled, GroupFound, Adds
  <2>4. QED
    BY <1>1, <1>2, <2>1, <2>2, <2>3 DEF Knows
<1>11. CASE FindGroup(r)
  <2>1. PICK h \in {Idle, [at |-> "countMembers", loaded |-> group]} :
          /\ req' = [req EXCEPT ![r] = h] /\ req[r].at = "findGroup" /\ group' = group
          /\ h = Idle => ~GroupFound
    BY <1>11 DEF FindGroup
  <2>2. Reserved(h) = Reserved(req[r])
    BY <2>1 DEF Reserved
  <2>3. failures = 0 => Alone(h)'
    BY <1>1, <1>2, <1>3, <2>1 DEF Alone, Settled, GroupFound, Adds
  <2>4. QED
    BY <1>1, <1>2, <2>1, <2>2, <2>3 DEF Knows
<1>12. CASE FindPromoted(r)
  <2>1. PICK h \in {Idle, [at |-> "saveRole", who |-> req[r].who, role |-> req[r].role,
                           was |-> member[req[r].who].role]} :
          req' = [req EXCEPT ![r] = h] /\ req[r].at = "findPromoted" /\ group' = group
    BY <1>12 DEF FindPromoted
  <2>2. Reserved(h) = Reserved(req[r])
    BY <2>1 DEF Reserved
  <2>3. failures = 0 => Alone(h)'
    BY <1>1, <1>2, <1>3, <2>1 DEF Alone, Settled, GroupFound, Adds
  <2>4. QED
    BY <1>1, <1>2, <2>1, <2>2, <2>3 DEF Knows
<1>13. CASE CountMembers(r)
  <2>1. PICK h \in {[at |-> "saveTotal", was |-> req[r].loaded.totalMembers,
                     total |-> Cardinality(With({"active"}))]} :
        req' = [req EXCEPT ![r] = h] /\ req[r].at = "countMembers" /\ group' = group
    BY <1>13 DEF CountMembers
  <2>2. Reserved(h) = Reserved(req[r])
    BY <2>1 DEF Reserved
  <2>3. failures = 0 => Alone(h)'
    BY <1>1, <1>2, <1>3, <2>1 DEF Alone, Settled, GroupFound, Adds
  <2>4. QED
    BY <1>1, <1>2, <2>1, <2>2, <2>3 DEF Knows
<1>14. CASE SaveTotal(r)
  <2>1. /\ req' = [req EXCEPT ![r] = Idle] /\ req[r].at = "saveTotal" /\ group'.at = group.at
        /\ group'.totalMembers = IF req[r].total = req[r].was THEN group.totalMembers
                                                              ELSE req[r].total
    BY <1>1, <1>14 DEF SaveTotal, Group
  <2>2. Reserved(Idle) = Reserved(req[r])
    BY <2>1 DEF Reserved
  <2>3. failures = 0 => Alone(Idle)'
    BY <1>1, <1>2, <1>3, <2>1 DEF Alone, Settled, GroupFound, Adds
  <2>4. QED
    BY <1>1, <1>2, <2>1, <2>2, <2>3 DEF Knows
<1>15. QED
  BY <1>4, <1>5, <1>6, <1>7, <1>8, <1>9, <1>10, <1>11, <1>12, <1>13, <1>14

\* One turn of addMember's loop takes one of those it has yet to add.
LEMMA LookupInTurn ==
    ASSUME IInv, NEW r \in Request, Knows(req[r]), NEW v \in User, FindExisting(r, v)
    PROVE  \E h : req' = [req EXCEPT ![r] = h] /\ Knows(h)'
<1> DEFINE rest == req[r].todo \ {v}
<1>1. /\ member' = member /\ failures' = failures /\ group' = group
      /\ req[r].at = "addNext" /\ v \in req[r].todo /\ req[r].todo \subseteq User
  BY DEF FindExisting, At, IInv, Sound
<1>2. /\ \A statuses : With(statuses)' = With(statuses)
      /\ \A g : Reserved(g) = Reserved(req[r]) => Room(g)'
  BY <1>1, SameRoom DEF Knows
<1>3. /\ Cardinality(req[r].todo) \in Nat /\ Cardinality(rest) = Cardinality(req[r].todo) - 1
      /\ Cardinality(rest) \in Nat /\ Cardinality(With(Joined)) \in Nat
  BY <1>1, Counting, WithCounts, FS_RemoveElement
<1> HIDE DEF rest
<1>4. PICK h : /\ req' = [req EXCEPT ![r] = h] /\ h.todo = rest /\ h.loaded = req[r].loaded
               /\ \/ h.at = "create" /\ ~Live(v) /\ h.who = v
                  \/ h.at = "rejoin"
                  \/ h.at = "addNext"
  <2>1. CASE ~Live(v) /\ req' = [req EXCEPT ![r] = [at |-> "create", who |-> v, todo |-> rest,
                                                    loaded |-> req[r].loaded]]
    <3> WITNESS [at |-> "create", who |-> v, todo |-> rest, loaded |-> req[r].loaded]
    <3>1. QED
      BY <2>1
  <2>2. CASE req' = [req EXCEPT ![r] = [at |-> "rejoin", who |-> v, todo |-> rest,
                                        loaded |-> req[r].loaded]]
    <3> WITNESS [at |-> "rejoin", who |-> v, todo |-> rest, loaded |-> req[r].loaded]
    <3>1. QED
      BY <2>2
  <2>3. CASE req' = [req EXCEPT ![r] = [req[r] EXCEPT !.todo = rest]]
    <3>1. PICK h : h = [req[r] EXCEPT !.todo = rest]
      OBVIOUS
    <3>2. h.at = "addNext" /\ h.loaded = req[r].loaded /\ h.todo = rest
      BY <1>1, <3>1
    <3> WITNESS h
    <3>3. QED
      BY <2>3, <3>1, <3>2
  <2>4. QED
    BY <2>1, <2>2, <2>3 DEF FindExisting, Go, rest
<1>5. Room(h)'
  <2>1. Reserved(h)' <= Cardinality(req[r].todo) /\ Reserved(h)' \in Nat
    BY <1>3, <1>4 DEF Reserved
  <2>2. Reserved(req[r]) = Cardinality(req[r].todo)
    BY <1>1 DEF Reserved
  <2>3. QED
    BY <1>2, <1>3, <2>1, <2>2 DEF Room, Knows
<1>6. ASSUME failures = 0 PROVE Alone(h)'
  <2>1. /\ GroupFound /\ h.loaded.totalMembers = group.totalMembers
        /\ \A u \in User : ~member[u].deleted
    BY <1>1, <1>4, <1>6 DEF Knows, Alone, Adds
  <2>2. h.at = "create" => ~member[h.who].exists
    BY <1>4, <2>1 DEF Live
  <2>3. QED
    BY <1>1, <1>4, <2>1, <2>2 DEF Alone, Adds, GroupFound
<1>7. QED
  BY <1>1, <1>4, <1>5, <1>6 DEF Knows

\* Writing one membership adds one member at most, and none if nobody comes in.
LEMMA OneWritten ==
    ASSUME IInv, NEW v \in User, \A u \in User : u # v => member'[u] = member[u],
           NEW statuses
    PROVE  /\ Cardinality(With(statuses)') <= Cardinality(With(statuses)) + 1
           /\ v \notin With(statuses)' => Cardinality(With(statuses)') <= Cardinality(With(statuses))
           /\ Cardinality(With(statuses)) \in Nat /\ Cardinality(With(statuses)') \in Nat
<1> DEFINE old == With(statuses)
           new == With(statuses)'
<1>1. old \in SUBSET User /\ new \in SUBSET User /\ new \subseteq old \cup {v}
      /\ (v \notin new => new \subseteq old)
  BY DEF With, Live
<1> HIDE DEF old, new
<1>2. IsFiniteSet(old) /\ IsFiniteSet(new) /\ Cardinality(old) \in Nat /\ Cardinality(new) \in Nat
  BY <1>1, Counting
<1>3. v \notin new => Cardinality(new) <= Cardinality(old)
  BY <1>1, <1>2, FS_Subset
<1>4. Cardinality(new) <= Cardinality(old) + 1
  <2>1. /\ IsFiniteSet(old \cup {v})
        /\ Cardinality(old \cup {v}) = IF v \in old THEN Cardinality(old) ELSE Cardinality(old) + 1
    BY <1>2, FS_AddElement
  <2>2. Cardinality(new) <= Cardinality(old \cup {v})
    BY <1>1, <2>1, FS_Subset
  <2>3. QED
    BY <1>2, <2>1, <2>2
<1>5. QED
  BY <1>2, <1>3, <1>4 DEF old, new

\* The owner comes into an empty group.
LEMMA OwnerInTurn ==
    ASSUME IInv, NEW r \in Request, Knows(req[r]), CreateOwner(r)
    PROVE  req' = [req EXCEPT ![r] = Idle] /\ Knows(Idle)'
<1> DEFINE u == req[r].by
<1>1. /\ req' = [req EXCEPT ![r] = Idle] /\ req[r].at = "createOwner"
      /\ group' = group /\ failures' = failures /\ u \in User /\ Unfounded
      /\ \A v \in User : member'[v] = IF v = u THEN Membership("owner", "active") ELSE member[v]
  BY DEF CreateOwner, At, Respond, IInv, Documents, Founding, Sound
<1> HIDE DEF u
<1>2. With({"active"})' = {u} /\ With(Joined)' = {u}
  BY <1>1 DEF With, Live, Unfounded, Membership, Joined
<1>3. Cardinality({u}) = 1
  BY FS_Singleton
<1>4. Room(Idle)'
  BY <1>2, <1>3 DEF Room, Reserved, Idle
<1>5. ASSUME failures = 0 PROVE Alone(Idle)'
  <2>1. /\ GroupFound /\ group.totalMembers = 1
        /\ \A v \in User : ~member[v].deleted
    BY <1>1, <1>5 DEF Knows, Alone, Adds
  <2>2. \A v \in User : ~member'[v].deleted
    BY <1>1, <2>1 DEF Membership
  <2>3. Settled'
    BY <1>1, <1>2, <1>3, <2>1, <2>2 DEF Settled, GroupFound
  <2>4. QED
    BY <2>3 DEF Alone, Idle, Adds
<1>6. QED
  BY <1>1, <1>4, <1>5 DEF Knows

\* The deletion takes everybody out.
LEMMA DeletionInTurn ==
    ASSUME IInv, NEW r \in Request, Knows(req[r]), DeleteMembers(r)
    PROVE  \E h : req' = [req EXCEPT ![r] = h] /\ Knows(h)'
<1>1. PICK h : /\ h = [at |-> "findDeleted"] /\ req' = [req EXCEPT ![r] = h]
               /\ group' = group /\ failures' = failures
  BY DEF DeleteMembers, Go
<1>2. \A statuses : With(statuses)' = {}
  BY DEF DeleteMembers, With, Live, IInv, Documents, Document
<1>3. Cardinality({}) = 0
  BY FS_EmptySet
<1>4. Room(h)'
  BY <1>1, <1>2, <1>3 DEF Room, Reserved
<1>5. Alone(h)'
  BY <1>1, <1>2 DEF Alone, Adds
<1>6. QED
  BY <1>1, <1>4, <1>5 DEF Knows

\* One membership after the other is written in the places that were found free.
LEMMA WritesInTurn ==
    ASSUME IInv, NEW r \in Request, Knows(req[r]),
           Rejoin(r) \/ CreateMember(r) \/ SaveLeft(r) \/ SaveRole(r)
    PROVE  \E h : req' = [req EXCEPT ![r] = h] /\ Knows(h)'
<1> USE DEF At, Go, Respond, Adding
<1> DEFINE v == req[r].who
<1>1. /\ group' = group /\ failures' = failures /\ v \in User
      /\ member \in [User -> Document] /\ Sound(member, req[r])
      /\ Cardinality(With(Joined)) \in Nat
      /\ req[r].at \in {"rejoin", "create", "saveLeft", "saveRole"}
  BY WithCounts DEF Rejoin, CreateMember, SaveLeft, SaveRole, IInv, Documents, Sound
<1>2. failures = 0 => Alone(req[r])
  BY DEF Knows
<1>3. CASE Rejoin(r) \/ (CreateMember(r) /\ ~member[v].exists)
  <2>1. PICK h \in {[at |-> "addNext", todo |-> req[r].todo, loaded |-> req[r].loaded]} :
          /\ req' = [req EXCEPT ![r] = h] /\ req[r].at \in {"create", "rejoin"}
    BY <1>3 DEF Rejoin, CreateMember
  <2>2. \A u \in User : u # v => member'[u] = member[u]
    BY <1>1, <1>3 DEF Rejoin, CreateMember
  <2>3. member'[v].deleted => member[v].deleted
    <3>1. CASE Rejoin(r)
      <4>1. member'[v] = [member[v] EXCEPT !.status = Entry(r)]
        BY <1>1, <3>1 DEF Rejoin
      <4>2. QED
        BY <1>1, <4>1 DEF Document
    <3>2. CASE CreateMember(r) /\ ~member[v].exists
      <4>1. member'[v] = Membership("member", Entry(r))
        BY <1>1, <3>2 DEF CreateMember
      <4>2. QED
        BY <4>1 DEF Membership
    <3>3. QED
      BY <1>3, <3>1, <3>2
  <2>4. Room(h)'
    <3>1. /\ Reserved(h)' = Cardinality(req[r].todo) /\ Reserved(req[r]) = Cardinality(req[r].todo) + 1
          /\ Cardinality(req[r].todo) \in Nat
      BY <1>1, <2>1, Counting DEF Reserved, Sound
    <3>2. Cardinality(With(Joined)') <= Cardinality(With(Joined)) + 1
          /\ Cardinality(With(Joined)') \in Nat
      BY <1>1, <2>2, OneWritten
    <3>3. QED
      BY <1>1, <3>1, <3>2 DEF Room, Knows
  <2>5. ASSUME failures = 0 PROVE Alone(h)'
    <3>1. /\ GroupFound /\ req[r].loaded.totalMembers = group.totalMembers
          /\ \A u \in User : ~member[u].deleted
      BY <1>2, <2>1, <2>5 DEF Alone, Adds
    <3>2. \A u \in User : ~member'[u].deleted
      BY <2>2, <2>3, <3>1
    <3>3. QED
      BY <1>1, <2>1, <3>1, <3>2 DEF Alone, Adds, GroupFound
  <2>6. QED
    BY <1>1, <2>1, <2>4, <2>5 DEF Knows
<1>4. CASE CreateMember(r) /\ member[v].exists
  <2>1. PICK h \in {Idle} : /\ req' = [req EXCEPT ![r] = h] /\ member' = member
                            /\ req[r].at = "create"
    BY <1>4 DEF CreateMember
  <2>2. failures # 0
    BY <1>2, <1>4, <2>1 DEF Alone
  <2>3. Room(h)'
    <3>1. /\ Reserved(h)' = 0 /\ Reserved(req[r]) = Cardinality(req[r].todo) + 1
          /\ Cardinality(req[r].todo) \in Nat
      BY <1>1, <2>1, Counting DEF Reserved, Sound, Idle
    <3>2. With(Joined)' = With(Joined)
      BY <2>1 DEF With, Live
    <3>3. QED
      BY <1>1, <3>1, <3>2 DEF Room, Knows
  <2>4. QED
    BY <1>1, <2>1, <2>2, <2>3 DEF Knows
<1>5. CASE SaveLeft(r)
  <2>1. PICK h \in {[at |-> "findGroup"]} : req' = [req EXCEPT ![r] = h] /\ req[r].at = "saveLeft"
    BY <1>5 DEF SaveLeft
  <2>2. CASE member' = member
    <3>1. Reserved(h) = Reserved(req[r])
      BY <2>1 DEF Reserved
    <3>2. Room(h)'
      BY <1>1, <2>2, <3>1, SameRoom DEF Knows
    <3>3. failures = 0 => Alone(h)'
      BY <1>1, <1>2, <2>1, <2>2 DEF Alone, Adds, GroupFound
    <3>4. QED
      BY <1>1, <2>1, <3>2, <3>3 DEF Knows
  <2>3. CASE member' = [member EXCEPT ![v].status = "left"]
    <3>1. /\ \A u \in User : u # v => member'[u] = member[u]
          /\ member'[v].status = "left" /\ member'[v].deleted = member[v].deleted
      <4>1. member'[v] = [member[v] EXCEPT !.status = "left"]
        BY <1>1, <2>3
      <4>2. QED
        BY <1>1, <2>3, <4>1 DEF Document
    <3>2. v \notin With(Joined)'
      BY <3>1 DEF With, Joined
    <3>3. Cardinality(With(Joined)') <= Cardinality(With(Joined)) /\ Cardinality(With(Joined)') \in Nat
      BY <1>1, <3>1, <3>2, OneWritten
    <3>4. Reserved(h)' = 0 /\ Reserved(req[r]) = 0
      BY <2>1 DEF Reserved
    <3>5. Room(h)'
      BY <1>1, <3>3, <3>4 DEF Room, Knows
    <3>6. failures = 0 => Alone(h)'
      BY <1>1, <1>2, <2>1, <3>1 DEF Alone, Adds, GroupFound
    <3>7. QED
      BY <1>1, <2>1, <3>5, <3>6 DEF Knows
  <2>4. QED
    BY <1>5, <2>2, <2>3 DEF SaveLeft
<1>6. CASE SaveRole(r)
  <2>1. PICK h \in {Idle} : req' = [req EXCEPT ![r] = h] /\ req[r].at = "saveRole"
    BY <1>6 DEF SaveRole
  <2>2. \A u \in User : /\ member'[u].exists = member[u].exists
                        /\ member'[u].deleted = member[u].deleted
                        /\ member'[u].status = member[u].status
    <3>1. CASE member' = member
      BY <3>1
    <3>2. CASE member' = [member EXCEPT ![v].role = req[r].role, ![v].manages = req[r].role # "member"]
      <4> DEFINE d == [member[v] EXCEPT !.role = req[r].role]
                 e == [d EXCEPT !.manages = req[r].role # "member"]
      <4>1. /\ d.exists = member[v].exists /\ d.deleted = member[v].deleted
            /\ d.status = member[v].status /\ DOMAIN d = DOMAIN member[v]
        BY <1>1 DEF Document
      <4>2. e.exists = d.exists /\ e.deleted = d.deleted /\ e.status = d.status
        BY <1>1, <4>1 DEF Document
      <4>3. \A u \in User : member'[u] = IF u = v THEN e ELSE member[u]
        BY <1>1, <3>2 DEF Document
      <4> HIDE DEF d, e
      <4>4. QED
        BY <4>1, <4>2, <4>3
    <3>3. QED
      BY <1>6, <3>1, <3>2 DEF SaveRole
  <2>3. \A statuses : With(statuses)' = With(statuses)
    BY <2>2 DEF With, Live
  <2>4. Room(h)'
    <3>1. Reserved(h)' = 0 /\ Reserved(req[r]) = 0
      BY <2>1 DEF Reserved, Idle
    <3>2. QED
      BY <2>3, <3>1 DEF Room, Knows
  <2>5. failures = 0 => Alone(h)'
    BY <1>1, <1>2, <2>1, <2>2, <2>3 DEF Alone, Settled, GroupFound, Adds, Idle
  <2>6. QED
    BY <1>1, <2>1, <2>4, <2>5 DEF Knows
<1>7. QED
  BY <1>3, <1>4, <1>5, <1>6

\* A handler that dies leaves the places it had found free.
LEMMA FailureInTurn ==
    ASSUME IInv, NEW r \in Request, Knows(req[r]), Fail(r)
    PROVE  req' = [req EXCEPT ![r] = Idle] /\ Knows(Idle)'
<1>1. /\ req' = [req EXCEPT ![r] = Idle] /\ failures' = failures + 1 /\ failures' # 0
      /\ group' = group /\ member' = member /\ Sound(member, req[r])
  BY DEF Fail, Respond, IInv, Documents
<1>2. /\ With(Joined)' = With(Joined) /\ Cardinality(With(Joined)) \in Nat
      /\ Reserved(req[r]) \in Nat /\ Reserved(Idle)' = 0
  <2>1. req[r].at \in {"addNext", "create", "rejoin"} => Cardinality(req[r].todo) \in Nat
    BY <1>1, Counting DEF Sound
  <2>2. QED
    BY <1>1, <2>1, WithCounts DEF With, Live, Reserved, Idle
<1>3. Room(Idle)'
  <2> SUFFICES ASSUME NEW max \in Capacity, Capacity = {max}
               PROVE  Cardinality(With(Joined)') + Reserved(Idle)' <= max
    BY DEF Room
  <2>1. Cardinality(With(Joined)) + Reserved(req[r]) <= max
    BY DEF Knows, Room
  <2>2. QED
    BY <1>2, <2>1
<1>4. QED
  BY <1>1, <1>3 DEF Knows

LEMMA NextInTurn ==
    ASSUME IInv, InTurn, Next, overlapped' = (overlapped \/ Overlap')
    PROVE  InTurn'
<1>1. PICK r \in Request : Begins(r) \/ Continues(r) \/ Fail(r)
  BY DEF Next
<1>2. CASE Begins(r)
  BY <1>2, BeginsInTurn, StepInTurn DEF Takes
<1>3. CASE Continues(r)
  <2>1. req[r] # Idle /\ \E h : req' = [req EXCEPT ![r] = h]
    BY <1>3 DEF Continues, CreateOwner, UpdateGroup, DeleteMembers, FindDeleted, SoftDelete,
       MayAdd, CountCapacity, AllAdded, FindExisting, Rejoin, CreateMember, FindRemoved, SaveLeft,
       FindGroup, FindPromoted, SaveRole, CountMembers, SaveTotal, At, Go, Respond, Adding, Idle
  <2>2. Knows(req[r]) => \E h : req' = [req EXCEPT ![r] = h] /\ Knows(h)'
    BY <1>3, OwnerInTurn, DeletionInTurn, QueriesInTurn, LookupInTurn, WritesInTurn DEF Continues
  <2>3. PICK h : req' = [req EXCEPT ![r] = h] /\ (Knows(req[r]) => Knows(h)')
    BY <2>1, <2>2
  <2>4. QED
    BY <2>1, <2>3, StepInTurn
<1>4. CASE Fail(r)
  <2>1. req[r] # Idle /\ req' = [req EXCEPT ![r] = Idle] /\ (Knows(req[r]) => Knows(Idle)')
    BY <1>4, FailureInTurn DEF Fail, Respond
  <2>2. PICK h : h = Idle
    OBVIOUS
  <2>3. Knows(h)' = Knows(Idle)'
    BY <2>2 DEF Idle
  <2>4. QED
    BY <2>1, <2>2, <2>3, StepInTurn
<1>5. QED
  BY <1>1, <1>2, <1>3, <1>4

LEMMA InitInTurn == Init => InTurn
<1> SUFFICES ASSUME Init PROVE InTurn
  OBVIOUS
<1>1. /\ \A r \in Request : req[r] = Idle
      /\ group.at = "none" /\ \A u \in User : ~member[u].deleted
      /\ With(Joined) = {}
  BY DEF Init, NoMember, With, Live
<1>2. Cardinality({}) = 0
  BY FS_EmptySet
<1>3. Room(Idle)
  BY <1>1, <1>2 DEF Room, Reserved, Idle
<1>4. Alone(Idle)
  BY <1>1 DEF Alone, Settled, Idle, GroupFound, Adds
<1>5. QED
  BY <1>1, <1>3, <1>4 DEF InTurn, Knows, Overlap

\* The instance that is explored takes steps of the handlers, or leaves them alone.
LEMMA MCStepsAreHandlers ==
    ASSUME [MCNext]_mcVars
    PROVE  /\ [Next]_vars
           /\ (Next /\ overlapped' = (overlapped \/ Overlap')) \/ UNCHANGED groupVars
BY DEF MCNext, GroupStep, FormStep, mcVars, groupVars

LEMMA MCNextInTurn == IInv /\ InTurn /\ [MCNext]_mcVars => InTurn'
<1> SUFFICES ASSUME IInv, InTurn, UNCHANGED groupVars PROVE InTurn'
  BY MCStepsAreHandlers, NextInTurn
<1>1. \A statuses : With(statuses)' = With(statuses)
  BY DEF groupVars, vars, With, Live
<1>2. \A h : Knows(h)' <=> Knows(h)
  BY <1>1 DEF groupVars, vars, Knows, Room, Alone, Settled, Reserved, GroupFound, Adds
<1>3. \A r \in Request : Knows(req[r])' <=> Knows(req[r])
  BY <1>1 DEF groupVars, vars, Knows, Room, Alone, Settled, Reserved, GroupFound, Adds
<1>4. Knows(Idle)' <=> Knows(Idle)
  BY <1>1 DEF groupVars, vars, Knows, Room, Alone, Settled, Reserved, GroupFound, Adds, Idle
<1>5. QED
  BY <1>3, <1>4 DEF groupVars, vars, InTurn, Overlap, AllIdle, Idle

\* A group whose capacity never changes stays within it, for any number of additions,
\* removals, role changes, failures and deletions, as long as handlers do not overlap.
THEOREM CapacityAlwaysKept == MCSpec => []CapacityKept
<1>1. MCInit => IInv /\ InTurn
  BY InitIInv, InitInTurn DEF MCInit
<1>2. IInv /\ [MCNext]_mcVars => IInv'
  BY MCStepsAreHandlers, NextIInv
<1>3. IInv /\ InTurn => CapacityKept
  <2> SUFFICES ASSUME IInv, InTurn, ~overlapped, Cardinality(Capacity) = 1, NEW max \in Capacity
               PROVE  Cardinality(With(Joined)) <= max
    BY DEF CapacityKept
  <2>1. Capacity = {max}
    BY FS_Singleton
  <2>2. PICK h : Room(h) /\ Reserved(h) \in Nat
    <3>1. CASE AllIdle
      BY <3>1 DEF InTurn, Knows, Reserved, Idle
    <3>2. CASE ~AllIdle
      <4>1. PICK r \in Request : req[r] # Idle
        BY <3>2 DEF AllIdle
      <4>2. Room(req[r]) /\ Sound(member, req[r])
        BY <4>1 DEF InTurn, Knows, IInv
      <4>3. Reserved(req[r]) \in Nat
        <5>1. req[r].at \in {"addNext", "create", "rejoin"} => Cardinality(req[r].todo) \in Nat
          BY <4>2, Counting DEF Sound
        <5>2. QED
          BY <5>1 DEF Reserved
      <4>4. QED
        BY <4>2, <4>3
    <3>3. QED
      BY <3>1, <3>2
  <2>3. Cardinality(With(Joined)) + Reserved(h) <= max /\ Cardinality(With(Joined)) \in Nat
    BY <2>1, <2>2, WithCounts DEF Room
  <2>4. QED
    BY <2>2, <2>3
<1>4. QED
  BY <1>1, <1>2, <1>3, MCNextInTurn, PTL DEF MCSpec

-----------------------------------------------------------------------------
(* Whose group it is, however handlers overlap. *)

\* A handler that neither makes nor deletes the group leaves it its owner.
LEMMA OwnedStays ==
    ASSUME IInv, LiveGroupIsOwned, NEW r \in Request, NEW h, req' = [req EXCEPT ![r] = h],
           req[r].at \notin {"createOwner", "findDeleted", "softDelete"},
           GroupFound' => GroupFound, failures' = 0 => failures = 0,
           \A u \in Owners : Live(u) => u \in Owners' /\ Live(u)'
    PROVE  LiveGroupIsOwned'
<1> SUFFICES ASSUME failures' = 0, GroupFound'
             PROVE  \/ \E u \in Owners' : Live(u)'
                    \/ \E q \in Request : req'[q].at \in {"createOwner", "findDeleted", "softDelete"}
  BY DEF LiveGroupIsOwned, Doing
<1>1. \A q \in Request : q # r => req'[q] = req[q]
  BY DEF IInv, Documents
<1>2. CASE \E u \in Owners : Live(u)
  BY <1>2
<1>3. CASE Doing({"createOwner", "findDeleted", "softDelete"})
  BY <1>1, <1>3 DEF Doing
<1>4. QED
  BY <1>2, <1>3 DEF LiveGroupIsOwned

\* The handlers of a group that is there leave its owner alone.
LEMMA ContinuesOwned ==
    ASSUME IInv, LiveGroupIsOwned, NEW r \in Request, Continues(r)
    PROVE  LiveGroupIsOwned'
<1> USE DEF At, Go, Respond, Adding
<1>1. /\ group \in Group /\ member \in [User -> Document] /\ Sound(member, req[r])
      /\ \A u \in Owners : member[u].exists /\ member[u].role = "owner"
  BY DEF IInv, Documents, Owners
<1>2. CASE CreateOwner(r)
  <2>1. req[r].by \in User /\ member'[req[r].by] = Membership("owner", "active")
    BY <1>1, <1>2 DEF CreateOwner, Sound
  <2>2. PICK u \in User : u = req[r].by
    BY <2>1
  <2>3. u \in Owners' /\ Live(u)'
    BY <2>1, <2>2 DEF Owners, Live, Membership
  <2>4. QED
    BY <2>3 DEF LiveGroupIsOwned
<1>3. CASE DeleteMembers(r)
  <2>1. req'[r].at = "findDeleted"
    BY <1>3 DEF DeleteMembers, IInv, Documents
  <2>2. QED
    BY <2>1 DEF LiveGroupIsOwned, Doing
<1>4. CASE FindDeleted(r)
  <2>1. GroupFound' => req'[r].at = "softDelete"
    BY <1>4 DEF FindDeleted, GroupFound, IInv, Documents
  <2>2. QED
    BY <2>1 DEF LiveGroupIsOwned, Doing
<1>5. CASE SoftDelete(r)
  BY <1>1, <1>5 DEF SoftDelete, LiveGroupIsOwned, GroupFound, Group
<1>6. CASE \/ UpdateGroup(r) \/ MayAdd(r) \/ CountCapacity(r) \/ AllAdded(r)
           \/ (\E v \in User : FindExisting(r, v))
           \/ FindRemoved(r) \/ FindGroup(r) \/ FindPromoted(r) \/ CountMembers(r) \/ SaveTotal(r)
  <2>1. /\ req[r].at \notin {"createOwner", "findDeleted", "softDelete"}
        /\ \E h : req' = [req EXCEPT ![r] = h]
        /\ member' = member /\ failures' = failures
    BY <1>6 DEF UpdateGroup, MayAdd, CountCapacity, AllAdded, FindExisting, FindRemoved, FindGroup,
       FindPromoted, CountMembers, SaveTotal
  <2>2. GroupFound' => GroupFound
    BY <1>1, <1>6 DEF UpdateGroup, MayAdd, CountCapacity, AllAdded, FindExisting, FindRemoved,
       FindGroup, FindPromoted, CountMembers, SaveTotal, GroupFound, Group
  <2>3. \A u \in Owners : Live(u) => u \in Owners' /\ Live(u)'
    BY <2>1 DEF Owners, Live
  <2>4. QED
    BY <2>1, <2>2, <2>3, OwnedStays
<1>7. CASE Rejoin(r) \/ CreateMember(r) \/ SaveLeft(r) \/ SaveRole(r)
  <2>1. /\ req[r].at \notin {"createOwner", "findDeleted", "softDelete"}
        /\ \E h : req' = [req EXCEPT ![r] = h]
        /\ group' = group /\ failures' = failures
    BY <1>7 DEF Rejoin, CreateMember, SaveLeft, SaveRole
  <2>2. \A u \in Owners : member'[u] = member[u]
    <3>1. \A u \in Owners : u = req[r].who => ~NotOwner(member, u) /\ member[u].exists
      BY <1>1 DEF NotOwner
    <3>2. QED
      BY <1>1, <1>7, <3>1 DEF Rejoin, CreateMember, SaveLeft, SaveRole, Sound, Owners
  <2>3. \A u \in Owners : Live(u) => u \in Owners' /\ Live(u)'
    BY <2>2 DEF Owners, Live
  <2>4. QED
    BY <2>1, <2>3, OwnedStays DEF GroupFound
<1>8. QED
  BY <1>2, <1>3, <1>4, <1>5, <1>6, <1>7 DEF Continues

LEMMA NextOwned == IInv /\ LiveGroupIsOwned /\ [Next]_vars => LiveGroupIsOwned'
<1> SUFFICES ASSUME IInv, LiveGroupIsOwned, [Next]_vars PROVE LiveGroupIsOwned'
  OBVIOUS
<1>1. CASE UNCHANGED vars
  BY <1>1 DEF vars, LiveGroupIsOwned, GroupFound, Owners, Live, Doing
<1>2. ASSUME NEW r \in Request, Begins(r) PROVE LiveGroupIsOwned'
  <2>1. CASE \E u \in User, max \in Capacity, approval \in Approval : CreateGroup(r, u, max, approval)
    <3>1. req'[r].at = "createOwner"
      BY <2>1 DEF CreateGroup, Begin, IInv, Documents
    <3>2. QED
      BY <3>1 DEF LiveGroupIsOwned, Doing
  <2>2. CASE ~\E u \in User, max \in Capacity, approval \in Approval : CreateGroup(r, u, max, approval)
    <3>1. PICK h : /\ req[r] = Idle /\ UNCHANGED <<group, member, failures>>
                   /\ req' = [req EXCEPT ![r] = h]
      BY <1>2, <2>2 DEF Begins, Begin, BeginUpdate, BeginDelete, BeginRemove, BeginSetRole,
         BeginLeave, BeginAdd
    <3>2. \A u \in Owners : Live(u) => u \in Owners' /\ Live(u)'
      BY <3>1 DEF Owners, Live
    <3>3. req[r].at \notin {"createOwner", "findDeleted", "softDelete"}
      BY <3>1 DEF Idle
    <3>4. (GroupFound' => GroupFound) /\ (failures' = 0 => failures = 0)
      BY <3>1 DEF GroupFound
    <3>5. QED
      BY <3>1, <3>2, <3>3, <3>4, OwnedStays
  <2>3. QED
    BY <2>1, <2>2
<1>3. ASSUME NEW r \in Request, Fail(r) PROVE LiveGroupIsOwned'
  <2>1. failures' # 0
    BY <1>3 DEF Fail, IInv, Documents
  <2>2. QED
    BY <2>1 DEF LiveGroupIsOwned
<1>4. QED
  BY <1>1, <1>2, <1>3, ContinuesOwned DEF Next

\* However handlers overlap, a live group has an owner; and if they do not overlap,
\* whatever they do leaves the stored count right and nobody in a deleted group.
THEOREM SettledAlwaysWhenIdle == MCSpec => []SettledWhenIdle
<1>1. MCInit => IInv /\ InTurn /\ LiveGroupIsOwned
  BY InitIInv, InitInTurn DEF MCInit, Init, LiveGroupIsOwned, GroupFound
<1>2. IInv /\ [MCNext]_mcVars => IInv'
  BY MCStepsAreHandlers, NextIInv
<1>3. IInv /\ LiveGroupIsOwned /\ [MCNext]_mcVars => LiveGroupIsOwned'
  BY MCStepsAreHandlers, NextOwned
<1>4. InTurn /\ LiveGroupIsOwned => SettledWhenIdle
  BY DEF InTurn, Knows, Alone, Idle, Settled, SettledWhenIdle
<1>5. QED
  BY <1>1, <1>2, <1>3, <1>4, MCNextInTurn, PTL DEF MCSpec

-----------------------------------------------------------------------------
(* The form that creates a group. *)

Submission == Form!Submission
Answers    == {"none", "sent", "served", "lost", "announced", "refused"}
Once(rows) == \A i, j \in DOMAIN rows : rows[i] = rows[j] => i = j
RowsOf(rows) == {rows[i] : i \in DOMAIN rows}
Succeeded  == {n \in Submission : flow[n] = "succeeded"}

FormTyped ==
    /\ form \in [open : BOOLEAN, filled : BOOLEAN, no : Nat \ {0}]
    /\ submitting \in Submission \cup {0}
    /\ flow \in [Submission -> {"none", "creating", "adding", "succeeded", "failed"}]
    /\ formOf \in [Submission -> Nat]
    /\ create \in [Submission -> Answers] /\ add \in [Submission -> Answers]
    /\ stored \in SUBSET Submission /\ joined \in SUBSET Submission
    /\ groups \in Seq(Submission)
    /\ listing.at = "served" => listing.rows \in Seq(Submission)
    /\ lists \in 0..MaxLists /\ losses \in 0..MaxLosses

\* A form is emptied for each that was closed, and for each that made its group.
FewForms == form.no <= MaxForms + Cardinality(Succeeded)

\* The form that is locked is the one of the submission it waits for.
Locked == submitting # 0 =>
             flow[submitting] \in {"creating", "adding"} /\ formOf[submitting] = form.no

\* How far a submission is, for the user, and on the server: a form that is on screen
\* again was left, emptied or refused.
Traced(n) ==
    /\ flow[n] = "none" <=> formOf[n] = 0
    /\ flow[n] = "none" <=> create[n] = "none"
    /\ flow[n] = "none" => add[n] = "none"
    /\ formOf[n] <= form.no
    /\ flow[n] \in {"creating", "adding"} => n = submitting \/ formOf[n] < form.no
    /\ flow[n] = "succeeded" => formOf[n] < form.no
    /\ n \in stored => create[n] # "none"
    /\ create[n] = "served" => n \in stored
    /\ add[n] # "none" => n \in stored
    /\ create[n] = "announced" => n \in stored
    /\ add[n] \in {"served", "announced"} => n \in stored \cap joined
    /\ flow[n] = "adding" => create[n] = "announced"
    /\ flow[n] = "succeeded" => create[n] = "announced" /\ add[n] = "announced"

\* Unless a load met the making of a group, list and server differ by answers only.
ListTraced ==
    /\ ~Form!Overlap
    /\ \A n \in Submission : /\ create[n] \notin {"lost", "refused"}
                             /\ n \in RowsOf(groups) <=> create[n] = "announced"
                             /\ n \in stored <=> create[n] \in {"served", "announced"}
    /\ Once(groups)
    /\ listing.at = "served" => Once(listing.rows) /\ RowsOf(listing.rows) = stored

FormInv ==
    /\ FormTyped /\ FewForms /\ Locked /\ Form!SecondGroupWasAsked
    /\ \A n \in Submission : Traced(n)
    /\ ~raced => ListTraced

LEMMA Submissions ==
    /\ 0 \notin Submission /\ IsFiniteSet(Submission) /\ Form!None = 0
    /\ Succeeded \in SUBSET Submission /\ Succeeded' \in SUBSET Submission
<1>1. IsFiniteSet(1..MaxSubmissions)
  BY FormAssumption, FS_Interval
<1>2. 0 \notin 1..MaxSubmissions
  BY FormAssumption
<1>3. QED
  BY <1>1, <1>2 DEF Submission, Form!Submission, Form!None, Succeeded

\* A load finds every group of the server, once, in some order.
LEMMA LoadsFindAll ==
    ASSUME NEW S \in SUBSET Submission, NEW rows \in Form!SetToSeqs(S)
    PROVE  rows \in Seq(Submission) /\ Once(rows) /\ RowsOf(rows) = S
<1> DEFINE k == Cardinality(S)
<1>1. IsFiniteSet(S) /\ k \in Nat /\ IsFiniteSet(1..k) /\ Cardinality(1..k) = k
  <2>1. IsFiniteSet(S) /\ k \in Nat
    BY Submissions, FS_Subset, FS_CardinalityType
  <2>2. QED
    BY <2>1, FS_Interval
<1> HIDE DEF k
<1>2. /\ rows \in [1..k -> S]
      /\ \A i, j \in 1..k : i # j => rows[i] # rows[j]
  BY DEF Form!SetToSeqs, k, Form!Cardinality, Cardinality, Form!IsFiniteSet, IsFiniteSet
<1>3. rows \in Injection(1..k, S)
  BY <1>2 DEF Injection, IsInjective
<1>4. rows \in Surjection(1..k, S)
  BY <1>1, <1>3, FS_Injection DEF k
<1>5. RowsOf(rows) = S
  BY <1>2, <1>4 DEF RowsOf, Surjection
<1>6. Once(rows)
  BY <1>2 DEF Once
<1>7. rows \in Seq(Submission)
  BY <1>1, <1>2
<1>8. QED
  BY <1>5, <1>6, <1>7

LEMMA InitFormInv == Form!ObservedInit => FormInv
<1> SUFFICES ASSUME Form!ObservedInit PROVE FormInv
  OBVIOUS
<1> USE DEF Form!ObservedInit, Form!Init, Form!None, Form!Free
<1>1. FormTyped
  BY FormAssumption DEF FormTyped, Answers, Submission
<1>2. FewForms
  <2>1. Cardinality(Succeeded) \in Nat
    BY Submissions, FS_Subset, FS_CardinalityType
  <2>2. QED
    BY <2>1, FormAssumption DEF FewForms
<1>3. Locked /\ Form!SecondGroupWasAsked
  BY DEF Locked, Form!SecondGroupWasAsked, Submission
<1>4. \A n \in Submission : Traced(n)
  BY DEF Traced, Submission
<1>5. ListTraced
  BY DEF ListTraced, Form!Overlap, Submission, RowsOf, Once
<1>6. QED
  BY <1>1, <1>2, <1>3, <1>4, <1>5 DEF FormInv

LEMMA FormStepTyped == FormTyped /\ Form!Next => FormTyped'
<1> SUFFICES ASSUME FormTyped, Form!Next PROVE FormTyped'
  OBVIOUS
<1> USE DEF FormTyped, Answers, Submission, Form!None, Form!Free, Form!Emptied, Form!End,
            Form!requests, Form!server
<1>1. CASE Form!Open \/ Form!Fill \/ Form!CloseForm
  <2>1. form' \in [open : BOOLEAN, filled : BOOLEAN, no : Nat \ {0}]
    <3>1. form' \in {[form EXCEPT !.open = TRUE], [form EXCEPT !.filled = TRUE],
                      [open |-> FALSE, filled |-> FALSE, no |-> form.no + 1]}
      BY <1>1 DEF Form!Open, Form!Fill, Form!CloseForm
    <3>2. [form EXCEPT !.open = TRUE] \in [open : BOOLEAN, filled : BOOLEAN, no : Nat \ {0}]
      OBVIOUS
    <3>3. [form EXCEPT !.filled = TRUE] \in [open : BOOLEAN, filled : BOOLEAN, no : Nat \ {0}]
      OBVIOUS
    <3>4. [open |-> FALSE, filled |-> FALSE, no |-> form.no + 1]
            \in [open : BOOLEAN, filled : BOOLEAN, no : Nat \ {0}]
      OBVIOUS
    <3>5. QED
      BY <3>1, <3>2, <3>3, <3>4
  <2>2. QED
    BY <1>1, <2>1 DEF Form!Open, Form!Fill, Form!CloseForm
<1>2. CASE Form!Return \/ Form!Reload
  <2>1. CASE Form!Return
    BY <2>1, FormAssumption DEF Form!Return
  <2>2. CASE Form!Reload
    <3>1. lists' \in 0..MaxLists /\ listing'.at = "sent"
      BY <2>2, FormAssumption DEF Form!Reload
    <3>2. QED
      BY <2>2, <3>1 DEF Form!Reload
  <2>3. QED
    BY <1>2, <2>1, <2>2
<1>3. ASSUME NEW n \in Submission, Form!Submit(n) PROVE FormTyped'
  BY <1>3 DEF Form!Submit
<1>4. ASSUME NEW n \in Submission, Form!Lose(n) PROVE FormTyped'
  <2>1. losses' \in 0..MaxLosses
    BY <1>4, FormAssumption DEF Form!Lose
  <2>2. create' \in [Submission -> Answers] /\ add' \in [Submission -> Answers]
    BY <1>4 DEF Form!Lose
  <2>3. QED
    BY <1>4, <2>1, <2>2 DEF Form!Lose
<1>5. ASSUME NEW n \in Submission, Form!ServeCreate(n) \/ Form!ServeAdd(n) PROVE FormTyped'
  BY <1>5 DEF Form!ServeCreate, Form!ServeAdd
<1>6. ASSUME NEW n \in Submission, Form!ReceiveCreate(n) PROVE FormTyped'
  <2>1. groups' \in Seq(Submission)
    BY <1>6 DEF Form!ReceiveCreate
  <2>2. /\ create' \in [Submission -> Answers] /\ add' \in [Submission -> Answers]
        /\ flow' \in [Submission -> {"none", "creating", "adding", "succeeded", "failed"}]
    BY <1>6 DEF Form!ReceiveCreate
  <2>3. QED
    BY <1>6, <2>1, <2>2 DEF Form!ReceiveCreate
<1>7. ASSUME NEW n \in Submission, Form!ReceiveAdd(n) PROVE FormTyped'
  <2>1. form' \in [open : BOOLEAN, filled : BOOLEAN, no : Nat \ {0}]
    <3>1. form' \in {form, [open |-> FALSE, filled |-> FALSE, no |-> form.no + 1]}
      BY <1>7 DEF Form!ReceiveAdd
    <3>2. [open |-> FALSE, filled |-> FALSE, no |-> form.no + 1]
            \in [open : BOOLEAN, filled : BOOLEAN, no : Nat \ {0}]
      OBVIOUS
    <3>3. QED
      BY <3>1, <3>2
  <2>2. /\ create' \in [Submission -> Answers] /\ add' \in [Submission -> Answers]
        /\ flow' \in [Submission -> {"none", "creating", "adding", "succeeded", "failed"}]
        /\ submitting' \in Submission \cup {0}
    BY <1>7 DEF Form!ReceiveAdd
  <2>3. QED
    BY <1>7, <2>1, <2>2 DEF Form!ReceiveAdd
<1>8. ASSUME NEW n \in Submission, Form!Reject(n) \/ Form!TimeOut(n) PROVE FormTyped'
  BY <1>8 DEF Form!Reject, Form!TimeOut
<1>9. CASE Form!ServeList
  <2>1. PICK rows \in Form!SetToSeqs(stored) : listing' = [at |-> "served", rows |-> rows]
    BY <1>9 DEF Form!ServeList
  <2>2. rows \in Seq(Submission)
    BY <2>1, LoadsFindAll
  <2>3. QED
    BY <1>9, <2>1, <2>2 DEF Form!ServeList
<1>10. CASE Form!ReceiveList
  BY <1>10 DEF Form!ReceiveList
<1>11. CASE Form!LoseList
  BY <1>11, FormAssumption DEF Form!LoseList
<1>12. QED
  BY <1>1, <1>2, <1>3, <1>4, <1>5, <1>6, <1>7, <1>8, <1>9, <1>10, <1>11 DEF Form!Next, Form!Answer

\* What is traced of a submission, and of the form that is locked.
LEMMA FormStepTraced ==
    ASSUME FormTyped, Locked, \A n \in Submission : Traced(n), Form!Next
    PROVE  Locked' /\ \A n \in Submission : Traced(n)'
<1> USE Submissions DEF FormTyped, Locked, Traced, Form!Free, Form!Emptied, Form!requests, Form!server
<1>1. form.no \in Nat \ {0}
  OBVIOUS
<1>2. CASE Form!Open \/ Form!Fill \/ Form!CloseForm \/ Form!Return \/ Form!Reload
  <2>1. /\ UNCHANGED <<flow, formOf, create, add, stored, joined>>
        /\ \/ form'.no = form.no /\ submitting' = submitting
           \/ form'.no = form.no + 1 /\ submitting' = 0
    BY <1>2 DEF Form!Open, Form!Fill, Form!CloseForm, Form!Return, Form!Reload
  <2>2. QED
    BY <1>1, <2>1
<1>3. ASSUME NEW n \in Submission, Form!Submit(n)
      PROVE  Locked' /\ \A k \in Submission : Traced(k)'
  <2>1. flow[n] = "none"
    BY <1>3 DEF Form!Submit, Submission, Form!Submission
  <2>2. QED
    BY <1>1, <1>3, <2>1 DEF Form!Submit
<1>4. ASSUME NEW n \in Submission, Form!Lose(n)
      PROVE  Locked' /\ \A k \in Submission : Traced(k)'
  BY <1>4 DEF Form!Lose
<1>5. ASSUME NEW n \in Submission, Form!ServeCreate(n) \/ Form!ServeAdd(n)
      PROVE  Locked' /\ \A k \in Submission : Traced(k)'
  BY <1>5 DEF Form!ServeCreate, Form!ServeAdd
<1>6. ASSUME NEW n \in Submission, Form!ReceiveCreate(n)
      PROVE  Locked' /\ \A k \in Submission : Traced(k)'
  BY <1>6 DEF Form!ReceiveCreate
<1>7. ASSUME NEW n \in Submission, Form!ReceiveAdd(n)
      PROVE  Locked' /\ \A k \in Submission : Traced(k)'
  BY <1>1, <1>7 DEF Form!ReceiveAdd, Form!End
<1>8. ASSUME NEW n \in Submission, Form!Reject(n) \/ Form!TimeOut(n)
      PROVE  Locked' /\ \A k \in Submission : Traced(k)'
  BY <1>8 DEF Form!Reject, Form!TimeOut, Form!End
<1>9. CASE Form!ServeList \/ Form!ReceiveList \/ Form!LoseList
  BY <1>9 DEF Form!ServeList, Form!ReceiveList, Form!LoseList
<1>10. QED
  BY <1>2, <1>3, <1>4, <1>5, <1>6, <1>7, <1>8, <1>9 DEF Form!Next, Form!Answer, Submission

\* A form is submitted again only after it failed.
LEMMA FormStepAsked ==
    ASSUME FormTyped, Locked, \A n \in Submission : Traced(n), Form!SecondGroupWasAsked, Form!Next
    PROVE  Form!SecondGroupWasAsked'
<1> USE DEF Form!SecondGroupWasAsked, FormTyped, Submission
<1>1. ASSUME NEW n \in Submission, Form!Submit(n) PROVE Form!SecondGroupWasAsked'
  <2>1. \A k \in Submission : formOf[k] = form.no => flow[k] = "failed"
    BY <1>1, Submissions DEF Traced, Form!Submit
  <2>2. flow[n] = "none"
    BY <1>1 DEF Form!Submit, Form!Submission
  <2>3. \A k \in Submission : k # n => formOf'[k] = formOf[k] /\ flow'[k] = flow[k]
    BY <1>1 DEF Form!Submit
  <2>4. formOf'[n] = form.no
    BY <1>1 DEF Form!Submit
  <2>5. QED
    BY <2>1, <2>3, <2>4
<1>2. CASE ~\E n \in Submission : Form!Submit(n)
  <2>1. formOf' = formOf /\ \A k \in Submission : flow[k] = "failed" => flow'[k] = "failed"
    BY <1>2 DEF Form!Next, Form!Answer, Form!Open, Form!Fill, Form!CloseForm, Form!Return, Form!Reload,
       Form!Lose, Form!ServeCreate, Form!ServeAdd, Form!ReceiveCreate, Form!ReceiveAdd, Form!End,
       Form!Reject, Form!TimeOut, Form!ServeList, Form!ReceiveList, Form!LoseList
  <2>2. QED
    BY <2>1
<1>3. QED
  BY <1>1, <1>2

\* A form is emptied when the user says so, or for a group that was made.
LEMMA FormStepCounted == FormTyped /\ FewForms /\ Form!Next => FewForms'
<1> SUFFICES ASSUME FormTyped, FewForms, Form!Next PROVE FewForms'
  OBVIOUS
<1>1. /\ IsFiniteSet(Succeeded) /\ IsFiniteSet(Succeeded')
      /\ Cardinality(Succeeded) \in Nat /\ Cardinality(Succeeded') \in Nat
  BY Submissions, FS_Subset, FS_CardinalityType
<1>2. Succeeded \subseteq Succeeded'
  <2>1. ASSUME NEW n \in Submission, Form!Submit(n) PROVE Succeeded \subseteq Succeeded'
    <3>1. flow[n] = "none"
      BY <2>1 DEF Form!Submit, Submission, Form!Submission
    <3>2. QED
      BY <2>1, <3>1 DEF Form!Submit, Succeeded, FormTyped
  <2>2. CASE ~\E n \in Submission : Form!Submit(n)
    <3>1. \A k \in Submission : flow[k] = "succeeded" => flow'[k] = "succeeded"
      BY <2>2 DEF FormTyped, Submission, Form!Next, Form!Answer, Form!Open, Form!Fill,
         Form!CloseForm, Form!Return, Form!Reload, Form!Lose, Form!ServeCreate, Form!ServeAdd,
         Form!ReceiveCreate, Form!ReceiveAdd, Form!End, Form!Reject, Form!TimeOut, Form!ServeList,
         Form!ReceiveList, Form!LoseList
    <3>2. QED
      BY <3>1 DEF Succeeded
  <2>3. QED
    BY <2>1, <2>2
<1>3. Cardinality(Succeeded) <= Cardinality(Succeeded')
  BY <1>1, <1>2, FS_Subset
<1>4. form.no \in Nat /\ MaxForms \in Nat
  BY FormAssumption DEF FormTyped
<1>5. CASE form'.no = form.no \/ (form'.no = form.no + 1 /\ form.no < MaxForms)
  BY <1>1, <1>3, <1>4, <1>5 DEF FewForms
<1>6. ASSUME NEW n \in Submission, Form!ReceiveAdd(n), form'.no = form.no + 1 PROVE FewForms'
  <2>1. n \notin Succeeded /\ n \in Succeeded'
    BY <1>6 DEF Form!ReceiveAdd, Form!End, Succeeded, FormTyped
  <2>2. Cardinality(Succeeded) <= Cardinality(Succeeded') - 1
    <3>1. Succeeded \subseteq Succeeded' \ {n}
      BY <1>2, <2>1
    <3>2. IsFiniteSet(Succeeded' \ {n}) /\ Cardinality(Succeeded' \ {n}) = Cardinality(Succeeded') - 1
      BY <1>1, <2>1, FS_RemoveElement
    <3>3. QED
      BY <3>1, <3>2, FS_Subset
  <2>3. QED
    BY <1>1, <1>4, <1>6, <2>2 DEF FewForms
<1>7. \/ form'.no = form.no \/ (form'.no = form.no + 1 /\ form.no < MaxForms)
      \/ \E n \in Submission : Form!ReceiveAdd(n) /\ form'.no = form.no + 1
  BY DEF FormTyped, Submission, Form!Next, Form!Answer, Form!Open, Form!Fill,
     Form!CloseForm, Form!Return, Form!Reload, Form!Submit, Form!Lose, Form!ServeCreate, Form!ServeAdd,
     Form!ReceiveCreate, Form!ReceiveAdd, Form!Reject, Form!TimeOut, Form!ServeList,
     Form!ReceiveList, Form!LoseList, Form!Emptied
<1>8. QED
  BY <1>5, <1>6, <1>7

\* List and server stay together, while no load meets the making of a group.
LEMMA FormStepListed ==
    ASSUME FormTyped, \A n \in Submission : Traced(n), ListTraced, Form!Next, ~Form!Overlap',
           ~\E n \in Submission : create'[n] = "lost"
    PROVE  ListTraced'
<1> USE DEF FormTyped, Submission, ListTraced, Form!Free, Form!requests, Form!server
<1>1. CASE \/ Form!Open \/ Form!Fill \/ Form!CloseForm
           \/ \E n \in Submission : Form!TimeOut(n) \/ Form!ServeAdd(n) \/ Form!ReceiveAdd(n)
  <2>1. UNCHANGED <<create, groups, stored, listing>>
    BY <1>1 DEF Form!Open, Form!Fill, Form!CloseForm, Form!TimeOut, Form!ServeAdd, Form!ReceiveAdd
  <2>2. QED
    BY <2>1
<1>2. CASE Form!Return \/ Form!Reload
  BY <1>2 DEF Form!Return, Form!Reload
<1>3. ASSUME NEW n \in Submission, Form!Submit(n) PROVE ListTraced'
  <2>1. flow[n] = "none"
    BY <1>3 DEF Form!Submit, Form!Submission
  <2>2. QED
    BY <1>3, <2>1 DEF Form!Submit, Traced
<1>4. ASSUME NEW n \in Submission, Form!Lose(n) PROVE ListTraced'
  <2>1. UNCHANGED <<create, groups, stored, listing>>
    BY <1>4 DEF Form!Lose
  <2>2. QED
    BY <2>1
<1>5. ASSUME NEW n \in Submission, Form!ServeCreate(n) PROVE ListTraced'
  <2>1. listing = [at |-> "free"]
    BY <1>5 DEF Form!Overlap, Form!ServeCreate
  <2>2. QED
    BY <1>5, <2>1 DEF Form!ServeCreate
<1>6. ASSUME NEW n \in Submission, Form!ReceiveCreate(n) PROVE ListTraced'
  <2>1. /\ create[n] = "served" /\ n \notin RowsOf(groups) /\ listing = [at |-> "free"]
        /\ create' = [create EXCEPT ![n] = "announced"] /\ UNCHANGED <<stored, listing>>
        /\ groups' = Append(groups, n)
    BY <1>6 DEF Form!ReceiveCreate, Form!Overlap
  <2>2. RowsOf(groups') = RowsOf(groups) \cup {n} /\ Once(groups')
    <3>1. /\ DOMAIN groups = 1..Len(groups) /\ DOMAIN groups' = 1..(Len(groups) + 1)
          /\ Len(groups) \in Nat
          /\ \A i \in 1..(Len(groups) + 1) :
                groups'[i] = IF i = Len(groups) + 1 THEN n ELSE groups[i]
      BY <2>1
    <3>2. \A i \in DOMAIN groups : groups[i] # n
      <4>1. n \notin {groups[i] : i \in DOMAIN groups}
        BY <2>1 DEF RowsOf
      <4>2. QED
        BY <4>1
    <3>3. Once(groups')
      BY <3>1, <3>2 DEF Once
    <3>4. RowsOf(groups') = RowsOf(groups) \cup {n}
      <4>1. Len(groups) + 1 \in DOMAIN groups' /\ groups'[Len(groups) + 1] = n
        BY <3>1
      <4>2. \A i \in 1..Len(groups) : i \in DOMAIN groups' /\ groups'[i] = groups[i]
        BY <3>1
      <4>3. \A i \in DOMAIN groups' : groups'[i] = n \/ (i \in DOMAIN groups /\ groups'[i] = groups[i])
        BY <3>1
      <4>4. \A x \in RowsOf(groups') : x \in RowsOf(groups) \cup {n}
        <5>1. SUFFICES ASSUME NEW i \in DOMAIN groups'
                       PROVE  groups'[i] \in RowsOf(groups) \cup {n}
          BY DEF RowsOf
        <5>2. CASE groups'[i] = n
          BY <5>2
        <5>3. CASE i \in DOMAIN groups /\ groups'[i] = groups[i]
          BY <5>3 DEF RowsOf
        <5>4. QED
          BY <5>2, <5>3, <4>3
      <4>5. n \in RowsOf(groups')
        BY <4>1 DEF RowsOf
      <4>6. \A x \in RowsOf(groups) : x \in RowsOf(groups')
        <5>1. SUFFICES ASSUME NEW i \in DOMAIN groups PROVE groups[i] \in RowsOf(groups')
          BY DEF RowsOf
        <5>2. QED
          BY <4>2, <3>1 DEF RowsOf
      <4>7. QED
        BY <4>4, <4>5, <4>6
    <3>5. QED
      BY <3>3, <3>4
  <2>3. QED
    BY <2>1, <2>2
<1>7. ASSUME NEW n \in Submission, Form!Reject(n) PROVE ListTraced'
  <2>1. UNCHANGED <<create, groups, stored, listing>>
    BY <1>7 DEF Form!Reject
  <2>2. QED
    BY <2>1
<1>8. CASE Form!ServeList
  <2>1. PICK rows \in Form!SetToSeqs(stored) : listing' = [at |-> "served", rows |-> rows]
    BY <1>8 DEF Form!ServeList
  <2>2. Once(rows) /\ RowsOf(rows) = stored
    BY <2>1, LoadsFindAll
  <2>3. QED
    BY <1>8, <2>1, <2>2 DEF Form!ServeList
<1>9. CASE Form!ReceiveList
  <2>1. \A n \in Submission : create[n] \notin {"sent", "served"}
    BY <1>9 DEF Form!ReceiveList, Form!Overlap
  <2>2. QED
    BY <1>9, <2>1 DEF Form!ReceiveList
<1>10. CASE Form!LoseList
  BY <1>10 DEF Form!LoseList
<1>11. QED
  BY <1>1, <1>2, <1>3, <1>4, <1>5, <1>6, <1>7, <1>8, <1>9, <1>10 DEF Form!Next, Form!Answer

LEMMA NextFormInv == FormInv /\ Form!ObservedNext => FormInv'
<1> SUFFICES ASSUME FormInv, Form!ObservedNext PROVE FormInv'
  OBVIOUS
<1>1. /\ FormTyped' /\ FewForms' /\ Locked' /\ Form!SecondGroupWasAsked'
      /\ \A n \in Submission : Traced(n)'
  BY FormStepTyped, FormStepTraced, FormStepAsked, FormStepCounted DEF FormInv, Form!ObservedNext
<1>2. ASSUME ~raced' PROVE ListTraced'
  <2>1. /\ Form!Next /\ ~raced /\ ~Form!Overlap'
        /\ ~\E n \in Submission : create'[n] = "lost"
    BY <1>2 DEF Form!ObservedNext, Submission
  <2>2. QED
    BY <2>1, FormStepListed DEF FormInv
<1>3. QED
  BY <1>1, <1>2 DEF FormInv, Submission

\* For any number of submissions, forms, loads and losses: nobody makes a second group
\* of a form unless an error was shown for the first; what is announced is so, and a
\* group without its members is still being made or had its error shown; and the list
\* shows the groups there are, unless a load met the making of one.
THEOREM FormAlwaysHonest == MCSpec => []FormIsHonest
<1>1. MCInit => FormInv
  BY InitFormInv DEF MCInit
<1>2. FormInv /\ [MCNext]_mcVars => FormInv'
  <2> SUFFICES ASSUME FormInv, UNCHANGED formVars PROVE FormInv'
    BY NextFormInv DEF MCNext, GroupStep, FormStep, mcVars
  <2> USE DEF formVars
  <2>1. FormTyped' /\ Locked' /\ Form!SecondGroupWasAsked'
    BY DEF FormInv, FormTyped, Locked, Form!SecondGroupWasAsked, Submission
  <2>2. FewForms'
    <3>1. Succeeded' = Succeeded
      BY DEF Succeeded, Submission
    <3>2. QED
      BY <3>1 DEF FormInv, FewForms
  <2>3. \A n \in Submission : Traced(n)'
    BY DEF FormInv, Traced
  <2>4. ~raced' => ListTraced'
    BY DEF FormInv, ListTraced, Form!Overlap, Form!Free, RowsOf, Once, Submission
  <2>5. QED
    BY <2>1, <2>2, <2>3, <2>4 DEF FormInv, Submission
<1>3. FormInv => FormIsHonest
  <2> SUFFICES ASSUME FormInv PROVE FormIsHonest
    OBVIOUS
  <2>1. form.no \in 1..(MaxForms + MaxSubmissions)
    <3>1. IsFiniteSet(Succeeded) /\ Cardinality(Succeeded) \in Nat
          /\ Cardinality(Succeeded) <= Cardinality(Submission)
      BY Submissions, FS_Subset, FS_CardinalityType
    <3>2. Cardinality(Submission) = MaxSubmissions
      BY FormAssumption, FS_Interval DEF Submission, Form!Submission
    <3>3. QED
      BY <3>1, <3>2, FormAssumption DEF FormInv, FormTyped, FewForms
  <2>2. Form!TypeOK
    BY <2>1 DEF FormInv, FormTyped, Locked, Form!TypeOK, Form!None, Submission
  <2>3. Form!OnlyWholeGroups
    BY DEF FormInv, FormTyped, Traced, Form!OnlyWholeGroups, Submission
  <2>4. Form!ListIsFaithful
    <3> SUFFICES ASSUME ~raced
                 PROVE  /\ Once(groups)
                        /\ (\A n \in Submission : create[n] \in {"none", "announced", "refused"})
                              => RowsOf(groups) = stored
      BY DEF Form!ListIsFaithful, Once, RowsOf, Submission
    <3>1. RowsOf(groups) \subseteq Submission /\ stored \subseteq Submission
      BY DEF FormInv, FormTyped, RowsOf
    <3>2. QED
      BY <3>1 DEF FormInv, ListTraced
  <2>5. QED
    BY <2>2, <2>3, <2>4 DEF FormInv, FormIsHonest
<1>4. QED
  BY <1>1, <1>2, <1>3, PTL DEF MCSpec

=============================================================================
