--------------------------- MODULE ChatInvitesProofs ---------------------------
(***************************************************************************)
(* Proofs about ChatInvites for any number of documents and of handlers in *)
(* flight: its type invariant, that nobody is connected against their      *)
(* will, and what holds as long as handlers do not overlap. Then about     *)
(* RateLimiter, for any processes, requests, ceilings and windows: who     *)
(* shares a ceiling, and who is refused. Then about InviteLists, for any   *)
(* peers: that a tab which was told of everything shows what there is.     *)
(***************************************************************************)
EXTENDS MCChatInvites, FiniteSetTheorems, TLAPS

Document == [sender : User, status : {"pending", "accepted", "rejected"}]

Documents ==
    /\ invite \in [Invite -> Document \cup {Absent}]
    /\ used \subseteq Invite
    /\ willing \in [Invite -> SUBSET User]
    /\ req = [r \in Request |-> req[r]]

\* Who wrote an invite's direction was willing, and stays on record; so the sender
\* a handler has seen is on record when the handler answers, even if the document
\* has been deleted or turned round meanwhile.
Sound(h, record) ==
    /\ h.at \in {"create", "reopen", "save"} => h.by \in User
    /\ h.at \in {"reopen", "save", "delete"} => h.id \in Invite
    /\ h.at = "save" => /\ h.status \in {"accepted", "rejected"}
                        /\ Other(h.by) \in record[h.id]

IInv ==
    /\ Documents
    /\ \A r \in Request : Sound(req[r], willing)
    /\ \A i \in Invite : Exists(i) => invite[i].sender \in willing[i]
    /\ ConsentOfBoth

\* Of the two users, the other one is all that is left.
LEMMA Pair == \A u \in User : Other(u) \in User /\ User = {u, Other(u)}
<1> SUFFICES ASSUME NEW u \in User PROVE Other(u) \in User /\ User = {u, Other(u)}
  OBVIOUS
<1>1. IsFiniteSet(User \ {u}) /\ Cardinality(User \ {u}) = 1
  BY PairAssumption, FS_RemoveElement
<1>2. PICK v : User \ {u} = {v}
  BY <1>1, FS_Singleton
<1>3. Other(u) = v
  BY <1>2 DEF Other
<1>4. QED
  BY <1>2, <1>3

\* No document exists and no handler has begun.
LEMMA InitIInv == Init => IInv
BY DEF Init, IInv, Documents, Sound, Exists, Absent, Idle, ConsentOfBoth

\* What one handler learns or forgets leaves the others sound, and so does adding
\* to the record.
LEMMA OthersStaySound ==
    ASSUME IInv, NEW r \in Request, NEW h, req' = [req EXCEPT ![r] = h], Sound(h, willing'),
           \A i \in Invite : willing[i] \subseteq willing'[i]
    PROVE  \A q \in Request : Sound(req'[q], willing')
<1> SUFFICES ASSUME NEW q \in Request PROVE Sound(req'[q], willing')
  OBVIOUS
<1>1. CASE q = r
  BY <1>1 DEF IInv, Documents
<1>2. CASE q # r
  <2>1. req'[q] = req[q] /\ Sound(req[q], willing)
    BY <1>2 DEF IInv, Documents
  <2>2. QED
    BY <2>1 DEF Sound
<1>3. QED
  BY <1>1, <1>2

\* The queries that begin a handler write nothing.
LEMMA BeginKeeps ==
    ASSUME IInv, NEW r \in Request, NEW h, req' = [req EXCEPT ![r] = h], Sound(h, willing),
           UNCHANGED <<invite, used, willing>>
    PROVE  IInv'
<1>1. \A q \in Request : Sound(req'[q], willing')
  BY OthersStaySound
<1>2. QED
  BY <1>1 DEF IInv, Documents, Exists, ConsentOfBoth

\* A handler that writes one document, with whoever it acts for on record.
LEMMA WriteKeeps ==
    ASSUME IInv, NEW r \in Request, req' = [req EXCEPT ![r] = Idle],
           NEW i \in Invite, NEW d \in Document \cup {Absent}, NEW W \in SUBSET User,
           invite' = [invite EXCEPT ![i] = d], willing' = [willing EXCEPT ![i] = W],
           used' \subseteq Invite, willing[i] \subseteq W,
           d # Absent => d.sender \in W,
           d.status = "accepted" => W = User
    PROVE  IInv'
<1>1. Sound(Idle, willing')
  BY DEF Sound, Idle
<1>2. \A j \in Invite : /\ invite'[j] = IF j = i THEN d ELSE invite[j]
                       /\ willing'[j] = IF j = i THEN W ELSE willing[j]
  BY DEF IInv, Documents
<1>3. \A q \in Request : Sound(req'[q], willing')
  BY <1>1, <1>2, OthersStaySound
<1>4. Documents'
  BY DEF IInv, Documents
<1>5. \A j \in Invite : Exists(j)' => invite'[j].sender \in willing'[j]
  BY <1>2 DEF IInv, Exists
<1>6. ConsentOfBoth'
  BY <1>2 DEF IInv, ConsentOfBoth
<1>7. QED
  BY <1>3, <1>4, <1>5, <1>6 DEF IInv

\* Every step of every handler keeps the invariant.
LEMMA NextIInv == IInv /\ [Next]_vars => IInv'
<1> SUFFICES ASSUME IInv, [Next]_vars PROVE IInv'
  OBVIOUS
<1>1. CASE UNCHANGED vars
  BY <1>1 DEF vars, IInv, Documents, Exists, ConsentOfBoth
<1>2. ASSUME NEW r \in Request, NEW u \in User, SendFoundNone(r, u) PROVE IInv'
  <2>1. Sound([at |-> "create", by |-> u], willing)
    BY DEF Sound
  <2>2. QED
    BY <1>2, <2>1, BeginKeeps DEF SendFoundNone, Begin
<1>3. ASSUME NEW r \in Request, NEW u \in User, NEW i \in Invite, SendFound(r, u, i) PROVE IInv'
  <2>1. Sound([at |-> "reopen", by |-> u, id |-> i, loaded |-> invite[i].sender], willing)
    BY DEF Sound
  <2>2. QED
    BY <1>3, <2>1, BeginKeeps DEF SendFound, Begin
<1>4. ASSUME NEW r \in Request, NEW u \in User, NEW i \in Invite,
             NEW verdict \in {"accepted", "rejected"}, Answer(r, u, i, verdict)
      PROVE  IInv'
  <2>1. Other(u) \in willing[i]
    BY <1>4 DEF Answer, IInv
  <2>2. Sound([at |-> "save", by |-> u, id |-> i, status |-> verdict], willing)
    BY <2>1 DEF Sound
  <2>3. QED
    BY <1>4, <2>2, BeginKeeps DEF Answer, Begin
<1>5. ASSUME NEW r \in Request, NEW u \in User, NEW i \in Invite, BeginCancel(r, u, i) PROVE IInv'
  <2>1. Sound([at |-> "delete", id |-> i], willing)
    BY DEF Sound
  <2>2. QED
    BY <1>5, <2>1, BeginKeeps DEF BeginCancel, Begin
<1>6. ASSUME NEW r \in Request, NEW i \in Invite, Create(r, i) PROVE IInv'
  <2> DEFINE d == [sender |-> req[r].by, status |-> "pending"]
             W == willing[i] \cup {req[r].by}
  <2>1. /\ req[r].by \in User /\ d \in Document /\ W \in SUBSET User
        /\ used' \subseteq Invite
    BY <1>6 DEF Create, IInv, Documents, Sound, Document
  <2>2. QED
    BY <1>6, <2>1, WriteKeeps DEF Create, Respond
<1>7. ASSUME NEW r \in Request, Reopen(r) PROVE IInv'
  <2> DEFINE i == req[r].id
             sender == IF req[r].loaded = req[r].by THEN invite[i].sender ELSE req[r].by
             d == [sender |-> sender, status |-> "pending"]
             W == willing[i] \cup {req[r].by}
  <2>1. i \in Invite /\ req[r].by \in User /\ W \in SUBSET User
    BY <1>7 DEF Reopen, IInv, Documents, Sound
  <2>2. CASE Exists(i)
    <3>1. sender \in W /\ d \in Document
      BY <2>1, <2>2 DEF IInv, Documents, Document
    <3>2. QED
      BY <1>7, <2>1, <2>2, <3>1, WriteKeeps DEF Reopen, Respond, IInv, Documents
  <2>3. CASE ~Exists(i)
    <3>1. Sound(Idle, willing)
      BY DEF Sound, Idle
    <3>2. QED
      BY <1>7, <2>3, <3>1, BeginKeeps DEF Reopen, Respond
  <2>4. QED
    BY <2>2, <2>3
<1>8. ASSUME NEW r \in Request, SaveAnswer(r) PROVE IInv'
  <2> DEFINE i == req[r].id
             u == req[r].by
             d == [invite[i] EXCEPT !.status = req[r].status]
             W == IF req[r].status = "accepted" THEN willing[i] \cup {u} ELSE willing[i]
  <2>1. /\ i \in Invite /\ u \in User /\ W \in SUBSET User
        /\ req[r].status \in {"accepted", "rejected"} /\ Other(u) \in willing[i]
    BY <1>8 DEF SaveAnswer, IInv, Documents, Sound
  <2>2. CASE Exists(i)
    <3>1. invite[i] \in Document /\ invite[i].sender \in willing[i]
      BY <2>1, <2>2 DEF Exists, IInv, Documents
    <3>2. d \in Document /\ d.sender \in W /\ d.status = req[r].status
      BY <2>1, <3>1 DEF Document
    <3>3. d.status = "accepted" => W = User
      BY <2>1, <3>2, Pair
    <3>4. invite' = [invite EXCEPT ![i] = d] /\ willing' = [willing EXCEPT ![i] = W]
      BY <1>8, <2>1, <2>2 DEF SaveAnswer, IInv, Documents
    <3>5. req' = [req EXCEPT ![r] = Idle] /\ used' \subseteq Invite /\ willing[i] \subseteq W
      BY <1>8 DEF SaveAnswer, Respond, IInv, Documents
    <3> HIDE DEF d, W
    <3>6. QED
      BY <2>1, <3>2, <3>3, <3>4, <3>5, WriteKeeps
  <2>3. CASE ~Exists(i)
    <3>1. Sound(Idle, willing)
      BY DEF Sound, Idle
    <3>2. QED
      BY <1>8, <2>3, <3>1, BeginKeeps DEF SaveAnswer, Respond
  <2>4. QED
    BY <2>2, <2>3
<1>9. ASSUME NEW r \in Request, Delete(r) PROVE IInv'
  <2> DEFINE i == req[r].id
  <2>1. i \in Invite
    BY <1>9 DEF Delete, IInv, Sound
  <2>2. willing[i] \in SUBSET User /\ willing' = [willing EXCEPT ![i] = willing[i]]
    BY <1>9, <2>1 DEF Delete, IInv, Documents
  <2>3. Absent.status # "accepted"
    BY DEF Absent
  <2>4. /\ req' = [req EXCEPT ![r] = Idle] /\ used' \subseteq Invite
        /\ invite' = [invite EXCEPT ![i] = Absent]
    BY <1>9 DEF Delete, Respond, IInv, Documents
  <2> HIDE DEF i
  <2>5. QED
    BY <2>1, <2>2, <2>3, <2>4, WriteKeeps
<1>10. QED
  BY <1>1, <1>2, <1>3, <1>4, <1>5, <1>6, <1>7, <1>8, <1>9 DEF Next

\* Every document stays in its domain, for any number of invites and handlers.
THEOREM TypeCorrect == Spec => []TypeOK
<1>1. IInv => TypeOK
  BY DEF IInv, Documents, Document, Absent, TypeOK
<1>2. QED
  BY <1>1, InitIInv, NextIInv, PTL DEF Spec

\* Each of two connected users has sent or accepted the invite that connects them,
\* however sends, answers, cancellations and re-sends overlap.
THEOREM ConsentAlways == Spec => []ConsentOfBoth
<1>1. IInv => ConsentOfBoth
  BY DEF IInv
<1>2. QED
  BY <1>1, InitIInv, NextIInv, PTL DEF Spec

-----------------------------------------------------------------------------
(* Handlers that do not overlap. *)

\* What a handler found when it loaded is still so when it is alone.
StillSo(h) ==
    /\ h.at = "create" => \A i \in Invite : ~Exists(i)
    /\ h.at = "reopen" => invite[h.id].status = "rejected"
    /\ h.at \in {"save", "delete"} => invite[h.id].status = "pending"

\* Until two handlers have been under way at once there is one at most, it knows
\* what it acts on, and there is one invite at most.
Orderly ==
    ~overlapped =>
        /\ ~Overlap
        /\ \A r \in Request : StillSo(req[r])
        /\ \A i, j \in Invite : Exists(i) /\ Exists(j) => i = j

\* Nothing exists and nobody has begun.
LEMMA InitOrderly == MCInit => Orderly
BY DEF MCInit, Init, Orderly, Overlap, StillSo, Exists, Idle

\* The others rest while an orderly handler is under way, before a step or after it.
LEMMA OthersRest ==
    ASSUME IInv, Orderly, ~overlapped', overlapped' = (overlapped \/ Overlap'),
           NEW r \in Request, NEW h, req' = [req EXCEPT ![r] = h],
           req[r] # Idle \/ h # Idle
    PROVE  /\ ~overlapped /\ ~Overlap'
           /\ \A q \in Request : q # r => req'[q] = Idle
           /\ req'[r] = h
<1>1. ~overlapped /\ ~Overlap' /\ ~Overlap
  BY DEF Orderly
<1>2. req'[r] = h /\ \A q \in Request : q # r => req'[q] = req[q]
  BY DEF IInv, Documents
<1>3. ASSUME NEW q \in Request, q # r PROVE req'[q] = Idle
  BY <1>1, <1>2, <1>3 DEF Overlap
<1>4. QED
  BY <1>1, <1>2, <1>3

\* A handler begins with what it has just found.
LEMMA BeginIsOrderly ==
    ASSUME IInv, Orderly, overlapped' = (overlapped \/ Overlap'),
           NEW r \in Request, NEW h, h # Idle, req' = [req EXCEPT ![r] = h],
           StillSo(h), UNCHANGED invite
    PROVE  Orderly'
<1> SUFFICES ASSUME ~overlapped' PROVE Orderly'
  BY DEF Orderly
<1>1. /\ ~overlapped /\ ~Overlap' /\ req'[r] = h
      /\ \A q \in Request : q # r => req'[q] = Idle
  BY OthersRest
<1>2. \A q \in Request : StillSo(req[q])' 
  BY <1>1 DEF StillSo, Exists, Idle
<1>3. QED
  BY <1>1, <1>2 DEF Orderly, Exists

\* A handler ends by writing what it found, or creates the only document.
LEMMA EndIsOrderly ==
    ASSUME IInv, Orderly, overlapped' = (overlapped \/ Overlap'),
           NEW r \in Request, req[r] # Idle, req' = [req EXCEPT ![r] = Idle],
           NEW i \in Invite, \A j \in Invite : j # i => invite'[j] = invite[j],
           \/ req[r].at = "create"
           \/ Exists(i)' => Exists(i)
    PROVE  Orderly'
<1> SUFFICES ASSUME ~overlapped' PROVE Orderly'
  BY DEF Orderly
<1>1. /\ ~overlapped /\ ~Overlap' /\ req'[r] = Idle
      /\ \A q \in Request : q # r => req'[q] = Idle
  BY OthersRest
<1>2. \A q \in Request : StillSo(req[q])'
  BY <1>1 DEF StillSo, Idle
<1>3. \A j, k \in Invite : Exists(j)' /\ Exists(k)' => j = k
  BY <1>1 DEF Orderly, StillSo, Exists
<1>4. QED
  BY <1>1, <1>2, <1>3 DEF Orderly

\* Every step of every handler keeps the schedule orderly, or is where it ends.
LEMMA NextOrderly ==
    ASSUME IInv, Orderly, [Next]_vars, overlapped' = (overlapped \/ Overlap')
    PROVE  Orderly'
<1>0. CASE UNCHANGED vars
  BY <1>0 DEF vars, Orderly, Overlap, StillSo, Exists
<1>1. ASSUME NEW r \in Request, NEW u \in User, SendFoundNone(r, u) PROVE Orderly'
  <2> DEFINE h == [at |-> "create", by |-> u]
  <2>1. h # Idle /\ StillSo(h) /\ req' = [req EXCEPT ![r] = h] /\ UNCHANGED invite
    BY <1>1 DEF SendFoundNone, Begin, StillSo, Idle
  <2> HIDE DEF h
  <2>2. QED
    BY <2>1, BeginIsOrderly
<1>2. ASSUME NEW r \in Request, NEW u \in User, NEW i \in Invite, SendFound(r, u, i)
      PROVE  Orderly'
  <2> DEFINE h == [at |-> "reopen", by |-> u, id |-> i, loaded |-> invite[i].sender]
  <2>1. h # Idle /\ StillSo(h) /\ req' = [req EXCEPT ![r] = h] /\ UNCHANGED invite
    BY <1>2 DEF SendFound, Begin, StillSo, Idle
  <2> HIDE DEF h
  <2>2. QED
    BY <2>1, BeginIsOrderly
<1>3. ASSUME NEW r \in Request, NEW u \in User, NEW i \in Invite,
             NEW verdict \in {"accepted", "rejected"}, Answer(r, u, i, verdict)
      PROVE  Orderly'
  <2> DEFINE h == [at |-> "save", by |-> u, id |-> i, status |-> verdict]
  <2>1. h # Idle /\ StillSo(h) /\ req' = [req EXCEPT ![r] = h] /\ UNCHANGED invite
    BY <1>3 DEF Answer, Begin, StillSo, Idle
  <2> HIDE DEF h
  <2>2. QED
    BY <2>1, BeginIsOrderly
<1>4. ASSUME NEW r \in Request, NEW u \in User, NEW i \in Invite, BeginCancel(r, u, i)
      PROVE  Orderly'
  <2> DEFINE h == [at |-> "delete", id |-> i]
  <2>1. h # Idle /\ StillSo(h) /\ req' = [req EXCEPT ![r] = h] /\ UNCHANGED invite
    BY <1>4 DEF BeginCancel, Begin, StillSo, Idle
  <2> HIDE DEF h
  <2>2. QED
    BY <2>1, BeginIsOrderly
<1>5. ASSUME NEW r \in Request, NEW i \in Invite, Create(r, i) PROVE Orderly'
  <2>1. req[r] # Idle /\ req' = [req EXCEPT ![r] = Idle] /\ req[r].at = "create"
    BY <1>5 DEF Create, Respond, Idle
  <2>2. \A j \in Invite : j # i => invite'[j] = invite[j]
    BY <1>5 DEF Create, IInv, Documents
  <2>3. QED
    BY <2>1, <2>2, EndIsOrderly
<1>6. ASSUME NEW r \in Request, Reopen(r) \/ SaveAnswer(r) \/ Delete(r) PROVE Orderly'
  <2>0. req[r] # Idle /\ req' = [req EXCEPT ![r] = Idle] /\ req[r].id \in Invite
    BY <1>6 DEF Reopen, SaveAnswer, Delete, Respond, Idle, IInv, Sound
  <2>1. PICK i \in Invite : i = req[r].id
    BY <2>0
  <2>2. \A j \in Invite : j # i => invite'[j] = invite[j]
    BY <1>6, <2>1 DEF Reopen, SaveAnswer, Delete, IInv, Documents
  <2>3. CASE Reopen(r)
    BY <2>0, <2>1, <2>2, <2>3, EndIsOrderly DEF Reopen, Exists
  <2>4. CASE SaveAnswer(r)
    BY <2>0, <2>1, <2>2, <2>4, EndIsOrderly DEF SaveAnswer, Exists
  <2>5. CASE Delete(r)
    <3>1. ~Exists(i)'
      BY <2>1, <2>5 DEF Delete, Exists, IInv, Documents
    <3>2. QED
      BY <2>0, <2>1, <2>2, <3>1, EndIsOrderly
  <2>6. QED
    BY <1>6, <2>3, <2>4, <2>5
<1>7. QED
  BY <1>0, <1>1, <1>2, <1>3, <1>4, <1>5, <1>6 DEF Next

\* The instance that is explored takes steps of the handlers, or leaves them alone.
LEMMA MCStepsAreHandlers ==
    ASSUME [MCNext]_mcVars
    PROVE  /\ [Next]_vars
           /\ overlapped' = (overlapped \/ Overlap') \/ UNCHANGED inviteVars
BY DEF MCNext, InviteStep, ListStep, LimitStep, mcVars, inviteVars

LEMMA MCNextOrderly == IInv /\ Orderly /\ [MCNext]_mcVars => Orderly'
<1> SUFFICES ASSUME IInv, Orderly, [MCNext]_mcVars PROVE Orderly'
  OBVIOUS
<1>1. CASE UNCHANGED inviteVars
  BY <1>1 DEF inviteVars, vars, Orderly, Overlap, StillSo, Exists
<1>2. QED
  BY <1>1, MCStepsAreHandlers, NextOrderly

\* As long as handlers do not overlap, there is one invite at most between two
\* users, for any number of sends, answers and cancellations.
THEOREM OneInviteAlways == MCSpec => []OneInviteUnlessRaced
<1>1. Orderly => OneInviteUnlessRaced
  <2> SUFFICES ASSUME Orderly, ~overlapped PROVE AtMostOneInvite
    BY DEF OneInviteUnlessRaced
  <2> DEFINE E == {i \in Invite : Exists(i)}
  <2>1. CASE E = {}
    BY <2>1, FS_EmptySet DEF AtMostOneInvite
  <2>2. CASE E # {}
    <3>1. PICK i \in E : E = {i}
      BY <2>2 DEF Orderly
    <3>2. Cardinality(E) = 1
      BY <3>1, FS_Singleton
    <3>3. QED
      BY <3>2 DEF AtMostOneInvite
  <2>3. QED
    BY <2>1, <2>2
<1>2. MCInit => IInv
  BY InitIInv DEF MCInit
<1>3. IInv /\ [MCNext]_mcVars => IInv'
  BY MCStepsAreHandlers, NextIInv
<1>4. QED
  BY <1>1, <1>2, <1>3, InitOrderly, MCNextOrderly, PTL DEF MCSpec

\* An accepted invite stays as it is as long as handlers do not overlap.
THEOREM AcceptedStaysFinal == MCSpec => AcceptedIsFinal
<1>1. MCInit => IInv
  BY InitIInv DEF MCInit
<1>2. IInv /\ [MCNext]_mcVars => IInv'
  BY MCStepsAreHandlers, NextIInv
<1>3. IInv /\ Orderly /\ [MCNext]_mcVars
        => [\A i \in Invite : ~overlapped' /\ invite[i].status = "accepted"
                => invite'[i] = invite[i]]_inviteVars
  <2> SUFFICES ASSUME IInv, Orderly, [MCNext]_mcVars, ~UNCHANGED inviteVars,
                      NEW i \in Invite, ~overlapped', invite[i].status = "accepted"
               PROVE  invite'[i] = invite[i]
    OBVIOUS
  <2>1. Next /\ ~overlapped
    BY MCStepsAreHandlers DEF inviteVars, vars, MCNext, InviteStep, ListStep, LimitStep, mcVars
  <2>2. \A r \in Request : StillSo(req[r])
    BY <2>1 DEF Orderly
  <2>3. Exists(i)
    BY DEF Exists, Absent
  <2>4. ASSUME NEW r \in Request, NEW j \in Invite, Create(r, j) PROVE invite'[i] = invite[i]
    BY <2>2, <2>3, <2>4 DEF Create, StillSo
  <2>5. ASSUME NEW r \in Request, Reopen(r) \/ SaveAnswer(r) \/ Delete(r)
        PROVE  invite'[i] = invite[i]
    <3>1. req[r].id # i
      BY <2>2, <2>5 DEF Reopen, SaveAnswer, Delete, StillSo
    <3>2. QED
      BY <2>5, <3>1 DEF Reopen, SaveAnswer, Delete, IInv, Documents
  <2>6. QED
    BY <2>1, <2>4, <2>5 DEF Next, SendFoundNone, SendFound, Answer, BeginCancel
<1>4. QED
  BY <1>1, <1>2, <1>3, InitOrderly, MCNextOrderly, PTL DEF MCSpec, AcceptedIsFinal

-----------------------------------------------------------------------------
(* The rate limiters. *)

A == "authLimiter"

\* What a request that is being counted has to pass, and has been counted in; only
\* such a counter can be over since.
CountingForm ==
    {h \in [at : {"counting"}, i : Instance, todo : Seq(Limiter),
            skip : SUBSET Limits!Counter, late : SUBSET Limits!Counter] : h.late \subseteq h.skip}

Distinct(todo) == \A m, n \in 1..Len(todo) : todo[m] = todo[n] => m = n

InForm(r) ==
    \/ limited[r] = Limits!Idle
    \/ limited[r] \in CountingForm /\ Distinct(limited[r].todo)
    \/ limited[r] \in [at : {"429"}, i : Instance, by : Limiter, own : Int]
    \/ limited[r] \in [at : {"500"}, i : Instance]

LimitsTyped ==
    /\ store \in [Instance -> {"unset", "memory", "redis"}]
    /\ link \in [Instance -> {"down", "up", "gone"}]
    /\ counter \in [Limits!Counter -> [hits : Int, left : Nat]]
    /\ limited = [r \in Request |-> limited[r]]
    /\ \A r \in Request : InForm(r)
    /\ late \in [Limits!Counter -> Nat]
    /\ passed \in [Limits!Counter -> [Limiter -> Int]]
    /\ own \in [Limiter -> Int]
    /\ arrived \in Nat

\* A process that counts in memory never had Redis, and serves only once it has booted.
Booted ==
    /\ \A i \in Instance : store[i] = "memory" => link[i] = "gone"
    /\ \A r \in Request : limited[r].at # "idle" => store[limited[r].i] # "unset"

Counting(r) == limited[r].at = "counting"

\* The requests that a success would be taken back for; those whose hit is in the
\* window a counter is in; and those whose hit is not.
Succeeding == {r \in Request : Counting(r) /\ limited[r].skip # {}}
Held(c)    == {r \in Succeeding : c \in limited[r].skip \ limited[r].late}
Adrift(c)  == Succeeding \ Held(c)

\* The requests that have yet to pass a limiter.
Awaiting(l) ==
    {r \in Request : Counting(r) /\ \E n \in 1..Len(limited[r].todo) : limited[r].todo[n] = l}

\* Whatever a counter let through it has counted, or a late decrement has taken it
\* back; a hit that is shared by two limiters counts for both.
PassedCounted(c) ==
    /\ counter[c].left # 0 => \E l \in Limiter : counter[c].left <= Window[l]
    /\ c \notin Limits!Shared => counter[c].hits >= 0
    /\ \A l \in Limiter :
          /\ passed[c][l] <= Ceiling[l] + late[c]
          /\ passed[c][l] + (IF l = A THEN 0 ELSE passed[c][A]) <= counter[c].hits + late[c]
    /\ Cardinality(Held(c)) <= passed[c][A]

\* A limiter has counted at least what its counter in memory shows, and at most the
\* requests that have reached it.
OwnCounted ==
    /\ \A l \in Limiter : 0 <= own[l] /\ own[l] + Cardinality(Awaiting(l)) <= arrived
    /\ Cardinality(Succeeding) <= own[A]
    /\ \A i \in Instance :
          /\ counter[<<i, A>>].hits + Cardinality(Adrift(<<i, A>>)) <= own[A]
          /\ \A l \in Limiter \ {A} : counter[<<i, l>>].hits <= own[l]
    /\ Limits!RefusedForOwnInMemory

\* Sets of requests are finite; they count less with one taken out of them, and at
\* most one more with one put in.
LEMMA RequestSets ==
    ASSUME NEW S \in SUBSET Request, NEW T \in SUBSET Request
    PROVE  /\ Cardinality(S) \in Nat /\ Cardinality(T) \in Nat
           /\ T \subseteq S => Cardinality(T) <= Cardinality(S)
           /\ \A r \in S : T \subseteq S \ {r} => Cardinality(T) <= Cardinality(S) - 1
           /\ \A r \in Request : T \subseteq S \cup {r} => Cardinality(T) <= Cardinality(S) + 1
<1>1. IsFiniteSet(S) /\ IsFiniteSet(T)
  BY FS_Subset, ProcessAssumption
<1>2. Cardinality(S) \in Nat /\ Cardinality(T) \in Nat
  BY <1>1, FS_CardinalityType
<1>3. ASSUME T \subseteq S PROVE Cardinality(T) <= Cardinality(S)
  BY <1>1, <1>3, FS_Subset
<1>4. ASSUME NEW r \in S, T \subseteq S \ {r} PROVE Cardinality(T) <= Cardinality(S) - 1
  <2>1. IsFiniteSet(S \ {r}) /\ Cardinality(S \ {r}) = Cardinality(S) - 1
    BY <1>1, FS_RemoveElement
  <2>2. Cardinality(T) <= Cardinality(S \ {r})
    BY <1>4, <2>1, FS_Subset
  <2>3. QED
    BY <2>1, <2>2
<1>5. ASSUME NEW r \in Request, T \subseteq S \cup {r} PROVE Cardinality(T) <= Cardinality(S) + 1
  <2>1. IsFiniteSet(S \cup {r}) /\ Cardinality(S \cup {r}) \in Nat
        /\ Cardinality(S \cup {r}) <= Cardinality(S) + 1
    <3>1. /\ IsFiniteSet(S \cup {r})
          /\ Cardinality(S \cup {r}) = IF r \in S THEN Cardinality(S) ELSE Cardinality(S) + 1
      BY <1>1, FS_AddElement
    <3>2. QED
      BY <1>2, <3>1
  <2>2. Cardinality(T) <= Cardinality(S \cup {r})
    BY <1>5, <2>1, FS_Subset
  <2>3. QED
    BY <1>2, <2>1, <2>2
<1>6. QED
  BY <1>2, <1>3, <1>4, <1>5

\* A request that is being counted is one.
LEMMA CountingForms ==
    ASSUME LimitsTyped, NEW r \in Request
    PROVE  /\ limited[r].at = "counting" =>
                 limited[r] \in CountingForm /\ Distinct(limited[r].todo)
           /\ limited[r].at = "429" =>
                 limited[r] \in [at : {"429"}, i : Instance, by : Limiter, own : Int]
           /\ limited[r].at = "500" => limited[r] \in [at : {"500"}, i : Instance]
           /\ limited[r] # Limits!Idle => limited[r].at # "idle" /\ limited[r].i \in Instance
BY DEF LimitsTyped, InForm, CountingForm, Limits!Idle

\* The limiters that are ahead of a request.
LEMMA TailIsDistinct ==
    ASSUME NEW todo \in Seq(Limiter), Distinct(todo), todo # << >>
    PROVE  /\ Head(todo) \in Limiter /\ Tail(todo) \in Seq(Limiter) /\ Distinct(Tail(todo))
           /\ \E n \in 1..Len(todo) : todo[n] = Head(todo)
           /\ \A l \in Limiter : (\E n \in 1..Len(Tail(todo)) : Tail(todo)[n] = l)
                  => l # Head(todo) /\ \E n \in 1..Len(todo) : todo[n] = l
<1>1. /\ Head(todo) \in Limiter /\ Tail(todo) \in Seq(Limiter) /\ Len(todo) \in Nat /\ Len(todo) # 0
      /\ Head(todo) = todo[1] /\ Len(Tail(todo)) = Len(todo) - 1
      /\ \A n \in 1..Len(Tail(todo)) : Tail(todo)[n] = todo[n + 1] /\ n + 1 \in 1..Len(todo)
  OBVIOUS
<1>2. Distinct(Tail(todo))
  BY <1>1 DEF Distinct
<1>3. QED
  BY <1>1, <1>2 DEF Distinct

\* What counting a request does: its next limiter has one more hit on the counter of
\* its process, or on the one in Redis, ...
Counted(r, l, c) ==
    /\ Counting(r) /\ limited[r].todo # << >> /\ l = Head(limited[r].todo)
    /\ c \in Limits!Shared \cup {<<limited[r].i, l>>}
    /\ c \in Limits!Shared => store[limited[r].i] = "redis"
    /\ counter' = [counter EXCEPT ![c] = Limits!Hit(counter[c], l)]
    /\ own' = [own EXCEPT ![l] = own[l] + 1]
    /\ UNCHANGED <<store, link, late, arrived>>

\* ... and lets it through, or refuses it.
LetThrough(r, l, c) ==
    /\ counter[c].hits + 1 <= Ceiling[l]
    /\ passed' = [passed EXCEPT ![c] = [passed[c] EXCEPT ![l] = passed[c][l] + 1]]
    /\ limited' = [limited EXCEPT ![r] =
                     [limited[r] EXCEPT !.todo = Tail(limited[r].todo),
                                        !.skip = IF l = A THEN limited[r].skip \cup {c}
                                                          ELSE limited[r].skip]]

Refused(r, l, c) ==
    /\ ~(counter[c].hits + 1 <= Ceiling[l])
    /\ UNCHANGED passed
    /\ limited' = [limited EXCEPT ![r] =
                     [at |-> "429", i |-> limited[r].i, by |-> l, own |-> own[l] + 1]]

LEMMA CountStep ==
    ASSUME LimitsTyped, Booted, NEW r \in Request, Limits!Count(r)
    PROVE  \E l \in Limiter, c \in Limits!Counter :
              Counted(r, l, c) /\ (LetThrough(r, l, c) \/ Refused(r, l, c))
<1> DEFINE i == limited[r].i
           l == Head(limited[r].todo)
           c == Limits!CounterOf(i, l)
<1>1. /\ limited[r].at = "counting" /\ limited[r].todo # << >>
      /\ limited[r] \in CountingForm /\ Distinct(limited[r].todo)
  BY CountingForms DEF Limits!Count
<1>2. i \in Instance /\ l \in Limiter
  BY <1>1, TailIsDistinct DEF CountingForm
<1>3. store[i] \in {"memory", "redis"} /\ (store[i] = "memory" => link[i] = "gone")
  BY <1>1, <1>2 DEF Booted, LimitsTyped
<1>4. /\ c = Limits!Scope(i, l) /\ c \in Limits!Counter
      /\ c \in Limits!Shared \cup {<<i, l>>}
      /\ c \in Limits!Shared => store[i] = "redis"
  BY <1>2, <1>3, ProcessAssumption
     DEF Limits!CounterOf, Limits!Scope, Limits!Counter, Limits!Shared, Limits!KeyOf
<1> HIDE DEF c
<1>5. own[l] \in Int /\ own' = [own EXCEPT ![l] = own[l] + 1] /\ own'[l] = own[l] + 1
  BY <1>2 DEF Limits!Count, LimitsTyped, c
<1>6. /\ counter' = [counter EXCEPT ![c] = Limits!Hit(counter[c], l)]
      /\ UNCHANGED <<store, link, late, arrived>>
      /\ IF counter[c].hits + 1 <= Ceiling[l]
         THEN /\ passed' = [passed EXCEPT ![Limits!Scope(i, l)][l] = @ + 1]
              /\ limited' = [limited EXCEPT ![r].todo = Tail(@),
                                            ![r].skip = IF l = A THEN @ \cup {c} ELSE @]
         ELSE /\ limited' = [limited EXCEPT ![r] = [at |-> "429", i |-> i, by |-> l, own |-> own'[l]]]
              /\ UNCHANGED passed
  BY DEF Limits!Count, Limits!Hit, Limits!SkipsSuccessful, Limits!bounds, A, c
<1>7. Counted(r, l, c)
  BY <1>1, <1>4, <1>5, <1>6 DEF Counted, Counting
<1>8. CASE counter[c].hits + 1 <= Ceiling[l]
  BY <1>1, <1>2, <1>4, <1>6, <1>7, <1>8 DEF LetThrough, LimitsTyped, CountingForm
<1>9. CASE ~(counter[c].hits + 1 <= Ceiling[l])
  BY <1>2, <1>4, <1>5, <1>6, <1>7, <1>9 DEF Refused
<1>10. QED
  BY <1>8, <1>9

\* Every other request is where it was.
LEMMA OthersWait ==
    ASSUME LimitsTyped, NEW r \in Request, NEW h, limited' = [limited EXCEPT ![r] = h]
    PROVE  /\ limited' = [q \in Request |-> limited'[q]]
           /\ \A q \in Request : limited'[q] = IF q = r THEN h ELSE limited[q]
BY DEF LimitsTyped

\* ... and as well-formed as it was.
LEMMA OthersInForm ==
    ASSUME LimitsTyped, Booted, NEW r \in Request, NEW h, limited' = [limited EXCEPT ![r] = h],
           UNCHANGED store,
           \/ h = Limits!Idle
           \/ h \in CountingForm /\ Distinct(h.todo)
           \/ h \in [at : {"429"}, i : Instance, by : Limiter, own : Int]
           \/ h \in [at : {"500"}, i : Instance],
           h.at # "idle" => store[h.i] # "unset"
    PROVE  /\ \A q \in Request : InForm(q)'
           /\ limited' = [q \in Request |-> limited'[q]]
           /\ \A q \in Request : limited'[q].at # "idle" => store'[limited'[q].i] # "unset"
BY OthersWait DEF LimitsTyped, Booted, InForm, CountingForm, Limits!Counter, Limits!Shared

LEMMA CountTyped ==
    ASSUME LimitsTyped, Booted, NEW r \in Request, Limits!Count(r)
    PROVE  LimitsTyped' /\ Booted'
<1>1. PICK l \in Limiter, c \in Limits!Counter :
         Counted(r, l, c) /\ (LetThrough(r, l, c) \/ Refused(r, l, c))
  BY CountStep
<1>2. /\ limited[r].at = "counting" /\ limited[r].todo # << >>
      /\ limited[r] \in CountingForm /\ Distinct(limited[r].todo)
  BY <1>1, CountingForms DEF Counted, Counting
<1>3. /\ Tail(limited[r].todo) \in Seq(Limiter) /\ Distinct(Tail(limited[r].todo))
      /\ limited[r].skip \subseteq Limits!Counter
  BY <1>2, TailIsDistinct DEF CountingForm
<1>4. counter' \in [Limits!Counter -> [hits : Int, left : Nat]]
  <2>1. Limits!Hit(counter[c], l) \in [hits : Int, left : Nat]
    BY <1>1, LimiterAssumption DEF LimitsTyped, Limits!Hit
  <2>2. QED
    BY <1>1, <2>1 DEF LimitsTyped, Counted
<1>5. own' \in [Limiter -> Int] /\ own[l] + 1 \in Int
  BY <1>1 DEF LimitsTyped, Counted
<1>6. passed' \in [Limits!Counter -> [Limiter -> Int]]
  <2>1. [passed[c] EXCEPT ![l] = passed[c][l] + 1] \in [Limiter -> Int]
    BY DEF LimitsTyped
  <2>2. QED
    BY <1>1, <2>1 DEF LimitsTyped, LetThrough, Refused
<1>7. /\ limited' = [q \in Request |-> limited'[q]]
      /\ \A q \in Request : InForm(q)'
      /\ \A q \in Request : limited'[q].at # "idle" => store'[limited'[q].i] # "unset"
  <2>1. UNCHANGED store /\ store[limited[r].i] # "unset" /\ limited[r].i \in Instance
    BY <1>1, <1>2 DEF Counted, Booted, CountingForm
  <2>2. CASE LetThrough(r, l, c)
    <3> DEFINE skip == IF l = A THEN limited[r].skip \cup {c} ELSE limited[r].skip
               h    == [limited[r] EXCEPT !.todo = Tail(limited[r].todo), !.skip = skip]
    <3>1. skip \in SUBSET Limits!Counter /\ limited[r].skip \subseteq skip
      BY <1>3
    <3> HIDE DEF skip
    <3>2. h \in CountingForm /\ h.todo = Tail(limited[r].todo) /\ h.i = limited[r].i
      BY <1>2, <1>3, <3>1 DEF CountingForm
    <3>3. limited' = [limited EXCEPT ![r] = h]
      BY <2>2 DEF LetThrough, skip
    <3> HIDE DEF h
    <3>4. QED
      BY <1>3, <2>1, <3>2, <3>3, OthersInForm
  <2>3. CASE Refused(r, l, c)
    <3> DEFINE h == [at |-> "429", i |-> limited[r].i, by |-> l, own |-> own[l] + 1]
    <3>1. h \in [at : {"429"}, i : Instance, by : Limiter, own : Int] /\ h.i = limited[r].i
      BY <1>5, <2>1
    <3>2. limited' = [limited EXCEPT ![r] = h]
      BY <2>3 DEF Refused
    <3> HIDE DEF h
    <3>3. QED
      BY <2>1, <3>1, <3>2, OthersInForm
  <2>4. QED
    BY <1>1, <2>2, <2>3
<1>8. QED
  BY <1>1, <1>4, <1>5, <1>6, <1>7 DEF Counted, LimitsTyped, Booted

\* Arriving, failing and being answered keep the forms.
LEMMA RequestsTyped ==
    ASSUME LimitsTyped, Booted, NEW r \in Request,
           \/ \E i \in Instance, route \in DOMAIN Route : Limits!Arrive(r, i, route)
           \/ Limits!CountRejected(r) \/ Limits!RespondFailure(r) \/ Limits!RespondSuccess(r)
    PROVE  LimitsTyped' /\ Booted'
<1> USE DEF Limits!history, Limits!bounds
<1>1. CASE \E i \in Instance, route \in DOMAIN Route : Limits!Arrive(r, i, route)
  <2>1. PICK i \in Instance, route \in DOMAIN Route : Limits!Arrive(r, i, route)
    BY <1>1
  <2> DEFINE h == [at |-> "counting", i |-> i, todo |-> Route[route], skip |-> {}, late |-> {}]
  <2>2. h \in CountingForm /\ Distinct(h.todo) /\ h.i = i
    BY LimiterAssumption DEF CountingForm, Distinct
  <2>3. limited' = [limited EXCEPT ![r] = h] /\ UNCHANGED <<store, link, counter, late, passed, own>>
        /\ store[i] # "unset" /\ arrived' \in Nat
    BY <2>1 DEF Limits!Arrive, LimitsTyped
  <2> HIDE DEF h
  <2>4. QED
    BY <2>2, <2>3, OthersInForm DEF LimitsTyped, Booted
<1>2. CASE Limits!CountRejected(r)
  <2> DEFINE h == [at |-> "500", i |-> limited[r].i]
  <2>1. limited[r].i \in Instance /\ store[limited[r].i] # "unset"
    BY <1>2, CountingForms DEF Limits!CountRejected, CountingForm
  <2>2. h \in [at : {"500"}, i : Instance] /\ store[h.i] # "unset"
    BY <2>1
  <2>3. limited' = [limited EXCEPT ![r] = h]
        /\ UNCHANGED <<store, link, counter, late, passed, own, arrived>>
    BY <1>2 DEF Limits!CountRejected
  <2> HIDE DEF h
  <2>4. QED
    BY <2>2, <2>3, OthersInForm DEF LimitsTyped, Booted
<1>3. ASSUME limited' = [limited EXCEPT ![r] = Limits!Idle], UNCHANGED store
      PROVE  /\ \A q \in Request : InForm(q)'
             /\ limited' = [q \in Request |-> limited'[q]]
             /\ \A q \in Request : limited'[q].at # "idle" => store'[limited'[q].i] # "unset"
  BY <1>3, OthersInForm DEF Limits!Idle
<1>4. CASE Limits!RespondFailure(r)
  <2>1. limited' = [limited EXCEPT ![r] = Limits!Idle]
        /\ UNCHANGED <<store, link, counter, late, passed, own, arrived>>
    BY <1>4 DEF Limits!RespondFailure
  <2>2. QED
    BY <1>3, <2>1 DEF LimitsTyped, Booted
<1>5. CASE Limits!RespondSuccess(r)
  <2>1. limited' = [limited EXCEPT ![r] = Limits!Idle] /\ UNCHANGED <<store, link, arrived>>
    BY <1>5 DEF Limits!RespondSuccess
  <2>2. counter' \in [Limits!Counter -> [hits : Int, left : Nat]]
    <3>1. ASSUME NEW c \in Limits!Counter
          PROVE  [counter[c] EXCEPT !.hits = @ - 1] \in [hits : Int, left : Nat]
      BY DEF LimitsTyped
    <3>2. QED
      BY <1>5, <3>1 DEF Limits!RespondSuccess, LimitsTyped
  <2>3. late' \in [Limits!Counter -> Nat] /\ own' \in [Limiter -> Int]
    BY <1>5 DEF Limits!RespondSuccess, LimitsTyped
  <2>4. passed' \in [Limits!Counter -> [Limiter -> Int]]
    BY <1>5 DEF Limits!RespondSuccess, LimitsTyped
  <2>5. QED
    BY <1>3, <2>1, <2>2, <2>3, <2>4 DEF LimitsTyped, Booted
<1>6. QED
  BY <1>1, <1>2, <1>4, <1>5

\* So does the end of a window.
LEMMA TickTyped ==
    ASSUME LimitsTyped, Booted, Limits!Tick
    PROVE  LimitsTyped' /\ Booted'
<1> DEFINE over == {c \in Limits!Counter : counter[c].left = 1}
<1>1. /\ UNCHANGED <<store, link, own, arrived>>
      /\ counter' = [c \in Limits!Counter |->
                       IF c \in over \/ counter[c].left = 0
                       THEN IF c \in over THEN Limits!Unused ELSE counter[c]
                       ELSE [counter[c] EXCEPT !.left = @ - 1]]
      /\ late' = [c \in Limits!Counter |-> IF c \in over THEN 0 ELSE late[c]]
      /\ passed' = [c \in Limits!Counter |-> IF c \in over THEN [l \in Limiter |-> 0] ELSE passed[c]]
      /\ limited' = [r \in Request |->
                       IF limited[r].at = "counting"
                       THEN [limited[r] EXCEPT !.late = @ \cup (limited[r].skip \cap over)]
                       ELSE limited[r]]
  BY DEF Limits!Tick, Limits!bounds
<1>2. counter' \in [Limits!Counter -> [hits : Int, left : Nat]]
  <2>1. Limits!Unused \in [hits : Int, left : Nat]
    BY DEF Limits!Unused
  <2>2. ASSUME NEW c \in Limits!Counter, counter[c].left # 0
        PROVE  [counter[c] EXCEPT !.left = @ - 1] \in [hits : Int, left : Nat]
    <3>1. counter[c] \in [hits : Int, left : Nat]
      BY DEF LimitsTyped
    <3>2. counter[c].left - 1 \in Nat
      BY <2>2, <3>1
    <3>3. QED
      BY <3>1, <3>2
  <2>3. QED
    BY <1>1, <2>1, <2>2 DEF LimitsTyped
<1>3. late' \in [Limits!Counter -> Nat] /\ passed' \in [Limits!Counter -> [Limiter -> Int]]
  BY <1>1 DEF LimitsTyped
<1>4. ASSUME NEW r \in Request
      PROVE  InForm(r)' /\ (limited'[r].at # "idle" => store'[limited'[r].i] # "unset")
  <2>1. CASE limited[r].at = "counting"
    <3>1. limited[r] \in CountingForm /\ Distinct(limited[r].todo)
      BY <2>1, CountingForms
    <3>2. limited'[r] \in CountingForm /\ limited'[r].todo = limited[r].todo
          /\ limited'[r].i = limited[r].i
      BY <1>1, <2>1, <3>1 DEF CountingForm
    <3>3. QED
      BY <1>1, <2>1, <3>1, <3>2 DEF InForm, Booted, CountingForm, Limits!Counter, Limits!Shared
  <2>2. CASE limited[r].at # "counting"
    BY <1>1, <2>2 DEF LimitsTyped, Booted, InForm, CountingForm
  <2>3. QED
    BY <2>1, <2>2
<1>5. limited' = [r \in Request |-> limited'[r]]
  BY <1>1
<1>6. QED
  BY <1>1, <1>2, <1>3, <1>4, <1>5 DEF LimitsTyped, Booted

\* Processes boot, lose Redis and find it again.
ProcessStep(i) == Limits!Boot(i) \/ Limits!LoseLink(i) \/ Limits!Reconnect(i)

LEMMA ProcessTyped ==
    ASSUME LimitsTyped, Booted, NEW i \in Instance, ProcessStep(i)
    PROVE  /\ LimitsTyped' /\ Booted'
           /\ UNCHANGED <<counter, limited, late, passed, own, arrived>>
           /\ \A r \in Request : limited[r].at = "429" => store'[limited[r].i] = store[limited[r].i]
<1>1. /\ UNCHANGED <<counter, limited, late, passed, own, arrived>>
      /\ store' \in [Instance -> {"unset", "memory", "redis"}]
      /\ link' \in [Instance -> {"down", "up", "gone"}]
      /\ \A j \in Instance : store[j] # "unset" => store'[j] = store[j]
      /\ \A j \in Instance : store'[j] = "memory" => link'[j] = "gone"
  BY DEF ProcessStep, Limits!Boot, Limits!LoseLink, Limits!Reconnect, LimitsTyped, Booted,
     Limits!history, Limits!bounds
<1>2. \A r \in Request : limited[r].at # "idle" => store[limited[r].i] # "unset"
  BY DEF Booted
<1>3. \A r \in Request : limited[r].at # "idle" => limited[r].i \in Instance
  BY CountingForms DEF Limits!Idle
<1>4. LimitsTyped'
  BY <1>1 DEF LimitsTyped, InForm, CountingForm, Limits!Counter, Limits!Shared, Distinct
<1>5. QED
  BY <1>1, <1>2, <1>3, <1>4 DEF Booted

\* A counter that a step leaves alone, and on which no more requests count, is right.
LEMMA SameCounter ==
    ASSUME NEW c \in Limits!Counter, PassedCounted(c), Held(c)' \subseteq Held(c),
           counter'[c] = counter[c], passed'[c] = passed[c], late'[c] = late[c],
           LimitsTyped
    PROVE  PassedCounted(c)'
<1>1. Held(c) \in SUBSET Request /\ Held(c)' \in SUBSET Request
  BY DEF Held, Succeeding
<1>2. /\ Cardinality(Held(c)') \in Nat /\ Cardinality(Held(c)) \in Nat
      /\ Cardinality(Held(c)') <= Cardinality(Held(c))
  BY <1>1, RequestSets
<1>3. passed[c][A] \in Int
  BY LimiterAssumption DEF LimitsTyped, A
<1>4. Cardinality(Held(c)') <= passed'[c][A]
  BY <1>2, <1>3 DEF PassedCounted
<1>5. QED
  BY <1>4 DEF PassedCounted, Limits!Shared

\* A hit is let through only up to the ceiling, and counted.
LEMMA CountKeepsCeilings ==
    ASSUME LimitsTyped, Booted, \A c \in Limits!Counter : PassedCounted(c),
           NEW r \in Request, Limits!Count(r), NEW d \in Limits!Counter
    PROVE  PassedCounted(d)'
<1>1. PICK l \in Limiter, c \in Limits!Counter :
         Counted(r, l, c) /\ (LetThrough(r, l, c) \/ Refused(r, l, c))
  BY CountStep
<1>2. limited[r].at = "counting" /\ limited[r] \in CountingForm
  BY <1>1, CountingForms DEF Counted, Counting
<1>3. \A q \in Request : q # r => limited'[q] = limited[q]
  BY <1>1, OthersWait DEF LetThrough, Refused
<1>4. /\ counter[d] \in [hits : Int, left : Nat] /\ late[d] \in Nat
      /\ passed[d] \in [Limiter -> Int] /\ A \in Limiter
      /\ Window \in [Limiter -> Nat \ {0}] /\ Ceiling \in [Limiter -> Nat]
  BY LimiterAssumption DEF LimitsTyped, A
<1>5. CASE Refused(r, l, c) \/ d # c
  <2>1. Held(d)' \subseteq Held(d)
    <3>1. r \in Held(d)' => r \in Held(d)
      <4>1. CASE Refused(r, l, c)
        BY <4>1, OthersWait DEF Refused, Held, Succeeding, Counting
      <4>2. CASE LetThrough(r, l, c) /\ d # c
        BY <1>2, <4>2, OthersWait DEF LetThrough, Held, Succeeding, Counting, CountingForm
      <4>3. QED
        BY <1>1, <1>5, <4>1, <4>2
    <3>2. QED
      BY <1>3, <3>1 DEF Held, Succeeding, Counting
  <2>2. CASE d # c
    BY <1>1, <2>1, <2>2, SameCounter DEF Counted, LetThrough, Refused, LimitsTyped
  <2>3. CASE Refused(r, l, c) /\ d = c
    <3>1. /\ counter'[d] = Limits!Hit(counter[d], l) /\ passed'[d] = passed[d] /\ late'[d] = late[d]
      BY <1>1, <2>3 DEF Counted, Refused, LimitsTyped
    <3>2. /\ counter'[d].hits = counter[d].hits + 1
          /\ counter'[d].left = IF counter[d].left = 0 THEN Window[l] ELSE counter[d].left
      BY <3>1 DEF Limits!Hit
    <3>3. /\ Cardinality(Held(d)') \in Nat /\ Cardinality(Held(d)) \in Nat
          /\ Cardinality(Held(d)') <= Cardinality(Held(d))
      BY <2>1, RequestSets DEF Held, Succeeding
    <3>4. Cardinality(Held(d)') <= passed'[d][A]
      BY <1>4, <3>1, <3>3 DEF PassedCounted
    <3>5. counter'[d].left # 0 => \E m \in Limiter : counter'[d].left <= Window[m]
      BY <1>4, <3>2 DEF PassedCounted
    <3>6. \A m \in Limiter :
             /\ passed'[d][m] <= Ceiling[m] + late'[d]
             /\ passed'[d][m] + (IF m = A THEN 0 ELSE passed'[d][A]) <= counter'[d].hits + late'[d]
      BY <1>4, <3>1, <3>2 DEF PassedCounted
    <3>7. d \notin Limits!Shared => counter'[d].hits >= 0
      BY <1>4, <3>2 DEF PassedCounted
    <3>8. QED
      BY <3>4, <3>5, <3>6, <3>7 DEF PassedCounted, Limits!Shared
  <2>4. QED
    BY <1>1, <1>5, <2>2, <2>3
<1>6. CASE LetThrough(r, l, c) /\ d = c
  <2>1. /\ counter'[d] = Limits!Hit(counter[d], l) /\ late'[d] = late[d]
        /\ passed'[d] = [passed[d] EXCEPT ![l] = passed[d][l] + 1]
    BY <1>1, <1>6 DEF Counted, LetThrough, LimitsTyped
  <2>2. /\ counter'[d].hits = counter[d].hits + 1
        /\ counter'[d].left = IF counter[d].left = 0 THEN Window[l] ELSE counter[d].left
        /\ \A m \in Limiter : passed'[d][m] = IF m = l THEN passed[d][m] + 1 ELSE passed[d][m]
    BY <1>4, <2>1 DEF Limits!Hit
  <2>3. counter[d].hits + 1 <= Ceiling[l]
    BY <1>6 DEF LetThrough
  <2>4. \A m \in Limiter : passed[d][m] \in Int /\ Ceiling[m] \in Nat /\ passed[d][m] <= Ceiling[m] + late[d]
    BY <1>4 DEF PassedCounted
  <2>5. \A m \in Limiter : passed[d][m] + (IF m = A THEN 0 ELSE passed[d][A]) <= counter[d].hits + late[d]
    BY DEF PassedCounted
  <2>6. Cardinality(Held(d)) \in Nat /\ Cardinality(Held(d)) <= passed[d][A]
    BY RequestSets DEF PassedCounted, Held, Succeeding
  <2>7. \A m \in Limiter : passed'[d][m] <= Ceiling[m] + late'[d]
    BY <1>4, <2>1, <2>2, <2>3, <2>4, <2>5, <2>6
  <2>8. \A m \in Limiter :
           passed'[d][m] + (IF m = A THEN 0 ELSE passed'[d][A]) <= counter'[d].hits + late'[d]
    BY <1>4, <2>1, <2>2, <2>5
  <2>9. Cardinality(Held(d)') <= passed'[d][A]
    <3>1. CASE l = A
      <4>1. Held(d)' \subseteq Held(d) \cup {r}
        BY <1>3 DEF Held, Succeeding, Counting
      <4>2. Cardinality(Held(d)') \in Nat /\ Cardinality(Held(d)') <= Cardinality(Held(d)) + 1
        BY <4>1, RequestSets DEF Held, Succeeding
      <4>3. QED
        BY <1>4, <2>2, <2>6, <3>1, <4>2
    <3>2. CASE l # A
      <4>1. Held(d)' \subseteq Held(d)
        <5>1. r \in Held(d)' => r \in Held(d)
          BY <1>2, <1>6, <3>2, OthersWait DEF LetThrough, Held, Succeeding, Counting, CountingForm
        <5>2. QED
          BY <1>3, <5>1 DEF Held, Succeeding, Counting
      <4>2. Cardinality(Held(d)') \in Nat /\ Cardinality(Held(d)') <= Cardinality(Held(d))
        BY <4>1, RequestSets DEF Held, Succeeding
      <4>3. QED
        BY <1>4, <2>2, <2>6, <3>2, <4>2
    <3>3. QED
      BY <3>1, <3>2
  <2>10. counter'[d].left # 0 => \E m \in Limiter : counter'[d].left <= Window[m]
    BY <1>4, <2>2 DEF PassedCounted
  <2>11. d \notin Limits!Shared => counter'[d].hits >= 0
    BY <1>4, <2>2 DEF PassedCounted
  <2>12. QED
    BY <2>7, <2>8, <2>9, <2>10, <2>11 DEF PassedCounted, Limits!Shared
<1>7. QED
  BY <1>1, <1>5, <1>6

\* What is taken back of a counter when a request succeeds.
Taken(r, c) ==
    c \in limited[r].skip /\ IF c \in Limits!Shared THEN link[limited[r].i] = "up"
                                                   ELSE counter[c].hits > 0

LEMMA SuccessStep ==
    ASSUME LimitsTyped, NEW r \in Request, Limits!RespondSuccess(r)
    PROVE  /\ Counting(r) /\ limited[r] \in CountingForm
           /\ limited' = [limited EXCEPT ![r] = Limits!Idle]
           /\ \A c \in Limits!Counter :
                 /\ counter'[c] = IF Taken(r, c) THEN [counter[c] EXCEPT !.hits = counter[c].hits - 1]
                                                 ELSE counter[c]
                 /\ late'[c] = IF Taken(r, c) /\ c \in limited[r].late THEN late[c] + 1 ELSE late[c]
                 /\ passed'[c] = [l \in Limiter |->
                                    IF l = A /\ Taken(r, c) /\ c \notin limited[r].late
                                    THEN passed[c][l] - 1 ELSE passed[c][l]]
           /\ own' = [l \in Limiter |-> IF l = A /\ limited[r].skip # {} THEN own[l] - 1 ELSE own[l]]
           /\ UNCHANGED <<store, link, arrived>>
<1>1. Counting(r) /\ limited[r] \in CountingForm
  BY CountingForms DEF Limits!RespondSuccess, Counting
<1> DEFINE taken == {c \in limited[r].skip : IF c \in Limits!Shared THEN link[limited[r].i] = "up"
                                                                   ELSE counter[c].hits > 0}
<1>2. \A c : c \in taken <=> Taken(r, c)
  BY DEF Taken
<1>3. /\ limited' = [limited EXCEPT ![r] = Limits!Idle] /\ UNCHANGED <<store, link, arrived>>
      /\ own' = [l \in Limiter |-> IF l = A /\ limited[r].skip # {} THEN own[l] - 1 ELSE own[l]]
      /\ counter' = [c \in Limits!Counter |-> IF c \in taken THEN [counter[c] EXCEPT !.hits = @ - 1]
                                                             ELSE counter[c]]
      /\ late' = [c \in Limits!Counter |-> IF c \in taken \cap limited[r].late
                                           THEN late[c] + 1 ELSE late[c]]
      /\ passed' = [c \in Limits!Counter |-> [l \in Limiter |->
                      IF l = A /\ c \in taken \ limited[r].late
                      THEN passed[c][l] - 1 ELSE passed[c][l]]]
  BY DEF Limits!RespondSuccess, Limits!SkipsSuccessful, Limits!bounds, A
<1> HIDE DEF taken
<1>4. QED
  BY <1>1, <1>2, <1>3

\* A success takes its hit back from the window it was in, or else leaves a mark.
LEMMA SuccessKeepsCeilings ==
    ASSUME LimitsTyped, \A c \in Limits!Counter : PassedCounted(c),
           NEW r \in Request, Limits!RespondSuccess(r), NEW d \in Limits!Counter
    PROVE  PassedCounted(d)'
<1>1. /\ counter[d] \in [hits : Int, left : Nat] /\ late[d] \in Nat
      /\ passed[d] \in [Limiter -> Int] /\ A \in Limiter /\ Ceiling \in [Limiter -> Nat]
  BY LimiterAssumption DEF LimitsTyped, A
<1>2. /\ Counting(r) /\ limited[r] \in CountingForm
      /\ limited' = [limited EXCEPT ![r] = Limits!Idle]
      /\ counter'[d] = IF Taken(r, d) THEN [counter[d] EXCEPT !.hits = counter[d].hits - 1]
                                      ELSE counter[d]
      /\ late'[d] = IF Taken(r, d) /\ d \in limited[r].late THEN late[d] + 1 ELSE late[d]
      /\ passed'[d] = [l \in Limiter |-> IF l = A /\ Taken(r, d) /\ d \notin limited[r].late
                                         THEN passed[d][l] - 1 ELSE passed[d][l]]
  BY SuccessStep
<1>3. Held(d)' \subseteq Held(d) \ {r}
  BY <1>2, OthersWait DEF Held, Succeeding, Counting, Limits!Idle
<1>4. CASE ~Taken(r, d)
  <2>1. passed'[d] = passed[d]
    BY <1>1, <1>2, <1>4
  <2>2. QED
    BY <1>2, <1>3, <1>4, <2>1, SameCounter
<1>5. CASE Taken(r, d)
  <2>1. /\ counter'[d].hits = counter[d].hits - 1 /\ counter'[d].left = counter[d].left
        /\ d \notin Limits!Shared => counter[d].hits > 0
    BY <1>1, <1>2, <1>5 DEF Taken
  <2>2. /\ Cardinality(Held(d)') \in Nat /\ Cardinality(Held(d)) \in Nat
        /\ Cardinality(Held(d)') <= Cardinality(Held(d))
        /\ r \in Held(d) => Cardinality(Held(d)') <= Cardinality(Held(d)) - 1
    BY <1>3, RequestSets DEF Held, Succeeding
  <2>3. CASE d \in limited[r].late
    <3>1. late'[d] = late[d] + 1 /\ \A l \in Limiter : passed'[d][l] = passed[d][l]
      BY <1>2, <1>5, <2>3
    <3>2. /\ \A l \in Limiter :
                /\ passed'[d][l] <= Ceiling[l] + late'[d]
                /\ passed'[d][l] + (IF l = A THEN 0 ELSE passed'[d][A]) <= counter'[d].hits + late'[d]
          /\ Cardinality(Held(d)') <= passed'[d][A]
      BY <1>1, <2>1, <2>2, <3>1 DEF PassedCounted
    <3>3. QED
      BY <1>1, <2>1, <3>2 DEF PassedCounted, Limits!Shared
  <2>4. CASE d \notin limited[r].late
    <3>1. late'[d] = late[d]
          /\ \A l \in Limiter : passed'[d][l] = IF l = A THEN passed[d][l] - 1 ELSE passed[d][l]
      BY <1>2, <1>5, <2>4
    <3>2. r \in Held(d)
      BY <1>2, <1>5, <2>4 DEF Held, Succeeding, Taken
    <3>3. /\ \A l \in Limiter :
                /\ passed'[d][l] <= Ceiling[l] + late'[d]
                /\ passed'[d][l] + (IF l = A THEN 0 ELSE passed'[d][A]) <= counter'[d].hits + late'[d]
          /\ Cardinality(Held(d)') <= passed'[d][A]
      BY <1>1, <2>1, <2>2, <3>1, <3>2 DEF PassedCounted
    <3>4. QED
      BY <1>1, <2>1, <3>3 DEF PassedCounted, Limits!Shared
  <2>5. QED
    BY <2>3, <2>4
<1>6. QED
  BY <1>4, <1>5

\* With its window a counter forgets all it let through.
LEMMA TickKeepsCeilings ==
    ASSUME LimitsTyped, \A c \in Limits!Counter : PassedCounted(c), Limits!Tick,
           NEW d \in Limits!Counter
    PROVE  PassedCounted(d)'
<1> DEFINE over == {c \in Limits!Counter : counter[c].left = 1}
<1>1. /\ counter' = [c \in Limits!Counter |->
                       IF c \in over \/ counter[c].left = 0
                       THEN IF c \in over THEN Limits!Unused ELSE counter[c]
                       ELSE [counter[c] EXCEPT !.left = @ - 1]]
      /\ late' = [c \in Limits!Counter |-> IF c \in over THEN 0 ELSE late[c]]
      /\ passed' = [c \in Limits!Counter |-> IF c \in over THEN [l \in Limiter |-> 0] ELSE passed[c]]
      /\ limited' = [r \in Request |->
                       IF limited[r].at = "counting"
                       THEN [limited[r] EXCEPT !.late = @ \cup (limited[r].skip \cap over)]
                       ELSE limited[r]]
  BY DEF Limits!Tick
<1>2. /\ counter[d] \in [hits : Int, left : Nat] /\ A \in Limiter /\ Ceiling \in [Limiter -> Nat]
      /\ Window \in [Limiter -> Nat \ {0}] /\ passed[d] \in [Limiter -> Int] /\ late[d] \in Nat
  BY LimiterAssumption DEF LimitsTyped, A
<1>3. \A r \in Held(d)' : r \in Held(d) /\ d \notin over
  <2> SUFFICES ASSUME NEW r \in Request, Counting(r)', d \in limited'[r].skip \ limited'[r].late
               PROVE  r \in Held(d) /\ d \notin over
    BY DEF Held, Succeeding
  <2>1. limited[r].at = "counting"
    BY <1>1 DEF Counting
  <2>2. limited[r] \in CountingForm
    BY <2>1, CountingForms
  <2>3. limited'[r].skip = limited[r].skip
        /\ limited'[r].late = limited[r].late \cup (limited[r].skip \cap over)
    BY <1>1, <2>1, <2>2 DEF CountingForm
  <2>4. QED
    BY <2>1, <2>3 DEF Held, Succeeding, Counting
<1> HIDE DEF over
<1>4. CASE d \in over
  <2>1. /\ counter'[d] = Limits!Unused /\ late'[d] = 0 /\ passed'[d] = [l \in Limiter |-> 0]
    BY <1>1, <1>4
  <2>2. Held(d)' = {}
    BY <1>3, <1>4
  <2>3. Cardinality(Held(d)') = 0
    BY <2>2, FS_EmptySet
  <2>4. QED
    BY <1>2, <2>1, <2>3 DEF PassedCounted, Limits!Unused, Limits!Shared
<1>5. CASE d \notin over
  <2>1. late'[d] = late[d] /\ passed'[d] = passed[d]
    BY <1>1, <1>5
  <2>2. CASE counter[d].left = 0
    BY <1>1, <1>3, <1>5, <2>1, <2>2, SameCounter
  <2>3. CASE counter[d].left # 0
    <3>1. counter'[d].hits = counter[d].hits /\ counter'[d].left = counter[d].left - 1
      BY <1>1, <1>2, <1>5, <2>3
    <3>2. /\ Cardinality(Held(d)') \in Nat /\ Cardinality(Held(d)) \in Nat
          /\ Cardinality(Held(d)') <= Cardinality(Held(d))
      BY <1>3, RequestSets DEF Held, Succeeding
    <3>3. Cardinality(Held(d)') <= passed'[d][A]
      BY <1>2, <2>1, <3>2 DEF PassedCounted
    <3>4. \E l \in Limiter : counter'[d].left <= Window[l]
      BY <1>2, <2>3, <3>1 DEF PassedCounted
    <3>5. QED
      BY <2>1, <3>1, <3>3, <3>4 DEF PassedCounted, Limits!Shared
  <2>4. QED
    BY <2>2, <2>3
<1>6. QED
  BY <1>4, <1>5

\* No limiter of any process lets more through than its ceiling and the late decrements.
LEMMA CeilingsKept ==
    ASSUME LimitsTyped, Booted, \A c \in Limits!Counter : PassedCounted(c), Limits!Next,
           NEW d \in Limits!Counter
    PROVE  PassedCounted(d)'
<1>1. ASSUME NEW i \in Instance, ProcessStep(i) PROVE PassedCounted(d)'
  <2>1. UNCHANGED <<counter, limited, late, passed>>
    BY <1>1, ProcessTyped
  <2>2. Held(d)' = Held(d)
    BY <2>1 DEF Held, Succeeding, Counting
  <2>3. QED
    BY <2>1, <2>2, SameCounter
<1>2. ASSUME NEW r \in Request,
             \/ \E i \in Instance, route \in DOMAIN Route : Limits!Arrive(r, i, route)
             \/ Limits!CountRejected(r) \/ Limits!RespondFailure(r)
      PROVE  PassedCounted(d)'
  <2>1. /\ UNCHANGED <<counter, late, passed>>
        /\ \E h : /\ limited' = [limited EXCEPT ![r] = h]
                  /\ h.at # "counting" \/ h.skip = {}
    BY <1>2 DEF Limits!Arrive, Limits!CountRejected, Limits!RespondFailure, Limits!history, Limits!Idle
  <2>2. Held(d)' \subseteq Held(d)
    BY <2>1, OthersWait DEF Held, Succeeding, Counting
  <2>3. QED
    BY <2>1, <2>2, SameCounter
<1>3. QED
  BY <1>1, <1>2, CountKeepsCeilings, SuccessKeepsCeilings, TickKeepsCeilings
     DEF Limits!Next, ProcessStep

\* The counters a process has in memory are its own.
LEMMA OwnCounters ==
    ASSUME LimitsTyped, NEW i \in Instance, NEW l \in Limiter
    PROVE  /\ <<i, l>> \in Limits!Counter /\ <<i, l>> \notin Limits!Shared
           /\ counter[<<i, l>>] \in [hits : Int, left : Nat]
           /\ own[l] \in Int
BY ProcessAssumption DEF LimitsTyped, Limits!Counter, Limits!Shared

LEMMA WaitingSets ==
    /\ Succeeding \in SUBSET Request /\ Succeeding' \in SUBSET Request
    /\ \A l \in Limiter : Awaiting(l) \in SUBSET Request /\ Awaiting(l)' \in SUBSET Request
    /\ \A c \in Limits!Counter : Adrift(c) \in SUBSET Request /\ Adrift(c)' \in SUBSET Request
BY DEF Succeeding, Awaiting, Adrift

LEMMA ProcessOwn ==
    ASSUME LimitsTyped, Booted, OwnCounted, NEW i \in Instance, ProcessStep(i)
    PROVE  OwnCounted'
<1>1. /\ UNCHANGED <<counter, limited, late, passed, own, arrived>>
      /\ \A r \in Request : limited[r].at = "429" => store'[limited[r].i] = store[limited[r].i]
  BY ProcessTyped
<1>2. /\ Succeeding' = Succeeding
      /\ \A l \in Limiter : Awaiting(l)' = Awaiting(l)
      /\ \A c \in Limits!Counter : Adrift(c)' = Adrift(c)
  BY <1>1 DEF Succeeding, Awaiting, Adrift, Held, Counting
<1>3. Limits!RefusedForOwnInMemory'
  BY <1>1 DEF OwnCounted, Limits!RefusedForOwnInMemory
<1>4. \A j \in Instance : Adrift(<<j, A>>)' = Adrift(<<j, A>>)
  BY <1>2, OwnCounters, LimiterAssumption DEF A
<1>5. QED
  BY <1>1, <1>2, <1>3, <1>4 DEF OwnCounted

\* A request that arrives has passed nothing; one that fails is waited for no more.
LEMMA FailureOwn ==
    ASSUME LimitsTyped, OwnCounted, NEW r \in Request,
           \/ \E i \in Instance, route \in DOMAIN Route : Limits!Arrive(r, i, route)
           \/ Limits!CountRejected(r) \/ Limits!RespondFailure(r)
    PROVE  OwnCounted'
<1>1. PICK h : /\ limited' = [limited EXCEPT ![r] = h]
               /\ \/ h.at \in {"500", "idle"} /\ arrived' = arrived
                  \/ h.at = "counting" /\ h.skip = {} /\ arrived' = arrived + 1
  <2>1. CASE \E i \in Instance, route \in DOMAIN Route : Limits!Arrive(r, i, route)
    <3>1. PICK i \in Instance, route \in DOMAIN Route : Limits!Arrive(r, i, route)
      BY <2>1
    <3> WITNESS [at |-> "counting", i |-> i, todo |-> Route[route], skip |-> {}, late |-> {}]
    <3>2. QED
      BY <3>1 DEF Limits!Arrive
  <2>2. CASE Limits!CountRejected(r)
    <3> WITNESS [at |-> "500", i |-> limited[r].i]
    <3>1. QED
      BY <2>2 DEF Limits!CountRejected, Limits!bounds
  <2>3. CASE Limits!RespondFailure(r)
    <3> WITNESS Limits!Idle
    <3>1. QED
      BY <2>3 DEF Limits!RespondFailure, Limits!Idle, Limits!bounds
  <2>4. QED
    BY <2>1, <2>2, <2>3
<1>2. UNCHANGED <<store, counter, own>>
  BY DEF Limits!Arrive, Limits!CountRejected, Limits!RespondFailure, Limits!history
<1>3. \A q \in Request : limited'[q] = IF q = r THEN h ELSE limited[q]
  BY <1>1, OthersWait
<1>4. /\ Succeeding' \subseteq Succeeding
      /\ \A c \in Limits!Counter : Adrift(c)' \subseteq Adrift(c)
      /\ \A l \in Limiter : /\ Awaiting(l)' \subseteq Awaiting(l) \cup {r}
                            /\ arrived' = arrived => Awaiting(l)' \subseteq Awaiting(l)
  <2>1. arrived \in Nat
    BY DEF LimitsTyped
  <2>2. h.at # "counting" \/ (h.skip = {} /\ arrived' # arrived)
    BY <1>1, <2>1
  <2>3. QED
    BY <1>3, <2>2 DEF Succeeding, Adrift, Held, Awaiting, Counting
<1>5. ASSUME NEW l \in Limiter PROVE 0 <= own'[l] /\ own'[l] + Cardinality(Awaiting(l)') <= arrived'
  <2>1. /\ Cardinality(Awaiting(l)') \in Nat /\ Cardinality(Awaiting(l)) \in Nat
        /\ Cardinality(Awaiting(l)') <= Cardinality(Awaiting(l)) + 1
        /\ arrived' = arrived => Cardinality(Awaiting(l)') <= Cardinality(Awaiting(l))
    BY <1>4, WaitingSets, RequestSets
  <2>2. own[l] \in Int /\ arrived \in Nat /\ own' = own /\ arrived' \in {arrived, arrived + 1}
    BY <1>1, <1>2 DEF LimitsTyped
  <2>3. QED
    BY <2>1, <2>2 DEF OwnCounted
<1>6. A \in Limiter /\ own[A] \in Int
  BY LimiterAssumption DEF A, LimitsTyped
<1>7. Cardinality(Succeeding') <= own'[A]
  <2>1. /\ Cardinality(Succeeding') \in Nat /\ Cardinality(Succeeding) \in Nat
        /\ Cardinality(Succeeding') <= Cardinality(Succeeding)
    BY <1>4, WaitingSets, RequestSets
  <2>2. QED
    BY <1>2, <1>6, <2>1 DEF OwnCounted
<1>8. ASSUME NEW j \in Instance
      PROVE  counter'[<<j, A>>].hits + Cardinality(Adrift(<<j, A>>)') <= own'[A]
  <2>1. <<j, A>> \in Limits!Counter /\ counter[<<j, A>>].hits \in Int
    BY <1>6, OwnCounters
  <2>2. /\ Cardinality(Adrift(<<j, A>>)') <= Cardinality(Adrift(<<j, A>>))
        /\ Cardinality(Adrift(<<j, A>>)') \in Nat /\ Cardinality(Adrift(<<j, A>>)) \in Nat
    BY <1>4, <2>1, WaitingSets, RequestSets
  <2>3. QED
    BY <1>2, <1>6, <2>1, <2>2 DEF OwnCounted
<1>9. ASSUME NEW j \in Instance, NEW l \in Limiter \ {A}
      PROVE  counter'[<<j, l>>].hits <= own'[l]
  BY <1>2 DEF OwnCounted
<1>10. Limits!RefusedForOwnInMemory'
  BY <1>1, <1>2, <1>3 DEF OwnCounted, Limits!RefusedForOwnInMemory
<1>11. QED
  BY <1>5, <1>7, <1>8, <1>9, <1>10 DEF OwnCounted

LEMMA TickOwn ==
    ASSUME LimitsTyped, OwnCounted, Limits!Tick
    PROVE  OwnCounted'
<1> DEFINE over == {c \in Limits!Counter : counter[c].left = 1}
<1>1. /\ UNCHANGED <<store, own, arrived>>
      /\ counter' = [c \in Limits!Counter |->
                       IF c \in over \/ counter[c].left = 0
                       THEN IF c \in over THEN Limits!Unused ELSE counter[c]
                       ELSE [counter[c] EXCEPT !.left = @ - 1]]
      /\ limited' = [r \in Request |->
                       IF limited[r].at = "counting"
                       THEN [limited[r] EXCEPT !.late = @ \cup (limited[r].skip \cap over)]
                       ELSE limited[r]]
  BY DEF Limits!Tick, Limits!bounds
<1>2. \A r \in Request :
         /\ limited'[r].at = limited[r].at
         /\ limited[r].at # "counting" => limited'[r] = limited[r]
         /\ limited[r].at = "counting" =>
               /\ limited'[r].skip = limited[r].skip /\ limited'[r].todo = limited[r].todo
               /\ limited'[r].late = limited[r].late \cup (limited[r].skip \cap over)
  <2> SUFFICES ASSUME NEW r \in Request, limited[r].at = "counting"
               PROVE  /\ limited'[r].at = limited[r].at
                      /\ limited'[r].skip = limited[r].skip /\ limited'[r].todo = limited[r].todo
                      /\ limited'[r].late = limited[r].late \cup (limited[r].skip \cap over)
    BY <1>1
  <2>1. limited[r] \in CountingForm
    BY CountingForms
  <2>2. QED
    BY <1>1, <2>1 DEF CountingForm
<1> HIDE DEF over
<1>3. /\ Succeeding' = Succeeding
      /\ \A l \in Limiter : Awaiting(l)' = Awaiting(l)
  BY <1>2 DEF Succeeding, Awaiting, Counting
<1>4. \A c \in Limits!Counter \ over : Adrift(c)' \subseteq Adrift(c)
  BY <1>2 DEF Succeeding, Adrift, Held, Counting
<1>5. \A i \in Instance : counter'[<<i, A>>].hits + Cardinality(Adrift(<<i, A>>)') <= own[A]
  <2> SUFFICES ASSUME NEW i \in Instance
               PROVE  counter'[<<i, A>>].hits + Cardinality(Adrift(<<i, A>>)') <= own[A]
    OBVIOUS
  <2>1. /\ <<i, A>> \in Limits!Counter /\ counter[<<i, A>>] \in [hits : Int, left : Nat]
        /\ own[A] \in Int
    BY OwnCounters, LimiterAssumption DEF A
  <2>2. CASE <<i, A>> \in over
    <3>1. counter'[<<i, A>>].hits = 0
      BY <1>1, <2>1, <2>2 DEF Limits!Unused
    <3>2. Adrift(<<i, A>>)' \subseteq Succeeding
      BY <1>3 DEF Adrift
    <3>3. /\ Cardinality(Adrift(<<i, A>>)') <= Cardinality(Succeeding)
          /\ Cardinality(Adrift(<<i, A>>)') \in Nat /\ Cardinality(Succeeding) \in Nat
      BY <2>1, <3>2, WaitingSets, RequestSets
    <3>4. QED
      BY <2>1, <3>1, <3>3 DEF OwnCounted
  <2>3. CASE <<i, A>> \notin over
    <3>1. counter'[<<i, A>>].hits = counter[<<i, A>>].hits
      BY <1>1, <2>1, <2>3
    <3>2. /\ Cardinality(Adrift(<<i, A>>)') <= Cardinality(Adrift(<<i, A>>))
          /\ Cardinality(Adrift(<<i, A>>)') \in Nat /\ Cardinality(Adrift(<<i, A>>)) \in Nat
      BY <1>4, <2>1, <2>3, WaitingSets, RequestSets
    <3>3. QED
      BY <2>1, <3>1, <3>2 DEF OwnCounted
  <2>4. QED
    BY <2>2, <2>3
<1>6. ASSUME NEW i \in Instance, NEW l \in Limiter \ {A} PROVE counter'[<<i, l>>].hits <= own[l]
  <2>1. /\ <<i, l>> \in Limits!Counter /\ counter[<<i, l>>] \in [hits : Int, left : Nat]
        /\ own[l] \in Int
    BY OwnCounters
  <2>2. counter'[<<i, l>>].hits = 0 \/ counter'[<<i, l>>].hits = counter[<<i, l>>].hits
    BY <1>1, <2>1 DEF Limits!Unused
  <2>3. QED
    BY <2>1, <2>2 DEF OwnCounted
<1>7. Limits!RefusedForOwnInMemory'
  BY <1>1, <1>2 DEF OwnCounted, Limits!RefusedForOwnInMemory
<1>8. QED
  BY <1>1, <1>3, <1>5, <1>6, <1>7 DEF OwnCounted

\* A success is no longer counted by the limiter, nor waited for.
LEMMA SuccessOwn ==
    ASSUME LimitsTyped, OwnCounted, NEW r \in Request, Limits!RespondSuccess(r)
    PROVE  OwnCounted'
<1>1. /\ Counting(r) /\ limited[r] \in CountingForm
      /\ limited' = [limited EXCEPT ![r] = Limits!Idle]
      /\ \A c \in Limits!Counter :
            counter'[c] = IF Taken(r, c) THEN [counter[c] EXCEPT !.hits = counter[c].hits - 1]
                                         ELSE counter[c]
      /\ own' = [l \in Limiter |-> IF l = A /\ limited[r].skip # {} THEN own[l] - 1 ELSE own[l]]
      /\ UNCHANGED <<store, link, arrived>>
  BY SuccessStep
<1>2. /\ Succeeding' \subseteq Succeeding \ {r}
      /\ \A c \in Limits!Counter : Adrift(c)' \subseteq Adrift(c) \ {r}
      /\ \A l \in Limiter : Awaiting(l)' \subseteq Awaiting(l)
  BY <1>1, OthersWait DEF Succeeding, Adrift, Held, Awaiting, Counting, Limits!Idle
<1>3. A \in Limiter /\ own[A] \in Int /\ arrived \in Nat
      /\ own'[A] = IF limited[r].skip # {} THEN own[A] - 1 ELSE own[A]
  BY <1>1, LimiterAssumption DEF A, LimitsTyped
<1>4. r \in Succeeding <=> limited[r].skip # {}
  BY <1>1 DEF Succeeding
<1>5. /\ Cardinality(Succeeding') \in Nat /\ Cardinality(Succeeding) \in Nat
      /\ Cardinality(Succeeding') <= own'[A]
  <2>1. /\ Cardinality(Succeeding') \in Nat /\ Cardinality(Succeeding) \in Nat
        /\ Cardinality(Succeeding') <= Cardinality(Succeeding)
        /\ r \in Succeeding => Cardinality(Succeeding') <= Cardinality(Succeeding) - 1
    BY <1>2, WaitingSets, RequestSets
  <2>2. QED
    BY <1>3, <1>4, <2>1 DEF OwnCounted
<1>6. ASSUME NEW l \in Limiter PROVE 0 <= own'[l] /\ own'[l] + Cardinality(Awaiting(l)') <= arrived'
  <2>1. /\ Cardinality(Awaiting(l)') \in Nat /\ Cardinality(Awaiting(l)) \in Nat
        /\ Cardinality(Awaiting(l)') <= Cardinality(Awaiting(l))
    BY <1>2, WaitingSets, RequestSets
  <2>2. own[l] \in Int /\ own'[l] <= own[l] /\ own'[l] \in Int
    BY <1>1 DEF LimitsTyped
  <2>3. 0 <= own'[l]
    <3>1. CASE l = A
      BY <1>3, <1>5, <3>1, <2>2
    <3>2. CASE l # A
      BY <1>1, <3>2 DEF OwnCounted
    <3>3. QED
      BY <3>1, <3>2
  <2>4. QED
    BY <1>1, <1>3, <2>1, <2>2, <2>3 DEF OwnCounted
<1>7. ASSUME NEW i \in Instance
      PROVE  counter'[<<i, A>>].hits + Cardinality(Adrift(<<i, A>>)') <= own'[A]
  <2> DEFINE c == <<i, A>>
  <2>1. /\ c \in Limits!Counter /\ c \notin Limits!Shared
        /\ counter[c] \in [hits : Int, left : Nat]
    BY <1>3, OwnCounters
  <2> HIDE DEF c
  <2>2. /\ Cardinality(Adrift(c)') \in Nat /\ Cardinality(Adrift(c)) \in Nat
        /\ Cardinality(Adrift(c)') <= Cardinality(Adrift(c))
        /\ r \in Adrift(c) => Cardinality(Adrift(c)') <= Cardinality(Adrift(c)) - 1
    BY <1>2, <2>1, WaitingSets, RequestSets
  <2>3. counter[c].hits + Cardinality(Adrift(c)) <= own[A]
    BY DEF OwnCounted, c
  <2>4. CASE limited[r].skip = {}
    <3>1. counter'[c].hits = counter[c].hits
      BY <1>1, <2>1, <2>4 DEF Taken
    <3>2. QED
      BY <1>3, <2>1, <2>2, <2>3, <2>4, <3>1 DEF c
  <2>5. CASE Taken(r, c) /\ limited[r].skip # {}
    <3>1. counter'[c].hits = counter[c].hits - 1
      BY <1>1, <2>1, <2>5
    <3>2. QED
      BY <1>3, <2>1, <2>2, <2>3, <2>5, <3>1 DEF c
  <2>6. CASE ~Taken(r, c) /\ r \in Adrift(c) /\ limited[r].skip # {}
    <3>1. counter'[c].hits = counter[c].hits
      BY <1>1, <2>1, <2>6
    <3>2. QED
      BY <1>3, <2>1, <2>2, <2>3, <2>6, <3>1 DEF c
  <2>7. CASE ~Taken(r, c) /\ r \notin Adrift(c) /\ limited[r].skip # {}
    <3>1. r \in Held(c) /\ c \in limited[r].skip
      BY <1>4, <2>7 DEF Adrift, Held
    <3>2. counter'[c].hits = counter[c].hits /\ counter[c].hits <= 0
      <4>1. counter'[c] = counter[c]
        BY <1>1, <2>1, <2>7
      <4>2. ~(counter[c].hits > 0)
        BY <2>1, <2>7, <3>1 DEF Taken
      <4>3. counter[c].hits \in Int
        BY <2>1
      <4>4. QED
        BY <4>1, <4>2, <4>3
    <3>3. Adrift(c)' \subseteq Succeeding'
      BY DEF Adrift
    <3>4. Cardinality(Adrift(c)') <= Cardinality(Succeeding')
      BY <2>1, <3>3, WaitingSets, RequestSets
    <3>5. QED
      BY <1>3, <1>5, <2>1, <2>2, <3>2, <3>4 DEF c
  <2>8. QED
    BY <2>4, <2>5, <2>6, <2>7
<1>8. ASSUME NEW i \in Instance, NEW l \in Limiter \ {A}
      PROVE  counter'[<<i, l>>].hits <= own'[l]
  <2>1. /\ <<i, l>> \in Limits!Counter /\ counter[<<i, l>>] \in [hits : Int, left : Nat]
        /\ own[l] \in Int
    BY OwnCounters
  <2>2. counter'[<<i, l>>].hits \in {counter[<<i, l>>].hits, counter[<<i, l>>].hits - 1}
    BY <1>1, <2>1
  <2>3. own'[l] = own[l] /\ counter[<<i, l>>].hits <= own[l]
    BY <1>1 DEF OwnCounted
  <2>4. counter[<<i, l>>].hits \in Int
    BY <2>1
  <2>5. QED
    BY <2>1, <2>2, <2>3, <2>4
<1>9. Limits!RefusedForOwnInMemory'
  BY <1>1, OthersWait DEF OwnCounted, Limits!RefusedForOwnInMemory, Limits!Idle
<1>10. QED
  BY <1>5, <1>6, <1>7, <1>8, <1>9 DEF OwnCounted

\* What a limiter counts it has waited for; if it counts in memory, its counter is
\* what it goes by.
LEMMA CountOwn ==
    ASSUME LimitsTyped, Booted, OwnCounted, NEW r \in Request, Limits!Count(r)
    PROVE  OwnCounted'
<1>1. PICK l \in Limiter, c \in Limits!Counter :
         Counted(r, l, c) /\ (LetThrough(r, l, c) \/ Refused(r, l, c))
  BY CountStep
<1>2. /\ limited[r].at = "counting" /\ limited[r].todo # << >> /\ l = Head(limited[r].todo)
      /\ limited[r] \in CountingForm /\ Distinct(limited[r].todo)
  BY <1>1, CountingForms DEF Counted, Counting
<1>3. /\ \A q \in Request : q # r => limited'[q] = limited[q]
      /\ UNCHANGED <<store, arrived>> /\ arrived \in Nat
      /\ A \in Limiter /\ own \in [Limiter -> Int]
      /\ \A m \in Limiter : own'[m] = IF m = l THEN own[m] + 1 ELSE own[m]
  BY <1>1, OthersWait, LimiterAssumption DEF LetThrough, Refused, Counted, LimitsTyped, A
<1>4. \/ /\ LetThrough(r, l, c) /\ limited'[r].at = "counting"
         /\ limited'[r].todo = Tail(limited[r].todo) /\ limited'[r].late = limited[r].late
         /\ limited'[r].skip = IF l = A THEN limited[r].skip \cup {c} ELSE limited[r].skip
      \/ /\ Refused(r, l, c)
         /\ limited'[r] = [at |-> "429", i |-> limited[r].i, by |-> l, own |-> own[l] + 1]
  <2>1. CASE LetThrough(r, l, c)
    <3> DEFINE skip == IF l = A THEN limited[r].skip \cup {c} ELSE limited[r].skip
               h    == [limited[r] EXCEPT !.todo = Tail(limited[r].todo), !.skip = skip]
    <3>1. limited'[r] = h
      BY <2>1, OthersWait DEF LetThrough
    <3> HIDE DEF skip
    <3>2. /\ h.at = "counting" /\ h.todo = Tail(limited[r].todo) /\ h.late = limited[r].late
          /\ h.skip = skip
      BY <1>2 DEF CountingForm
    <3>3. QED
      BY <2>1, <3>1, <3>2 DEF skip
  <2>2. CASE Refused(r, l, c)
    BY <2>2, OthersWait DEF Refused
  <2>3. QED
    BY <1>1, <2>1, <2>2
<1>5. ASSUME NEW m \in Limiter PROVE 0 <= own'[m] /\ own'[m] + Cardinality(Awaiting(m)') <= arrived'
  <2>1. Awaiting(m)' \subseteq Awaiting(m) /\ (m = l => r \in Awaiting(m) /\ r \notin Awaiting(m)')
    <3>1. r \in Awaiting(m)' => r \in Awaiting(m) /\ m # l
      <4> SUFFICES ASSUME r \in Awaiting(m)' PROVE r \in Awaiting(m) /\ m # l
        OBVIOUS
      <4>1. limited'[r].at = "counting" /\ \E n \in 1..Len(limited'[r].todo) : limited'[r].todo[n] = m
        BY DEF Awaiting, Counting
      <4>2. limited'[r].todo = Tail(limited[r].todo)
        BY <1>4, <4>1
      <4>3. limited[r].todo \in Seq(Limiter)
        BY <1>2 DEF CountingForm
      <4>4. m # l /\ \E n \in 1..Len(limited[r].todo) : limited[r].todo[n] = m
        BY <1>2, <4>1, <4>2, <4>3, TailIsDistinct
      <4>5. QED
        BY <1>2, <4>4 DEF Awaiting, Counting
    <3>2. r \in Awaiting(l)
      BY <1>2, TailIsDistinct DEF Awaiting, Counting, CountingForm
    <3>3. QED
      BY <1>3, <3>1, <3>2 DEF Awaiting, Counting
  <2>2. /\ Cardinality(Awaiting(m)') \in Nat /\ Cardinality(Awaiting(m)) \in Nat
        /\ Cardinality(Awaiting(m)') <= Cardinality(Awaiting(m))
        /\ m = l => Cardinality(Awaiting(m)') <= Cardinality(Awaiting(m)) - 1
    BY <2>1, WaitingSets, RequestSets
  <2>3. QED
    BY <1>3, <2>2 DEF OwnCounted
<1>6. Succeeding' \subseteq Succeeding \cup {r} /\ (l # A => Succeeding' \subseteq Succeeding)
  BY <1>2, <1>3, <1>4 DEF Succeeding, Counting
<1>7. Cardinality(Succeeding') <= own'[A]
  <2>1. /\ Cardinality(Succeeding') \in Nat /\ Cardinality(Succeeding) \in Nat
        /\ Cardinality(Succeeding') <= Cardinality(Succeeding) + 1
        /\ l # A => Cardinality(Succeeding') <= Cardinality(Succeeding)
    BY <1>6, WaitingSets, RequestSets
  <2>2. QED
    BY <1>3, <2>1 DEF OwnCounted
<1>8. ASSUME NEW i \in Instance, NEW m \in Limiter
      PROVE  /\ <<i, m>> \in Limits!Counter /\ counter[<<i, m>>] \in [hits : Int, left : Nat]
             /\ counter'[<<i, m>>].hits = IF <<i, m>> = c THEN counter[<<i, m>>].hits + 1
                                                         ELSE counter[<<i, m>>].hits
             /\ <<i, m>> = c => m = l
  <2>1. /\ <<i, m>> \in Limits!Counter /\ counter[<<i, m>>] \in [hits : Int, left : Nat]
        /\ <<i, m>> \notin Limits!Shared
    BY OwnCounters
  <2>2. <<i, m>> = c => m = l
    BY <1>1, <2>1 DEF Counted
  <2>3. counter'[<<i, m>>] = IF <<i, m>> = c THEN Limits!Hit(counter[c], l) ELSE counter[<<i, m>>]
    BY <1>1, <2>1 DEF Counted, LimitsTyped
  <2>4. Limits!Hit(counter[c], l).hits = counter[c].hits + 1
    BY DEF Limits!Hit
  <2>5. QED
    BY <2>1, <2>2, <2>3, <2>4
<1>9. ASSUME NEW i \in Instance
      PROVE  counter'[<<i, A>>].hits + Cardinality(Adrift(<<i, A>>)') <= own'[A]
  <2> DEFINE d == <<i, A>>
  <2>1. /\ d \in Limits!Counter /\ counter[d] \in [hits : Int, left : Nat]
        /\ counter'[d].hits = IF d = c THEN counter[d].hits + 1 ELSE counter[d].hits
        /\ d = c => l = A
    BY <1>3, <1>8
  <2> HIDE DEF d
  <2>2. Adrift(d)' \subseteq Adrift(d) \cup {r}
        /\ (l # A \/ d = c => Adrift(d)' \subseteq Adrift(d))
    <3>1. ASSUME r \in Adrift(d)', l # A \/ d = c PROVE r \in Adrift(d)
      <4>1. /\ limited'[r].at = "counting" /\ limited'[r].skip # {}
            /\ d \notin limited'[r].skip \ limited'[r].late
        BY <3>1 DEF Adrift, Succeeding, Held, Counting
      <4>2. /\ limited'[r].late = limited[r].late
            /\ limited'[r].skip = IF l = A THEN limited[r].skip \cup {c} ELSE limited[r].skip
        BY <1>4, <4>1
      <4>3. CASE l # A
        BY <1>2, <4>1, <4>2, <4>3 DEF Adrift, Succeeding, Held, Counting
      <4>4. CASE l = A
        <5>1. d \in limited[r].late
          BY <3>1, <4>1, <4>2, <4>4
        <5>2. limited[r].skip # {}
          BY <1>2, <5>1 DEF CountingForm
        <5>3. QED
          BY <1>2, <5>1, <5>2 DEF Adrift, Succeeding, Held, Counting
      <4>5. QED
        BY <4>3, <4>4
    <3>2. \A q \in Request : q # r /\ q \in Adrift(d)' => q \in Adrift(d)
      BY <1>3 DEF Adrift, Succeeding, Held, Counting
    <3>3. QED
      BY <3>1, <3>2 DEF Adrift, Succeeding
  <2>3. /\ Cardinality(Adrift(d)') \in Nat /\ Cardinality(Adrift(d)) \in Nat
        /\ Cardinality(Adrift(d)') <= Cardinality(Adrift(d)) + 1
        /\ l # A \/ d = c => Cardinality(Adrift(d)') <= Cardinality(Adrift(d))
    BY <2>1, <2>2, WaitingSets, RequestSets
  <2>4. counter[d].hits + Cardinality(Adrift(d)) <= own[A]
    BY DEF OwnCounted, d
  <2>5. counter'[d].hits + Cardinality(Adrift(d)') <= own'[A]
    BY <1>3, <2>1, <2>3, <2>4
  <2>6. QED
    BY <2>5 DEF d
<1>10. ASSUME NEW i \in Instance, NEW m \in Limiter \ {A}
       PROVE  counter'[<<i, m>>].hits <= own'[m]
  <2>1. counter[<<i, m>>].hits <= own[m] /\ counter[<<i, m>>].hits \in Int /\ own[m] \in Int
    BY <1>3, <1>8 DEF OwnCounted
  <2>2. QED
    BY <1>3, <1>8, <2>1
<1>11. Limits!RefusedForOwnInMemory'
  <2> SUFFICES ASSUME NEW q \in Request, limited'[q].at = "429", store[limited'[q].i] = "memory"
               PROVE  limited'[q].own > Ceiling[limited'[q].by]
    BY <1>3 DEF Limits!RefusedForOwnInMemory
  <2>1. CASE q # r
    BY <1>3, <2>1 DEF OwnCounted, Limits!RefusedForOwnInMemory
  <2>2. CASE q = r
    <3> DEFINE i == limited[r].i
    <3>1. /\ Refused(r, l, c) /\ i \in Instance /\ store[i] = "memory"
          /\ limited'[r].own = own[l] + 1 /\ limited'[r].by = l
      BY <1>2, <1>4, <2>2 DEF CountingForm
    <3>2. c = <<i, l>>
      BY <1>1, <3>1 DEF Counted
    <3>3. /\ counter[c].hits \in Int /\ own[l] \in Int /\ Ceiling[l] \in Nat
          /\ counter[c].hits + 1 > Ceiling[l]
      BY <3>1, <3>2, OwnCounters, LimiterAssumption DEF Refused
    <3>4. counter[c].hits <= own[l]
      <4>1. CASE l = A
        <5>1. counter[c].hits + Cardinality(Adrift(c)) <= own[l]
          BY <3>1, <3>2, <4>1 DEF OwnCounted
        <5>2. Cardinality(Adrift(c)) \in Nat
          BY WaitingSets, RequestSets
        <5>3. QED
          BY <3>3, <5>1, <5>2
      <4>2. CASE l # A
        BY <3>1, <3>2, <4>2 DEF OwnCounted
      <4>3. QED
        BY <4>1, <4>2
    <3>5. QED
      BY <2>2, <3>1, <3>3, <3>4
  <2>3. QED
    BY <2>1, <2>2
<1>12. QED
  BY <1>5, <1>7, <1>9, <1>10, <1>11 DEF OwnCounted

LInv ==
    /\ LimitsTyped /\ Booted /\ OwnCounted
    /\ \A c \in Limits!Counter : PassedCounted(c)

LEMMA NextLInv == LInv /\ Limits!Next => LInv'
<1> SUFFICES ASSUME LInv, Limits!Next PROVE LInv'
  OBVIOUS
<1>1. LimitsTyped' /\ Booted'
  BY CountTyped, RequestsTyped, TickTyped, ProcessTyped DEF LInv, Limits!Next, ProcessStep
<1>2. OwnCounted'
  BY CountOwn, SuccessOwn, FailureOwn, TickOwn, ProcessOwn DEF LInv, Limits!Next, ProcessStep
<1>3. \A c \in Limits!Counter : PassedCounted(c)'
  BY CeilingsKept DEF LInv
<1>4. QED
  BY <1>1, <1>2, <1>3 DEF LInv, Limits!Counter, Limits!Shared

LEMMA InitLInv == Limits!Init => LInv
<1> SUFFICES ASSUME Limits!Init PROVE LInv
  OBVIOUS
<1> USE DEF Limits!Init, Limits!Idle, Limits!Unused
<1>1. LimitsTyped
  BY DEF LimitsTyped, InForm
<1>2. Booted
  BY DEF Booted
<1>3. /\ Succeeding = {} /\ \A l : Awaiting(l) = {} /\ \A c : Held(c) = {} /\ Adrift(c) = {}
  BY DEF Succeeding, Awaiting, Held, Adrift, Counting
<1>4. Cardinality({}) = 0
  BY FS_EmptySet
<1>5. A \in Limiter /\ \A i \in Instance, l \in Limiter : <<i, l>> \in Limits!Counter
  BY LimiterAssumption DEF A, Limits!Counter
<1>6. OwnCounted
  <2>1. \A l \in Limiter : own[l] = 0 /\ Cardinality(Awaiting(l)) = 0
    BY <1>3, <1>4
  <2>2. Cardinality(Succeeding) = 0 /\ arrived = 0
    BY <1>3, <1>4
  <2>3. \A i \in Instance, l \in Limiter :
           counter[<<i, l>>].hits = 0 /\ Cardinality(Adrift(<<i, l>>)) = 0
    BY <1>3, <1>4, <1>5
  <2>4. Limits!RefusedForOwnInMemory
    BY DEF Limits!RefusedForOwnInMemory
  <2>5. QED
    BY <1>5, <2>1, <2>2, <2>3, <2>4 DEF OwnCounted
<1>7. ASSUME NEW c \in Limits!Counter PROVE PassedCounted(c)
  <2>1. /\ counter[c].hits = 0 /\ counter[c].left = 0 /\ late[c] = 0
        /\ \A l \in Limiter : passed[c][l] = 0 /\ Ceiling[l] \in Nat
        /\ Cardinality(Held(c)) = 0
    BY <1>3, <1>4, LimiterAssumption
  <2>2. QED
    BY <1>5, <2>1 DEF PassedCounted
<1>8. QED
  BY <1>1, <1>2, <1>6, <1>7 DEF LInv

\* For any number of processes, requests, outages and limiters with any ceilings and
\* windows: no limiter lets through more than its ceiling in a window, wherever the
\* requests arrive, and one that counts in memory refuses only for what it counted.
THEOREM LimitsAlwaysKept == MCSpec => []LimitsKept
<1>1. MCInit => LInv
  BY InitLInv DEF MCInit
<1>2. LInv /\ [MCNext]_mcVars => LInv'
  <2> SUFFICES ASSUME LInv, [MCNext]_mcVars PROVE LInv'
    OBVIOUS
  <2>1. CASE Limits!Next
    BY <2>1, NextLInv
  <2>2. CASE UNCHANGED limitVars
    <3> USE <2>2 DEF limitVars
    <3>1. LimitsTyped' /\ Booted'
      BY DEF LInv, LimitsTyped, Booted, InForm, CountingForm, Distinct, Limits!Counter, Limits!Shared
    <3>2. /\ Succeeding' = Succeeding
          /\ \A l : Awaiting(l)' = Awaiting(l)
          /\ \A c : Held(c)' = Held(c) /\ Adrift(c)' = Adrift(c)
      BY DEF Succeeding, Awaiting, Held, Adrift, Counting
    <3>3. ASSUME NEW c \in Limits!Counter PROVE PassedCounted(c)'
      <4>1. PassedCounted(c) /\ Held(c)' = Held(c)
        BY <3>2 DEF LInv
      <4>2. QED
        BY <4>1 DEF PassedCounted, Limits!Shared
    <3>4. OwnCounted'
      <4>1. OwnCounted /\ \A i : Adrift(<<i, A>>)' = Adrift(<<i, A>>)
        BY <3>2 DEF LInv
      <4>2. QED
        BY <3>2, <4>1 DEF OwnCounted, Limits!RefusedForOwnInMemory
    <3>5. QED
      BY <3>1, <3>3, <3>4 DEF LInv, Limits!Counter, Limits!Shared
  <2>3. QED
    BY <2>1, <2>2 DEF MCNext, InviteStep, ListStep, LimitStep, mcVars
<1>3. LInv => LimitsKept
  <2> SUFFICES ASSUME LInv PROVE LimitsKept
    OBVIOUS
  <2>1. Limits!CeilingKept /\ Limits!RefusedForOwnInMemory
    BY DEF LInv, PassedCounted, OwnCounted, Limits!CeilingKept
  <2>2. \A i \in Instance : store[i] = "unset" =>
           \A r \in Request : limited[r] # Limits!Idle => limited[r].i # i
    BY CountingForms DEF LInv, Booted
  <2>3. ASSUME NEW c \in Limits!Counter
        PROVE  /\ \E l \in Limiter : counter[c].left \in 0..Window[l]
               /\ counter[c].hits < 0 => late[c] > 0 \/ counter[c].left = 0
               /\ c \notin Limits!Shared => counter[c].hits >= 0
    <3>1. /\ PassedCounted(c) /\ counter[c] \in [hits : Int, left : Nat] /\ late[c] \in Nat
          /\ A \in Limiter /\ passed[c][A] \in Int /\ Window \in [Limiter -> Nat \ {0}]
      BY LimiterAssumption DEF LInv, LimitsTyped, A
    <3>2. Cardinality(Held(c)) \in Nat
      BY RequestSets DEF Held, Succeeding
    <3>3. passed[c][A] >= 0 /\ passed[c][A] <= counter[c].hits + late[c]
      BY <3>1, <3>2 DEF PassedCounted
    <3>4. QED
      BY <3>1, <3>3 DEF PassedCounted
  <2>4. ASSUME NEW l \in Limiter PROVE own[l] \in 0..arrived
    <3>1. Cardinality(Awaiting(l)) \in Nat
      BY WaitingSets, RequestSets
    <3>2. own[l] \in Int /\ arrived \in Nat
      BY DEF LInv, LimitsTyped
    <3>3. 0 <= own[l] /\ own[l] + Cardinality(Awaiting(l)) <= arrived
      BY DEF LInv, OwnCounted
    <3>4. QED
      BY <3>1, <3>2, <3>3
  <2>5. QED
    BY <2>1, <2>2, <2>3, <2>4 DEF LimitsKept, Limits!TypeOK
<1>4. QED
  BY <1>1, <1>2, <1>3, PTL DEF MCSpec
-----------------------------------------------------------------------------
(* The lists of invites. *)

Paper == [status : {"none", "pending", "accepted", "rejected"}, by : {"peer", "user"},
          id : 0..MaxInvites]

\* There is one invite at most of an id, and an id is used once.
Papers ==
    /\ peerInvite \in [Peer -> Paper] /\ changes \in 0..MaxInvites
    /\ \A p \in Peer : /\ peerInvite[p].status = "none" <=> peerInvite[p].id = 0
                       /\ peerInvite[p].id <= changes
    /\ \A p, q \in Peer : peerInvite[p].id = peerInvite[q].id /\ peerInvite[p].id # 0 => p = q

\* The id is that of an invite which is, or was, the one of this peer.
Known(p, id) == /\ p \in Peer /\ id \in 1..changes
                /\ \A q \in Peer : peerInvite[q].id = id => q = p

Deleted(id) == \A q \in Peer : peerInvite[q].id # id

RowsKnown(rows) == /\ rows \in Seq(Lists!Row)
                   /\ \A i \in DOMAIN rows : Known(rows[i].peer, rows[i].id)

ListsKnown ==
    /\ RowsKnown(pendingInvites) /\ RowsKnown(sentInvites)
    /\ \A i \in DOMAIN sentInvites : sentInvites[i].from = "load"
    /\ users \subseteq Peer

Notice == [type : {"newChatInvite", "chatInviteAccepted", "chatInviteRejected", "chatInviteCancelled"},
           peer : Peer, id : 1..MaxInvites]

InboxKnown ==
    /\ inbox \in Seq(Notice)
    /\ \A i \in DOMAIN inbox : /\ Known(inbox[i].peer, inbox[i].id)
                               /\ inbox[i].type = "chatInviteCancelled" => Deleted(inbox[i].id)

AnswerKnown(k, rows) ==
    IF k = "users" THEN rows \subseteq Peer
    ELSE /\ IsFiniteSet(rows)
         /\ rows \subseteq [peer : Peer, id : 1..MaxInvites]
         /\ \A row \in rows : Known(row.peer, row.id)

LoadsKnown ==
    /\ load = [k \in Lists!List |-> load[k]]
    /\ \A k \in Lists!List :
          \/ load[k] = Lists!Free \/ load[k] = Lists!Sent
          \/ load[k] = [at |-> "served", rows |-> load[k].rows] /\ AnswerKnown(k, load[k].rows)

ActKnown ==
    \/ act = Lists!Free
    \/ /\ act = [at |-> act.at, op |-> act.op, peer |-> act.peer, id |-> act.id]
       /\ act.at \in {"sent", "done"} /\ act.op \in {"send", "accept", "reject", "cancel"}
       /\ act.peer \in Peer
       /\ act.op # "send" => Known(act.peer, act.id)

PageKnown ==
    /\ mounted \in BOOLEAN
    /\ IF mounted THEN profile = Lists!NoProfile
       ELSE profile = [of |-> profile.of, status |-> profile.status] /\ profile.of \in Peer

ListsKept ==
    Papers /\ ListsKnown /\ InboxKnown /\ LoadsKnown /\ ActKnown /\ PageKnown /\ faults \in Nat

USE ListsAssumption DEF Lists!Free, Lists!Sent, Lists!List, Lists!NoProfile, Lists!NoInvite

LEMMA SeqMembers ==
    ASSUME NEW S, NEW q \in Seq(S)
    PROVE  Len(q) \in Nat /\ DOMAIN q = 1..Len(q) /\ \A i \in DOMAIN q : q[i] \in S
OBVIOUS

LEMMA SeqMade ==
    ASSUME NEW S, NEW n \in Nat, NEW q, q = [i \in 1..n |-> q[i]], \A i \in 1..n : q[i] \in S
    PROVE  q \in Seq(S) /\ Len(q) = n
OBVIOUS

\* What was known of an id stays so when one invite changes.
LEMMA ChangeKeeps ==
    ASSUME Papers, NEW p \in Peer, Lists!Counted,
           peerInvite' = [peerInvite EXCEPT ![p] = peerInvite'[p]], peerInvite'[p] \in Paper,
           peerInvite'[p].id \in {0, changes + 1, peerInvite[p].id},
           peerInvite'[p].status = "none" <=> peerInvite'[p].id = 0
    PROVE  /\ Papers'
           /\ \A q, id : Known(q, id) => Known(q, id)'
           /\ \A id \in 1..changes : Deleted(id) => Deleted(id)'
<1>1. changes \in Nat /\ changes' = changes + 1 /\ changes' \in 0..MaxInvites /\ changes < MaxInvites
  BY DEF Papers, Lists!Counted
<1>2. \A q \in Peer : peerInvite[q].id \in Nat /\ peerInvite[q].id <= changes
  BY <1>1 DEF Papers, Paper
<1>3. /\ peerInvite' \in [Peer -> Paper]
      /\ \A q \in Peer : q # p => peerInvite'[q] = peerInvite[q]
  BY DEF Papers
<1>4. Papers'
  <2>1. \A q \in Peer : /\ peerInvite'[q].status = "none" <=> peerInvite'[q].id = 0
                        /\ peerInvite'[q].id <= changes'
    BY <1>1, <1>2, <1>3 DEF Papers
  <2>2. \A q, r \in Peer : peerInvite'[q].id = peerInvite'[r].id /\ peerInvite'[q].id # 0 => q = r
    BY <1>1, <1>2, <1>3 DEF Papers
  <2>3. QED
    BY <1>1, <1>3, <2>1, <2>2 DEF Papers, Paper
<1>5. ASSUME NEW q, NEW id, Known(q, id) PROVE Known(q, id)'
  <2>1. id \in 1..changes /\ id # 0 /\ id # changes + 1
    BY <1>1, <1>5 DEF Known
  <2>2. QED
    BY <1>1, <1>3, <1>5, <2>1 DEF Known
<1>6. ASSUME NEW id \in 1..changes, Deleted(id) PROVE Deleted(id)'
  <2>1. id # 0 /\ id # changes + 1
    BY <1>1
  <2>2. QED
    BY <1>3, <1>6, <2>1 DEF Deleted
<1>7. QED
  BY <1>4, <1>5, <1>6

\* An invite is sent, answered or cancelled in one of these ways.
LEMMA Changes ==
    ASSUME Papers, NEW p \in Peer, Lists!Counted,
           \/ \E who \in {"peer", "user"} : Lists!Inviting(p, who) \/ Lists!Cancelling(p, who)
           \/ \E who \in {"peer", "user"}, status \in {"accepted", "rejected"} : Lists!Answering(p, who, status)
    PROVE  /\ Papers'
           /\ \A q, id : Known(q, id) => Known(q, id)'
           /\ \A id \in 1..changes : Deleted(id) => Deleted(id)'
           /\ peerInvite' # peerInvite
<1>1. changes \in Nat /\ changes' = changes + 1 /\ changes + 1 \in 0..MaxInvites
  BY DEF Papers, Lists!Counted
<1>2. peerInvite[p] \in Paper /\ DOMAIN peerInvite = Peer
  BY DEF Papers
<1>3. CASE \E who \in {"peer", "user"} : Lists!Inviting(p, who)
  <2>1. PICK who \in {"peer", "user"} : Lists!Inviting(p, who)
    BY <1>3
  <2>2. /\ peerInvite[p].status \in {"none", "rejected"}
        /\ peerInvite' = [peerInvite EXCEPT ![p] = peerInvite'[p]]
        /\ peerInvite'[p] = [status |-> "pending", by |-> who,
                             id |-> IF peerInvite[p].status = "none" THEN changes + 1 ELSE peerInvite[p].id]
    BY <1>2, <2>1 DEF Lists!Inviting
  <2>3. peerInvite'[p] \in Paper /\ peerInvite'[p].id # 0
    BY <1>1, <1>2, <2>2 DEF Papers, Paper
  <2>4. QED
    BY <2>2, <2>3, ChangeKeeps
<1>4. CASE \E who \in {"peer", "user"} : Lists!Cancelling(p, who)
  <2>1. /\ peerInvite' = [peerInvite EXCEPT ![p] = peerInvite'[p]]
        /\ peerInvite[p].status = "pending" /\ peerInvite'[p] = Lists!NoInvite
    BY <1>2, <1>4 DEF Lists!Cancelling, Lists!Pending
  <2>2. Lists!NoInvite \in Paper
    BY DEF Paper
  <2>3. QED
    BY <2>1, <2>2, ChangeKeeps
<1>5. CASE \E who \in {"peer", "user"}, status \in {"accepted", "rejected"} : Lists!Answering(p, who, status)
  <2>1. PICK who \in {"peer", "user"}, status \in {"accepted", "rejected"} : Lists!Answering(p, who, status)
    BY <1>5
  <2>2. /\ peerInvite' = [peerInvite EXCEPT ![p] = peerInvite'[p]]
        /\ peerInvite[p].status = "pending"
        /\ peerInvite'[p] = [peerInvite[p] EXCEPT !.status = status]
    BY <1>2, <2>1 DEF Lists!Answering, Lists!Pending
  <2>3. /\ peerInvite'[p] \in Paper /\ peerInvite'[p].id = peerInvite[p].id /\ peerInvite'[p].status = status
        /\ peerInvite[p].id # 0
    BY <1>2, <2>2 DEF Papers, Paper
  <2>4. QED
    BY <2>2, <2>3, ChangeKeeps
<1>6. QED
  BY <1>3, <1>4, <1>5

-----------------------------------------------------------------------------
\* A finite set of numbers can be put in ascending order: a number's place is how many
\* there are up to it.
LEMMA AscendingExists ==
    ASSUME NEW S \in SUBSET Nat, IsFiniteSet(S)
    PROVE  \E ids \in Injection(1..Cardinality(S), S) :
              \A i, j \in 1..Cardinality(S) : i < j => ids[i] < ids[j]
<1> DEFINE n == Cardinality(S)
           Upto(m) == {x \in S : x <= m}
           place == [m \in S |-> Cardinality(Upto(m))]
<1>0. \A m \in S : m \in Nat
  OBVIOUS
<1>1. n \in Nat /\ IsFiniteSet(1..n) /\ Cardinality(1..n) = n
  <2>1. n \in Nat
    BY FS_CardinalityType
  <2>2. QED
    BY <2>1, FS_Interval
<1>2. \A m \in S : IsFiniteSet(Upto(m)) /\ Cardinality(Upto(m)) \in Nat /\ Cardinality(Upto(m)) <= n
  BY FS_Subset, FS_CardinalityType
<1>3. \A m \in S : Cardinality(Upto(m)) # 0
  <2>1. ASSUME NEW m \in S PROVE Cardinality(Upto(m)) # 0
    <3>1. m \in Upto(m)
      OBVIOUS
    <3>2. QED
      BY <1>2, <3>1, FS_EmptySet
  <2>2. QED
    BY <2>1
<1>4. \A m, k \in S : m < k => Cardinality(Upto(m)) < Cardinality(Upto(k))
  <2>1. ASSUME NEW m \in S, NEW k \in S, m < k PROVE Cardinality(Upto(m)) < Cardinality(Upto(k))
    <3>1. Upto(m) \subseteq Upto(k) /\ k \in Upto(k) /\ k \notin Upto(m)
      <4>1. m \in Nat /\ k \in Nat /\ ~(k <= m) /\ k <= k
        BY <1>0, <2>1
      <4>2. \A x \in S : x <= m => x <= k
        BY <1>0, <2>1
      <4>3. QED
        BY <4>1, <4>2
    <3>2. QED
      BY <1>2, <3>1, FS_Subset
  <2>2. QED
    BY <2>1
<1>5. place \in [S -> 1..n] /\ \A m, k \in S : m < k => place[m] < place[k]
  BY <1>1, <1>2, <1>3, <1>4
<1> HIDE DEF place, n
<1>6. place \in Injection(S, 1..n)
  <2>1. \A m, k \in S : place[m] = place[k] => m = k
    <3>1. ASSUME NEW m \in S, NEW k \in S, place[m] = place[k] PROVE m = k
      <4>1. place[m] \in Nat /\ m \in Nat /\ k \in Nat
        BY <1>1, <1>5
      <4>2. QED
        BY <3>1, <4>1, <1>5
    <3>2. QED
      BY <3>1
  <2>2. QED
    BY <1>5, <2>1 DEF Injection, IsInjective
<1>7. place \in Surjection(S, 1..n)
  BY <1>1, <1>6, FS_Injection DEF n
<1>8. \A i \in 1..n : \E m \in S : place[m] = i
  BY <1>7 DEF Surjection
<1> DEFINE ids == [i \in 1..n |-> CHOOSE m \in S : place[m] = i]
<1>9. ids \in [1..n -> S] /\ \A i \in 1..n : ids[i] \in S /\ place[ids[i]] = i
  BY <1>8
<1> HIDE DEF ids
<1>10. \A i, j \in 1..n : i < j => ids[i] < ids[j]
  <2>1. ASSUME NEW i \in 1..n, NEW j \in 1..n, i < j PROVE ids[i] < ids[j]
    <3>0. ids[i] \in S /\ ids[j] \in S /\ place[ids[i]] = i /\ place[ids[j]] = j
      BY <1>9
    <3>1. ids[i] \in Nat /\ ids[j] \in Nat /\ i \in Nat /\ j \in Nat
      <4>1. ids[i] \in Nat /\ ids[j] \in Nat
        BY <1>0, <3>0
      <4>2. i \in Nat /\ j \in Nat
        BY <1>1
      <4>3. QED
        BY <4>1, <4>2
    <3>2. ids[j] < ids[i] => j < i
      <4>1. ids[j] < ids[i] => place[ids[j]] < place[ids[i]]
        BY <1>5, <3>0
      <4>2. QED
        BY <3>0, <4>1
    <3>3. ids[i] # ids[j]
      BY <1>9, <2>1, <3>1
    <3>4. QED
      BY <2>1, <3>1, <3>2, <3>3
  <2>2. QED
    BY <2>1
<1>11. ids \in Injection(1..n, S)
  BY <1>9 DEF Injection, IsInjective
<1>12. QED
  BY <1>10, <1>11 DEF n

LEMMA AscendingOrders ==
    ASSUME NEW S \in SUBSET Nat, IsFiniteSet(S)
    PROVE  /\ Lists!Ascending(S) \in Injection(1..Cardinality(S), S)
           /\ \A i, j \in 1..Cardinality(S) : i < j => Lists!Ascending(S)[i] < Lists!Ascending(S)[j]
<1> DEFINE n == Cardinality(S)
<1>1. n \in Nat
  BY FS_CardinalityType
<1>2. PICK f \in Injection(1..n, S) : \A i, j \in 1..n : i < j => f[i] < f[j]
  BY AscendingExists
<1> HIDE DEF n
<1>3. Lists!SetToSeqs(S) = {g \in [1..n -> S] : \A i, j \in 1..n : i # j => g[i] # g[j]}
  BY DEF Lists!SetToSeqs, n, Lists!Cardinality, Cardinality, Lists!IsFiniteSet, IsFiniteSet
<1>4. \A g \in Lists!SetToSeqs(S) : g \in Injection(1..n, S) /\ DOMAIN g = 1..n
  BY <1>3 DEF Injection, IsInjective
<1>5. f \in Lists!SetToSeqs(S) /\ DOMAIN f = 1..n
  BY <1>2, <1>3 DEF Injection, IsInjective
<1>6. \E ids \in Lists!SetToSeqs(S) : \A i, j \in DOMAIN ids : i < j => ids[i] < ids[j]
  BY <1>2, <1>5
<1>7. /\ Lists!Ascending(S) \in Lists!SetToSeqs(S)
      /\ \A i, j \in DOMAIN Lists!Ascending(S) : i < j => Lists!Ascending(S)[i] < Lists!Ascending(S)[j]
  BY <1>6 DEF Lists!Ascending
<1>8. QED
  BY <1>4, <1>7 DEF n

\* A page shows what is stored, each message once, and no more than was asked for.
-----------------------------------------------------------------------------
(* The rows of a list. *)

Listed(rows, id) == \E i \in DOMAIN rows : rows[i].id = id

Single(rows) == \A i, j \in DOMAIN rows : rows[i].id = rows[j].id => i = j

LEMMA RowFacts ==
    ASSUME NEW rows, RowsKnown(rows)
    PROVE  /\ rows \in Seq(Lists!Row) /\ Len(rows) \in Nat /\ DOMAIN rows = 1..Len(rows)
           /\ \A i \in DOMAIN rows : /\ rows[i] \in Lists!Row /\ Known(rows[i].peer, rows[i].id)
                                     /\ rows[i].id \in 1..MaxInvites
<1>1. PICK R : R = Lists!Row
  OBVIOUS
<1>2. rows \in Seq(R) /\ \A i \in DOMAIN rows : Known(rows[i].peer, rows[i].id)
  BY <1>1 DEF RowsKnown
<1>3. Len(rows) \in Nat /\ DOMAIN rows = 1..Len(rows) /\ \A i \in DOMAIN rows : rows[i] \in R
  BY <1>2, SeqMembers
<1>4. \A row \in R : row.id \in 1..MaxInvites
  BY <1>1 DEF Lists!Row
<1>5. QED
  BY <1>1, <1>2, <1>3, <1>4

\* Removing an id leaves the other rows, each as often as before.
LEMMA WithoutIs ==
    ASSUME NEW rows \in Seq(Lists!Row), NEW id, NEW all, all = Lists!Without(rows, id)
    PROVE  /\ all \in Seq(Lists!Row)
           /\ \A i \in DOMAIN all : \E j \in DOMAIN rows : all[i] = rows[j] /\ rows[j].id # id
           /\ \A j \in DOMAIN rows : rows[j].id # id => \E i \in DOMAIN all : all[i] = rows[j]
           /\ Single(rows) => Single(all)
<1> DEFINE S == {i \in DOMAIN rows : rows[i].id # id}
           n == Cardinality(S)
<1>1. Len(rows) \in Nat /\ DOMAIN rows = 1..Len(rows) /\ \A i \in DOMAIN rows : rows[i] \in Lists!Row
  BY SeqMembers
<1>2. S \in SUBSET Nat /\ IsFiniteSet(S) /\ n \in Nat
  <2>1. PICK k \in Nat : DOMAIN rows = 1..k
    BY <1>1
  <2>2. IsFiniteSet(1..k)
    BY <2>1, FS_Interval
  <2>3. QED
    BY <2>1, <2>2, FS_Subset, FS_CardinalityType
<1>3. PICK kept : kept = Lists!Ascending(S)
  OBVIOUS
<1>4. /\ kept \in Injection(1..n, S)
      /\ \A i, j \in 1..n : i < j => kept[i] < kept[j]
  BY <1>2, <1>3, AscendingOrders
<1>5. DOMAIN kept = 1..n /\ \A i \in 1..n : kept[i] \in S
  BY <1>4 DEF Injection
<1>6. \A j \in S : \E i \in 1..n : kept[i] = j
  <2>1. IsFiniteSet(1..n) /\ Cardinality(1..n) = n
    BY <1>2, FS_Interval
  <2>2. kept \in Surjection(1..n, S)
    BY <1>2, <1>4, <2>1, FS_Injection
  <2>3. QED
    BY <2>2 DEF Surjection
<1>7. all = [k \in DOMAIN kept |-> rows[kept[k]]]
  BY <1>3 DEF Lists!Without
<1> HIDE DEF n
<1>8. all = [i \in 1..n |-> all[i]] /\ \A i \in 1..n : all[i] = rows[kept[i]] /\ all[i] \in Lists!Row
  BY <1>1, <1>5, <1>7
<1>9. all \in Seq(Lists!Row) /\ DOMAIN all = 1..n
  BY <1>2, <1>8, SeqMade
<1>10. Single(rows) => Single(all)
  <2>1. \A i, j \in 1..n : kept[i] = kept[j] => i = j
    BY <1>4 DEF Injection, IsInjective
  <2>2. QED
    BY <1>5, <1>8, <1>9, <2>1 DEF Single
<1>11. QED
  BY <1>5, <1>6, <1>8, <1>9, <1>10

\* ... so that the id is not in the list any more.
LEMMA WithoutKnown ==
    ASSUME NEW rows, RowsKnown(rows), NEW id, NEW all, all = Lists!Without(rows, id)
    PROVE  /\ RowsKnown(all)
           /\ \A other : Listed(all, other) <=> Listed(rows, other) /\ other # id
           /\ Single(rows) => Single(all)
           /\ (\A i \in DOMAIN rows : rows[i].from = "load") => \A i \in DOMAIN all : all[i].from = "load"
<1>1. rows \in Seq(Lists!Row) /\ \A i \in DOMAIN rows : Known(rows[i].peer, rows[i].id)
  BY RowFacts
<1>2. /\ all \in Seq(Lists!Row)
      /\ \A i \in DOMAIN all : \E j \in DOMAIN rows : all[i] = rows[j] /\ rows[j].id # id
      /\ \A j \in DOMAIN rows : rows[j].id # id => \E i \in DOMAIN all : all[i] = rows[j]
      /\ Single(rows) => Single(all)
  BY <1>1, WithoutIs
<1>3. RowsKnown(all)
  BY <1>1, <1>2 DEF RowsKnown
<1>4. \A other : Listed(all, other) <=> Listed(rows, other) /\ other # id
  BY <1>2 DEF Listed
<1>5. QED
  BY <1>2, <1>3, <1>4

\* A row that is new comes first.
LEMMA RowAdded ==
    ASSUME NEW rows, RowsKnown(rows), NEW row \in Lists!Row, Known(row.peer, row.id),
           NEW all, all = <<row>> \o rows
    PROVE  /\ RowsKnown(all)
           /\ \A id : Listed(all, id) <=> Listed(rows, id) \/ id = row.id
           /\ Single(rows) /\ ~Listed(rows, row.id) => Single(all)
<1>1. PICK R, n : R = Lists!Row /\ n = Len(rows)
  OBVIOUS
<1>2. /\ rows \in Seq(R) /\ n \in Nat /\ DOMAIN rows = 1..n /\ row \in R
      /\ \A i \in 1..n : Known(rows[i].peer, rows[i].id)
  BY <1>1, RowFacts
<1>3. /\ all \in Seq(R) /\ DOMAIN all = 1..(n + 1) /\ all[1] = row
      /\ \A i \in 1..n : all[i + 1] = rows[i]
  BY <1>1, <1>2
<1>4. /\ 1 \in DOMAIN all /\ \A i \in DOMAIN rows : i + 1 \in DOMAIN all
      /\ \A i \in DOMAIN all : i = 1 \/ \E j \in DOMAIN rows : i = j + 1
  <2>1. ASSUME NEW i \in 1..(n + 1), i # 1 PROVE \E j \in 1..n : i = j + 1
    <3>1. i - 1 \in 1..n /\ i = (i - 1) + 1
      BY <1>2, <2>1
    <3>2. QED
      BY <3>1
  <2>2. 1 \in DOMAIN all /\ \A i \in 1..n : i + 1 \in DOMAIN all
    BY <1>2, <1>3
  <2>3. QED
    BY <1>2, <1>3, <2>1, <2>2
<1>5. RowsKnown(all)
  BY <1>1, <1>2, <1>3, <1>4 DEF RowsKnown
<1>6. \A id : Listed(all, id) <=> Listed(rows, id) \/ id = row.id
  <2>1. ASSUME NEW id, Listed(all, id) PROVE Listed(rows, id) \/ id = row.id
    BY <1>2, <1>3, <1>4, <2>1 DEF Listed
  <2>2. ASSUME NEW id, Listed(rows, id) PROVE Listed(all, id)
    BY <1>2, <1>3, <1>4, <2>2 DEF Listed
  <2>3. Listed(all, row.id)
    BY <1>3, <1>4 DEF Listed
  <2>4. QED
    BY <2>1, <2>2, <2>3
<1>7. Single(rows) /\ ~Listed(rows, row.id) => Single(all)
  BY <1>2, <1>3, <1>4 DEF Single, Listed
<1>8. QED
  BY <1>5, <1>6, <1>7

\* A list that was loaded holds the rows of the answer, each once.
LEMMA RowsLoaded ==
    ASSUME NEW rows, AnswerKnown("pending", rows), NEW all, all = Lists!SetToSeq(Lists!Loaded(rows))
    PROVE  /\ RowsKnown(all)
           /\ \A id : Listed(all, id) <=> \E row \in rows : row.id = id
           /\ (\A r, q \in rows : r.id = q.id => r = q) => Single(all)
           /\ \A i \in DOMAIN all : all[i].from = "load"
<1>1. PICK S, n : S = Lists!Loaded(rows) /\ n = Cardinality(S)
  OBVIOUS
<1>2. /\ IsFiniteSet(rows) /\ rows \subseteq [peer : Peer, id : 1..MaxInvites]
      /\ \A row \in rows : Known(row.peer, row.id)
  BY DEF AnswerKnown
<1>3. IsFiniteSet(S) /\ n \in Nat
  <2>1. PICK g : g = [row \in rows |-> [peer |-> row.peer, id |-> row.id, from |-> "load"]]
    OBVIOUS
  <2>2. g \in Surjection(rows, S)
    BY <1>1, <2>1 DEF Lists!Loaded, Surjection
  <2>3. QED
    BY <1>1, <1>2, <2>2, FS_Surjection, FS_CardinalityType
<1>4. PICK f : f \in Bijection(1..n, S)
  BY <1>1, <1>3, FS_NatBijection, FS_CountingElements DEF ExistsBijection
<1>5. f \in [1..n -> S] /\ \A i, j \in DOMAIN f : f[i] = f[j] => i = j
  BY <1>4 DEF Bijection, Injection, Surjection, IsInjective
<1>6. all = CHOOSE g \in [1..n -> S] : \A i, j \in DOMAIN g : g[i] = g[j] => i = j
  BY <1>1 DEF Lists!SetToSeq, Lists!IsInjective, Lists!Cardinality, Cardinality, Lists!IsFiniteSet, IsFiniteSet
<1>7. all \in [1..n -> S] /\ \A i, j \in DOMAIN all : all[i] = all[j] => i = j
  BY <1>5, <1>6
<1>8. all \in Surjection(1..n, S)
  <2>1. IsFiniteSet(1..n) /\ Cardinality(1..n) = n /\ all \in Injection(1..n, S)
    BY <1>3, <1>7, FS_Interval DEF Injection, IsInjective
  <2>2. QED
    BY <1>1, <1>3, <2>1, FS_Injection
<1>9. /\ \A row \in S : row \in Lists!Row /\ row.from = "load" /\ [peer |-> row.peer, id |-> row.id] \in rows
      /\ \A r \in rows : [peer |-> r.peer, id |-> r.id, from |-> "load"] \in S
      /\ \A r \in rows : r = [peer |-> r.peer, id |-> r.id]
  BY <1>1, <1>2 DEF Lists!Loaded, Lists!Row
<1>10. DOMAIN all = 1..n /\ \A i \in 1..n : all[i] \in S
  BY <1>7
<1>11. all \in Seq(Lists!Row)
  BY <1>3, <1>7, <1>9, <1>10, SeqMade
<1>12. RowsKnown(all)
  BY <1>2, <1>9, <1>10, <1>11 DEF RowsKnown
<1>13. \A id : Listed(all, id) <=> \E row \in rows : row.id = id
  <2>1. \A row \in S : \E i \in 1..n : all[i] = row
    BY <1>8 DEF Surjection
  <2>2. ASSUME NEW id, Listed(all, id) PROVE \E row \in rows : row.id = id
    <3>1. PICK i \in 1..n : all[i].id = id
      BY <1>10, <2>2 DEF Listed
    <3>2. [peer |-> all[i].peer, id |-> all[i].id] \in rows
      BY <1>9, <1>10
    <3>3. QED
      BY <3>1, <3>2
  <2>3. ASSUME NEW row \in rows PROVE Listed(all, row.id)
    <3>1. PICK i \in 1..n : all[i] = [peer |-> row.peer, id |-> row.id, from |-> "load"]
      BY <1>9, <2>1
    <3>2. QED
      BY <1>10, <3>1 DEF Listed
  <2>4. QED
    BY <2>2, <2>3
<1>14. (\A r, q \in rows : r.id = q.id => r = q) => Single(all)
  <2>1. ASSUME \A r, q \in rows : r.id = q.id => r = q, NEW i \in 1..n, NEW j \in 1..n, all[i].id = all[j].id
        PROVE  i = j
    <3>1. PICK r, q : r = all[i] /\ q = all[j] /\ r \in S /\ q \in S
      BY <1>10
    <3>2. \A row \in S : row = [peer |-> row.peer, id |-> row.id, from |-> "load"]
      BY <1>1 DEF Lists!Loaded
    <3>3. [peer |-> r.peer, id |-> r.id] = [peer |-> q.peer, id |-> q.id]
      BY <1>9, <2>1, <3>1
    <3>4. r.peer = q.peer /\ r.id = q.id
      BY <3>3
    <3>5. QED
      BY <1>7, <1>10, <3>1, <3>2, <3>4
  <2>2. QED
    BY <1>10, <2>1 DEF Single
<1>15. QED
  BY <1>9, <1>10, <1>12, <1>13, <1>14
-----------------------------------------------------------------------------
(* What is known of ids is never forgotten. *)

StaysKnown ==
    /\ Papers'
    /\ \A q, id : Known(q, id) => Known(q, id)'
    /\ \A id \in 1..changes : Deleted(id) => Deleted(id)'

LEMMA SameStaysKnown ==
    ASSUME Papers, UNCHANGED <<peerInvite, changes>>
    PROVE  StaysKnown
BY DEF StaysKnown, Papers, Paper, Known, Deleted

LEMMA ListsStayKnown ==
    ASSUME ListsKnown, StaysKnown, UNCHANGED <<pendingInvites, sentInvites, users>>
    PROVE  ListsKnown'
BY DEF ListsKnown, RowsKnown, StaysKnown, Lists!Row

LEMMA InboxStaysKnown ==
    ASSUME InboxKnown, StaysKnown, UNCHANGED inbox
    PROVE  InboxKnown'
<1>1. ASSUME NEW i \in DOMAIN inbox
      PROVE  (/\ Known(inbox[i].peer, inbox[i].id)
              /\ inbox[i].type = "chatInviteCancelled" => Deleted(inbox[i].id))'
  <2>1. PICK q, id : q = inbox[i].peer /\ id = inbox[i].id
    OBVIOUS
  <2>2. Known(q, id) /\ Known(q, id)' /\ id \in 1..changes
    BY <2>1 DEF InboxKnown, StaysKnown, Known
  <2>3. QED
    BY <2>1, <2>2 DEF InboxKnown, StaysKnown
<1>2. QED
  BY <1>1 DEF InboxKnown, Notice

LEMMA AnswersStayKnown ==
    ASSUME StaysKnown, NEW k, NEW rows, AnswerKnown(k, rows)
    PROVE  AnswerKnown(k, rows)'
BY DEF AnswerKnown, StaysKnown

LEMMA LoadsMade ==
    ASSUME load' = [k \in Lists!List |-> load'[k]],
           \A k \in Lists!List :
              \/ load'[k] = Lists!Free \/ load'[k] = Lists!Sent
              \/ \E rows : load'[k] = [at |-> "served", rows |-> rows] /\ AnswerKnown(k, rows)'
    PROVE  LoadsKnown'
<1>1. ASSUME NEW k \in Lists!List, NEW rows, load'[k] = [at |-> "served", rows |-> rows], AnswerKnown(k, rows)'
      PROVE  (load[k] = [at |-> "served", rows |-> load[k].rows] /\ AnswerKnown(k, load[k].rows))'
  BY <1>1
<1>2. QED
  BY <1>1 DEF LoadsKnown

LEMMA LoadsStayKnown ==
    ASSUME LoadsKnown, StaysKnown, UNCHANGED load
    PROVE  LoadsKnown'
<1>1. ASSUME NEW k \in {"pending", "sent", "users"}
      PROVE  \/ load[k] = Lists!Free \/ load[k] = Lists!Sent
             \/ \E rows : load[k] = [at |-> "served", rows |-> rows] /\ AnswerKnown(k, rows)'
  <2>1. CASE load[k] = [at |-> "served", rows |-> load[k].rows] /\ AnswerKnown(k, load[k].rows)
    <3>1. PICK rows : rows = load[k].rows
      OBVIOUS
    <3>2. AnswerKnown(k, rows)'
      BY <2>1, <3>1, AnswersStayKnown
    <3>3. QED
      BY <2>1, <3>1, <3>2
  <2>2. \/ load[k] = Lists!Free \/ load[k] = Lists!Sent
        \/ load[k] = [at |-> "served", rows |-> load[k].rows] /\ AnswerKnown(k, load[k].rows)
    BY <1>1 DEF LoadsKnown
  <2>3. QED
    BY <2>1, <2>2
<1>2. /\ load' = [k \in Lists!List |-> load'[k]]
      /\ \A k \in Lists!List :
              \/ load'[k] = Lists!Free \/ load'[k] = Lists!Sent
              \/ \E rows : load'[k] = [at |-> "served", rows |-> rows] /\ AnswerKnown(k, rows)'
  BY <1>1 DEF LoadsKnown
<1>3. QED
  BY <1>2, LoadsMade

LEMMA ActStaysKnown ==
    ASSUME ActKnown, StaysKnown, UNCHANGED act
    PROVE  ActKnown'
BY DEF ActKnown, StaysKnown

LEMMA PageStaysKnown ==
    ASSUME PageKnown, UNCHANGED <<mounted, profile>>
    PROVE  PageKnown'
BY DEF PageKnown

\* An event is added to those on the way, or lost.
LEMMA NoticeSent ==
    ASSUME InboxKnown, StaysKnown, NEW e \in Notice, Lists!Emit(e), Known(e.peer, e.id)',
           e.type = "chatInviteCancelled" => Deleted(e.id)'
    PROVE  InboxKnown'
<1>1. PICK E, n : E = Notice /\ n = Len(inbox)
  OBVIOUS
<1>2. inbox \in Seq(E) /\ e \in E /\ n \in Nat /\ DOMAIN inbox = 1..n
  BY <1>1, SeqMembers DEF InboxKnown
<1>3. CASE inbox' = Append(inbox, e)
  <2>1. /\ inbox' \in Seq(E) /\ DOMAIN inbox' = 1..(n + 1) /\ inbox'[n + 1] = e
        /\ \A i \in 1..n : inbox'[i] = inbox[i]
    BY <1>1, <1>2, <1>3
  <2>2. ASSUME NEW i \in DOMAIN inbox'
        PROVE  (/\ Known(inbox[i].peer, inbox[i].id)
                /\ inbox[i].type = "chatInviteCancelled" => Deleted(inbox[i].id))'
    <3>1. CASE i = n + 1
      BY <2>1, <3>1
    <3>2. CASE i \in DOMAIN inbox /\ inbox'[i] = inbox[i]
      BY <3>2 DEF InboxKnown, StaysKnown, Known
    <3>3. QED
      BY <1>2, <2>1, <3>1, <3>2
  <2>3. Notice' = Notice
    BY DEF Notice
  <2>4. QED
    BY <1>1, <2>1, <2>2, <2>3 DEF InboxKnown
<1>4. QED
  BY <1>3, InboxStaysKnown DEF Lists!Emit

\* The first event is taken, or all are lost.
LEMMA NoticeTaken ==
    ASSUME InboxKnown, inbox # <<>>
    PROVE  /\ 1 \in DOMAIN inbox /\ Head(inbox) = inbox[1] /\ Tail(inbox) \in Seq(Notice)
           /\ \A i \in DOMAIN Tail(inbox) : /\ i + 1 \in DOMAIN inbox /\ i + 1 > 1
                                            /\ Tail(inbox)[i] = inbox[i + 1]
           /\ \A j \in DOMAIN inbox : j # 1 => \E i \in DOMAIN Tail(inbox) : j = i + 1
<1>1. PICK E, n, rest : E = Notice /\ n = Len(inbox) /\ rest = Tail(inbox)
  OBVIOUS
<1>2. inbox \in Seq(E) /\ n \in Nat /\ DOMAIN inbox = 1..n /\ inbox # <<>>
  BY <1>1, SeqMembers DEF InboxKnown
<1>3. n # 0 /\ 1 \in 1..n /\ Head(inbox) = inbox[1]
  BY <1>1, <1>2
<1>4. /\ rest \in Seq(E) /\ DOMAIN rest = 1..(n - 1)
      /\ \A i \in 1..(n - 1) : rest[i] = inbox[i + 1]
  BY <1>1, <1>2, <1>3
<1>5. \A i \in 1..(n - 1) : i + 1 \in 1..n /\ i + 1 > 1
  BY <1>2
<1>6. ASSUME NEW j \in 1..n, j # 1 PROVE \E i \in 1..(n - 1) : j = i + 1
  <2>1. j - 1 \in 1..(n - 1) /\ j = (j - 1) + 1
    BY <1>2, <1>6
  <2>2. QED
    BY <2>1
<1>7. QED
  BY <1>1, <1>2, <1>3, <1>4, <1>5, <1>6

-----------------------------------------------------------------------------
LEMMA PeerActsKeeps == ASSUME ListsKept, NEW p \in Peer, Lists!PeerActs(p) PROVE ListsKept'
<1> USE DEF ListsKept
<1>1. /\ Lists!Counted
      /\ UNCHANGED <<connected, mounted, profile, returns, pendingInvites, sentInvites, users, load, act, faults>>
  BY DEF Lists!PeerActs, Lists!page, Lists!lists
<1>2. StaysKnown
  BY <1>1, Changes DEF Lists!PeerActs, StaysKnown
<1>3. \E e \in Notice : /\ Lists!Emit(e) /\ Known(e.peer, e.id)'
                        /\ e.type = "chatInviteCancelled" => Deleted(e.id)'
  <2>1. peerInvite[p] \in Paper /\ peerInvite \in [Peer -> Paper] /\ changes \in 0..MaxInvites /\ Papers'
    BY <1>2 DEF Papers, StaysKnown
  <2>2. \A q \in Peer : peerInvite[q].id \in 0..MaxInvites
    BY <2>1 DEF Paper
  <2>3. ASSUME NEW q \in Peer, peerInvite[q].status # "none"
        PROVE  Known(q, peerInvite[q].id) /\ peerInvite[q].id \in 1..MaxInvites
    <3>1. peerInvite[q].id \in 0..MaxInvites /\ peerInvite[q].id # 0 /\ peerInvite[q].id <= changes
      BY <2>2, <2>3 DEF Papers
    <3>2. peerInvite[q].id \in 1..changes /\ peerInvite[q].id \in 1..MaxInvites
      BY <2>1, <3>1
    <3>3. QED
      BY <3>1, <3>2 DEF Known, Papers
  <2>4. CASE Lists!Inviting(p, "peer") /\ Lists!Emit([type |-> "newChatInvite", peer |-> p, id |-> peerInvite'[p].id])
    <3>1. peerInvite'[p].status = "pending" /\ peerInvite' \in [Peer -> Paper] /\ changes' \in 0..MaxInvites
      BY <2>1, <2>4 DEF Lists!Inviting, Papers
    <3>2. peerInvite'[p].id \in 0..MaxInvites /\ peerInvite'[p].id # 0 /\ peerInvite'[p].id <= changes'
      BY <2>1, <3>1 DEF Papers, Paper
    <3>3. peerInvite'[p].id \in 1..changes' /\ peerInvite'[p].id \in 1..MaxInvites
      BY <3>1, <3>2
    <3>4. PICK e, id : e = [type |-> "newChatInvite", peer |-> p, id |-> id] /\ id = peerInvite'[p].id
      OBVIOUS
    <3>5. Known(p, id)'
      BY <2>1, <3>2, <3>3, <3>4 DEF Known, Papers
    <3>6. e \in Notice /\ e.peer = p /\ e.id = id /\ e.type = "newChatInvite"
      BY <3>3, <3>4 DEF Notice
    <3>7. QED
      BY <2>4, <3>4, <3>5, <3>6
  <2>5. CASE \E status \in {"accepted", "rejected"}, type \in {"chatInviteAccepted", "chatInviteRejected"} :
                /\ Lists!Answering(p, "user", status)
                /\ Lists!Emit([type |-> type, peer |-> p, id |-> peerInvite[p].id])
    <3>1. PICK type \in {"chatInviteAccepted", "chatInviteRejected"} :
             Lists!Emit([type |-> type, peer |-> p, id |-> peerInvite[p].id])
      BY <2>5
    <3>2. peerInvite[p].status # "none"
      BY <2>5 DEF Lists!Answering, Lists!Pending
    <3>3. PICK e, id : e = [type |-> type, peer |-> p, id |-> id] /\ id = peerInvite[p].id
      OBVIOUS
    <3>4. Known(p, id)'
      BY <1>2, <2>3, <3>2, <3>3 DEF StaysKnown
    <3>5. e \in Notice /\ e.peer = p /\ e.id = id /\ e.type = type
      BY <2>3, <3>2, <3>3 DEF Notice
    <3>6. QED
      BY <3>1, <3>3, <3>4, <3>5
  <2>6. CASE /\ Lists!Cancelling(p, "peer")
             /\ Lists!Emit([type |-> "chatInviteCancelled", peer |-> p, id |-> peerInvite[p].id])
    <3>1. peerInvite[p].status # "none" /\ peerInvite' = [peerInvite EXCEPT ![p] = Lists!NoInvite]
      BY <2>6 DEF Lists!Cancelling, Lists!Pending
    <3>2. PICK e, id : e = [type |-> "chatInviteCancelled", peer |-> p, id |-> id] /\ id = peerInvite[p].id
      OBVIOUS
    <3>3. Known(p, id) /\ id \in 1..MaxInvites /\ Known(p, id)'
      BY <1>2, <2>3, <3>1, <3>2 DEF StaysKnown
    <3>4. \A q \in Peer : peerInvite'[q].id # id
      <4>1. \A q \in Peer : peerInvite'[q] = IF q = p THEN Lists!NoInvite ELSE peerInvite[q]
        BY <2>1, <3>1
      <4>2. id # 0 /\ Lists!NoInvite.id = 0 /\ \A q \in Peer : peerInvite[q].id = id => q = p
        BY <3>3 DEF Known
      <4>3. QED
        BY <4>1, <4>2
    <3>5. e \in Notice /\ e.peer = p /\ e.id = id
      BY <3>2, <3>3 DEF Notice
    <3>6. Deleted(id)'
      BY <3>4 DEF Deleted
    <3>7. QED
      BY <2>6, <3>2, <3>3, <3>5, <3>6
  <2>7. QED
    BY <2>4, <2>5, <2>6 DEF Lists!PeerActs
<1>4. InboxKnown'
  BY <1>2, <1>3, NoticeSent
<1>5. QED
  BY <1>1, <1>2, <1>4, ListsStayKnown, LoadsStayKnown, ActStaysKnown, PageStaysKnown DEF StaysKnown

LEMMA OtherTabKeeps == ASSUME ListsKept, NEW p \in Peer, Lists!OtherTabActs(p) PROVE ListsKept'
<1>1. StaysKnown
  BY Changes DEF ListsKept, Lists!OtherTabActs, StaysKnown
<1>2. QED
  BY <1>1, ListsStayKnown, InboxStaysKnown, LoadsStayKnown, ActStaysKnown, PageStaysKnown
  DEF ListsKept, StaysKnown, Lists!OtherTabActs, Lists!page, Lists!lists

\* The rows of an answer are the invites there are.
LEMMA RowsServed ==
    ASSUME Papers, NEW who
    PROVE  AnswerKnown("pending", Lists!Rows(who))
<1> DEFINE S == {q \in Peer : Lists!Pending(q, who)}
           R == Lists!Rows(who)
           f == [q \in S |-> [peer |-> q, id |-> peerInvite[q].id]]
<1>1. f \in Surjection(S, R) /\ IsFiniteSet(S)
  BY FS_Subset DEF Lists!Rows, Surjection
<1>2. IsFiniteSet(R)
  BY <1>1, FS_Surjection
<1>3. ASSUME NEW q \in S PROVE peerInvite[q].id \in 1..MaxInvites /\ Known(q, peerInvite[q].id)
  <2>1. /\ peerInvite[q] \in Paper /\ peerInvite[q].id # 0 /\ peerInvite[q].id <= changes
        /\ changes \in 0..MaxInvites
    BY DEF Papers, Lists!Pending
  <2>2. peerInvite[q].id \in 1..MaxInvites /\ peerInvite[q].id \in 1..changes
    BY <2>1 DEF Paper
  <2>3. QED
    BY <2>1, <2>2 DEF Known, Papers
<1>4. R \subseteq [peer : Peer, id : 1..MaxInvites] /\ \A row \in R : Known(row.peer, row.id)
  BY <1>3 DEF Lists!Rows
<1>5. QED
  BY <1>2, <1>4 DEF AnswerKnown

\* One load makes progress.
LEMMA LoadMoved ==
    ASSUME LoadsKnown, StaysKnown, NEW k \in Lists!List, NEW l, load' = [load EXCEPT ![k] = l],
           \/ l = Lists!Free \/ l = Lists!Sent
           \/ \E rows : l = [at |-> "served", rows |-> rows] /\ AnswerKnown(k, rows)'
    PROVE  LoadsKnown'
<1>1. /\ load' = [m \in Lists!List |-> load'[m]] /\ load'[k] = l
      /\ \A m \in Lists!List : m # k => load'[m] = load[m]
  BY DEF LoadsKnown
<1>2. ASSUME NEW m \in Lists!List, m # k
      PROVE  \/ load'[m] = Lists!Free \/ load'[m] = Lists!Sent
             \/ \E rows : load'[m] = [at |-> "served", rows |-> rows] /\ AnswerKnown(m, rows)'
  <2>1. CASE load[m] = [at |-> "served", rows |-> load[m].rows] /\ AnswerKnown(m, load[m].rows)
    <3>1. PICK rows : rows = load[m].rows
      OBVIOUS
    <3>2. AnswerKnown(m, rows)'
      BY <2>1, <3>1, AnswersStayKnown
    <3>3. QED
      BY <1>1, <1>2, <2>1, <3>1, <3>2
  <2>2. QED
    BY <1>1, <1>2, <2>1 DEF LoadsKnown
<1>3. QED
  BY <1>1, <1>2, LoadsMade

LEMMA ServeLoadKeeps == ASSUME ListsKept, NEW k \in Lists!List, Lists!ServeLoad(k) PROVE ListsKept'
<1>1. StaysKnown
  BY SameStaysKnown DEF ListsKept, Lists!ServeLoad
<1>2. PICK rows : /\ load' = [load EXCEPT ![k] = [at |-> "served", rows |-> rows]]
                  /\ rows = CASE k = "pending" -> Lists!Rows("peer")
                              [] k = "sent"    -> Lists!Rows("user")
                              [] k = "users"   -> {p \in Peer : peerInvite[p].status = "accepted"}
  BY DEF Lists!ServeLoad
<1>3. AnswerKnown(k, rows)
  <2>1. CASE k = "users"
    BY <1>2, <2>1 DEF AnswerKnown
  <2>2. CASE k \in {"pending", "sent"}
    <3>1. PICK who \in {"peer", "user"} : rows = Lists!Rows(who)
      BY <1>2, <2>2
    <3>2. AnswerKnown("pending", rows)
      BY <3>1, RowsServed DEF ListsKept
    <3>3. QED
      BY <2>2, <3>2 DEF AnswerKnown
  <2>3. QED
    BY <2>1, <2>2
<1>4. LoadsKnown'
  BY <1>1, <1>2, <1>3, AnswersStayKnown, LoadMoved DEF ListsKept
<1>5. QED
  BY <1>1, <1>4, ListsStayKnown, InboxStaysKnown, ActStaysKnown, PageStaysKnown
  DEF ListsKept, StaysKnown, Lists!ServeLoad, Lists!page, Lists!lists

LEMMA ReceiveLoadKeeps == ASSUME ListsKept, NEW k \in Lists!List, Lists!ReceiveLoad(k) PROVE ListsKept'
<1>1. StaysKnown
  BY SameStaysKnown DEF ListsKept, Lists!ReceiveLoad
<1>2. LoadsKnown'
  BY <1>1, LoadMoved DEF ListsKept, Lists!ReceiveLoad
<1>3. PICK rows : rows = load[k].rows
  OBVIOUS
<1>4. AnswerKnown(k, rows)
  BY <1>3 DEF ListsKept, LoadsKnown, Lists!ReceiveLoad
<1>5. ListsKnown'
  <2>1. CASE k = "users"
    <3>1. users' \subseteq Peer /\ UNCHANGED <<pendingInvites, sentInvites>>
      BY <1>3, <1>4, <2>1 DEF Lists!ReceiveLoad, AnswerKnown
    <3>2. QED
      BY <1>1, <3>1 DEF ListsKept, ListsKnown, RowsKnown, StaysKnown, Lists!Row
  <2>2. CASE k \in {"pending", "sent"}
    <3>1. PICK all : all = Lists!SetToSeq(Lists!Loaded(rows))
      OBVIOUS
    <3>2. RowsKnown(all) /\ \A i \in DOMAIN all : all[i].from = "load"
      BY <1>4, <2>2, <3>1, RowsLoaded DEF AnswerKnown
    <3>3. /\ pendingInvites' = IF k = "pending" THEN all ELSE pendingInvites
          /\ sentInvites' = IF k = "sent" THEN all ELSE sentInvites
          /\ users' = users
      BY <1>3, <2>2, <3>1 DEF Lists!ReceiveLoad
    <3>4. QED
      BY <1>1, <3>2, <3>3 DEF ListsKept, ListsKnown, RowsKnown, StaysKnown, Lists!Row
  <2>3. QED
    BY <2>1, <2>2
<1>6. QED
  BY <1>1, <1>2, <1>5, InboxStaysKnown, ActStaysKnown, PageStaysKnown
  DEF ListsKept, StaysKnown, Lists!ReceiveLoad, Lists!page

LEMMA FailLoadKeeps == ASSUME ListsKept, NEW k \in Lists!List, Lists!FailLoad(k) PROVE ListsKept'
<1>1. StaysKnown
  BY SameStaysKnown DEF ListsKept, Lists!FailLoad
<1>2. LoadsKnown'
  BY <1>1, LoadMoved DEF ListsKept, Lists!FailLoad
<1>3. ListsKnown'
  BY <1>1 DEF ListsKept, ListsKnown, RowsKnown, StaysKnown, Lists!Row, Lists!FailLoad
<1>4. QED
  BY <1>1, <1>2, <1>3, InboxStaysKnown, ActStaysKnown, PageStaysKnown
  DEF ListsKept, StaysKnown, Lists!FailLoad, Lists!page

LEMMA ReceiveEventKeeps == ASSUME ListsKept, Lists!ReceiveEvent PROVE ListsKept'
<1>1. StaysKnown
  BY SameStaysKnown DEF ListsKept, Lists!ReceiveEvent
<1>2. PICK e : e = Head(inbox)
  OBVIOUS
<1>3. 1 \in DOMAIN inbox /\ e = inbox[1] /\ e \in Notice /\ Known(e.peer, e.id)
  BY <1>2, NoticeTaken, SeqMembers DEF ListsKept, InboxKnown, Lists!ReceiveEvent
<1>4. InboxKnown'
  <2>1. PICK rest : rest = Tail(inbox)
    OBVIOUS
  <2>2. /\ rest \in Seq(Notice)
        /\ \A i \in DOMAIN rest : /\ Known(rest[i].peer, rest[i].id)
                                  /\ rest[i].type = "chatInviteCancelled" => Deleted(rest[i].id)
    BY <2>1, NoticeTaken DEF ListsKept, InboxKnown, Lists!ReceiveEvent
  <2>3. inbox' = rest /\ UNCHANGED <<peerInvite, changes>>
    BY <2>1 DEF Lists!ReceiveEvent
  <2>4. QED
    BY <2>2, <2>3 DEF InboxKnown, Notice, Known, Deleted
<1>5. ListsKnown'
  <2>1. CASE UNCHANGED <<pendingInvites, sentInvites>>
    BY <1>1, <2>1, ListsStayKnown DEF ListsKept, Lists!ReceiveEvent
  <2>2. CASE Lists!OnEvent(e)
    <3>1. RowsKnown(pendingInvites) /\ RowsKnown(sentInvites)
      BY DEF ListsKept, ListsKnown
    <3>2. PICK row, all, left, rest :
             /\ row = [peer |-> e.peer, id |-> e.id, from |-> "event"] /\ all = <<row>> \o pendingInvites
             /\ left = Lists!Without(pendingInvites, e.id) /\ rest = Lists!Without(sentInvites, e.id)
      OBVIOUS
    <3>3. row \in Lists!Row /\ row.peer = e.peer /\ row.id = e.id
      BY <1>3, <3>2 DEF Notice, Lists!Row
    <3>4. RowsKnown(all)
      BY <1>3, <3>1, <3>2, <3>3, RowAdded
    <3>5. /\ RowsKnown(left) /\ RowsKnown(rest)
          /\ \A i \in DOMAIN rest : rest[i].from = "load"
      BY <3>1, <3>2, WithoutKnown DEF ListsKept, ListsKnown
    <3>6. /\ pendingInvites' \in {pendingInvites, all, left} /\ sentInvites' \in {sentInvites, rest}
          /\ UNCHANGED <<users, peerInvite, changes>>
      BY <2>2, <3>2 DEF Lists!OnEvent, Lists!ReceiveEvent
    <3>7. QED
      BY <3>1, <3>4, <3>5, <3>6 DEF ListsKept, ListsKnown, RowsKnown, Known, Lists!Row
  <2>3. QED
    BY <1>2, <2>1, <2>2 DEF Lists!ReceiveEvent
<1>6. QED
  BY <1>1, <1>4, <1>5, LoadsStayKnown, ActStaysKnown, PageStaysKnown
  DEF ListsKept, StaysKnown, Lists!ReceiveEvent, Lists!page

LEMMA DropKeeps == ASSUME ListsKept, Lists!Drop PROVE ListsKept'
<1>1. StaysKnown
  BY SameStaysKnown DEF ListsKept, Lists!Drop
<1>2. InboxKnown'
  BY DEF InboxKnown, Lists!Drop
<1>3. QED
  BY <1>1, <1>2, ListsStayKnown, LoadsStayKnown, ActStaysKnown, PageStaysKnown
  DEF ListsKept, StaysKnown, Lists!Drop, Lists!page, Lists!lists

LEMMA ReconnectKeeps == ASSUME ListsKept, Lists!Reconnect PROVE ListsKept'
<1>1. StaysKnown
  BY SameStaysKnown DEF ListsKept, Lists!Reconnect
<1>2. QED
  BY <1>1, ListsStayKnown, InboxStaysKnown, LoadsStayKnown, ActStaysKnown, PageStaysKnown
  DEF ListsKept, StaysKnown, Lists!Reconnect, Lists!page, Lists!lists

LEMMA ClickKeeps == ASSUME ListsKept, Lists!Click PROVE ListsKept'
<1>1. PICK op, p, id : /\ Lists!Ask(op, p, id)
                       /\ op \in {"send", "accept", "reject", "cancel"} /\ p \in Peer
                       /\ op # "send" => Known(p, id)
  <2>1. CASE \E i \in DOMAIN pendingInvites, op \in {"accept", "reject"} :
                Lists!Ask(op, pendingInvites[i].peer, pendingInvites[i].id)
    BY <2>1 DEF ListsKept, ListsKnown, RowsKnown, Known
  <2>2. CASE \E i \in DOMAIN sentInvites : Lists!Ask("cancel", sentInvites[i].peer, sentInvites[i].id)
    BY <2>2 DEF ListsKept, ListsKnown, RowsKnown, Known
  <2>3. CASE profile.of # NoPeer /\ Lists!Ask("send", profile.of, 0)
    BY <2>3 DEF ListsKept, PageKnown
  <2>4. QED
    BY <2>1, <2>2, <2>3 DEF Lists!Click
<1>2. StaysKnown
  BY <1>1, SameStaysKnown DEF ListsKept, Lists!Ask
<1>3. ActKnown'
  <2>1. act' = [at |-> "sent", op |-> op, peer |-> p, id |-> id] /\ UNCHANGED <<peerInvite, changes>>
    BY <1>1 DEF Lists!Ask
  <2>2. QED
    BY <1>1, <2>1 DEF ActKnown, Known
<1>4. QED
  BY <1>1, <1>2, <1>3, ListsStayKnown, InboxStaysKnown, LoadsStayKnown, PageStaysKnown
  DEF ListsKept, StaysKnown, Lists!Ask, Lists!page, Lists!lists

LEMMA ServeActKeeps == ASSUME ListsKept, Lists!ServeAct PROVE ListsKept'
<1>1. act # Lists!Free /\ act.peer \in Peer /\ act.op \in {"send", "accept", "reject", "cancel"}
  BY DEF ListsKept, ActKnown, Lists!ServeAct
<1>2. StaysKnown
  BY <1>1, Changes DEF ListsKept, Lists!ServeAct, Lists!Allowed, StaysKnown
<1>3. ActKnown'
  BY <1>1, <1>2 DEF ListsKept, ActKnown, Lists!ServeAct, StaysKnown
<1>4. QED
  BY <1>2, <1>3, ListsStayKnown, InboxStaysKnown, LoadsStayKnown, PageStaysKnown
  DEF ListsKept, StaysKnown, Lists!ServeAct, Lists!page, Lists!lists

LEMMA RefuseActKeeps == ASSUME ListsKept, Lists!RefuseAct PROVE ListsKept'
<1>1. StaysKnown
  BY SameStaysKnown DEF ListsKept, Lists!RefuseAct
<1>2. ActKnown'
  BY DEF ActKnown, Lists!RefuseAct
<1>3. QED
  BY <1>1, <1>2, ListsStayKnown, InboxStaysKnown, LoadsStayKnown, PageStaysKnown
  DEF ListsKept, StaysKnown, Lists!RefuseAct, Lists!page, Lists!lists

LEMMA ReceiveActKeeps == ASSUME ListsKept, Lists!ReceiveAct PROVE ListsKept'
<1>1. StaysKnown
  BY SameStaysKnown DEF ListsKept, Lists!ReceiveAct
<1>2. ActKnown'
  BY DEF ActKnown, Lists!ReceiveAct
<1>3. LoadsKnown'
  <2>1. \/ UNCHANGED load
        \/ \E k \in Lists!List : load' = [load EXCEPT ![k] = Lists!Sent]
    BY DEF Lists!ReceiveAct, Lists!AskUnlessLoading
  <2>2. QED
    BY <1>1, <2>1, LoadsStayKnown, LoadMoved DEF ListsKept
<1>4. ListsKnown'
  <2>1. RowsKnown(pendingInvites) /\ RowsKnown(sentInvites)
    BY DEF ListsKept, ListsKnown
  <2>2. PICK left, rest : left = Lists!Without(pendingInvites, act.id) /\ rest = Lists!Without(sentInvites, act.id)
    OBVIOUS
  <2>3. RowsKnown(left) /\ RowsKnown(rest) /\ \A i \in DOMAIN rest : rest[i].from = "load"
    BY <2>1, <2>2, WithoutKnown DEF ListsKept, ListsKnown
  <2>4. /\ pendingInvites' \in {pendingInvites, left} /\ sentInvites' \in {sentInvites, rest}
        /\ UNCHANGED <<users, peerInvite, changes>>
    BY <2>2 DEF Lists!ReceiveAct
  <2>5. QED
    BY <2>1, <2>3, <2>4 DEF ListsKept, ListsKnown, RowsKnown, Known, Lists!Row
<1>5. PageKnown'
  <2>1. act.peer \in Peer \/ act = Lists!Free
    BY DEF ListsKept, ActKnown
  <2>2. act.at = "done"
    BY DEF Lists!ReceiveAct
  <2>3. act.peer \in Peer
    BY <2>1, <2>2
  <2>4. CASE UNCHANGED profile
    BY <2>4 DEF ListsKept, PageKnown, Lists!ReceiveAct
  <2>5. CASE profile.of = act.peer /\ profile' = [profile EXCEPT !.status = "pending"]
    <3>1. ~mounted
      BY <2>3, <2>5 DEF ListsKept, PageKnown
    <3>2. profile' = [of |-> profile'.of, status |-> profile'.status] /\ profile'.of \in Peer
      BY <2>3, <2>5, <3>1 DEF ListsKept, PageKnown
    <3>3. QED
      BY <3>1, <3>2 DEF ListsKept, PageKnown, Lists!ReceiveAct
  <2>6. QED
    BY <2>4, <2>5 DEF Lists!ReceiveAct
<1>6. QED
  BY <1>1, <1>2, <1>3, <1>4, <1>5, InboxStaysKnown DEF ListsKept, StaysKnown, Lists!ReceiveAct

LEMMA OpenProfileKeeps == ASSUME ListsKept, NEW p \in Peer, Lists!OpenProfile(p) PROVE ListsKept'
<1>1. StaysKnown
  BY SameStaysKnown DEF ListsKept, Lists!OpenProfile
<1>2. PageKnown'
  BY DEF PageKnown, Lists!OpenProfile
<1>3. QED
  BY <1>1, <1>2, ListsStayKnown, InboxStaysKnown, LoadsStayKnown, ActStaysKnown
  DEF ListsKept, StaysKnown, Lists!OpenProfile, Lists!lists

LEMMA ReturnHomeKeeps == ASSUME ListsKept, Lists!ReturnHome PROVE ListsKept'
<1>1. StaysKnown
  BY SameStaysKnown DEF ListsKept, Lists!ReturnHome
<1>2. PageKnown'
  BY DEF PageKnown, Lists!ReturnHome
<1>3. LoadsKnown'
  <2>1. /\ load' = [k \in Lists!List |-> load'[k]]
        /\ \A k \in Lists!List : load'[k] = Lists!Sent \/ load'[k] = load[k]
    BY DEF Lists!ReturnHome
  <2>2. ASSUME NEW k \in Lists!List
        PROVE  \/ load'[k] = Lists!Free \/ load'[k] = Lists!Sent
               \/ \E rows : load'[k] = [at |-> "served", rows |-> rows] /\ AnswerKnown(k, rows)'
    <3>1. CASE load[k] = [at |-> "served", rows |-> load[k].rows] /\ AnswerKnown(k, load[k].rows)
      <4>1. PICK rows : rows = load[k].rows
        OBVIOUS
      <4>2. AnswerKnown(k, rows)'
        BY <1>1, <3>1, <4>1, AnswersStayKnown
      <4>3. QED
        BY <2>1, <3>1, <4>1, <4>2
    <3>2. QED
      BY <2>1, <2>2, <3>1 DEF ListsKept, LoadsKnown
  <2>3. QED
    BY <2>1, <2>2, LoadsMade
<1>4. QED
  BY <1>1, <1>2, <1>3, ListsStayKnown, InboxStaysKnown, ActStaysKnown
  DEF ListsKept, StaysKnown, Lists!ReturnHome, Lists!lists

LEMMA InitListsKept == Lists!Init => ListsKept
<1> SUFFICES ASSUME Lists!Init PROVE ListsKept
  OBVIOUS
<1> USE DEF Lists!Init
<1>1. Papers
  BY DEF Papers, Paper
<1>2. ListsKnown /\ InboxKnown
  BY DEF ListsKnown, InboxKnown, RowsKnown
<1>3. LoadsKnown /\ ActKnown /\ PageKnown
  BY DEF LoadsKnown, ActKnown, PageKnown
<1>4. QED
  BY <1>1, <1>2, <1>3 DEF ListsKept

LEMMA NextListsKept == ListsKept /\ Lists!Next => ListsKept'
BY PeerActsKeeps, OtherTabKeeps, OpenProfileKeeps, ServeLoadKeeps, ReceiveLoadKeeps, FailLoadKeeps,
   ReceiveEventKeeps, DropKeeps, ReconnectKeeps, ClickKeeps, ServeActKeeps, RefuseActKeeps,
   ReceiveActKeeps, ReturnHomeKeeps
DEF Lists!Next
-----------------------------------------------------------------------------
(* A tab that has been told of everything. *)

Told(types, id) == \E i \in DOMAIN inbox : inbox[i].type \in types /\ inbox[i].id = id

Coming(id)  == Told({"newChatInvite"}, id)
Going(id)   == Told({"chatInviteCancelled"}, id)
Leaving(id) == Told({"chatInviteAccepted", "chatInviteRejected"}, id)

\* The answer of a button is on its way.
Reply == {"accept", "reject"}
Done(ops, id) == act.at = "done" /\ act.op \in ops /\ act.id = id

\* The invites the user was sent are those that are listed or announced, short of
\* those whose end is announced or answered.
PendingRight ==
    /\ Single(pendingInvites)
    /\ \A i, j \in DOMAIN inbox :
          inbox[i].type = "newChatInvite" /\ inbox[i].id = inbox[j].id =>
             /\ inbox[j].type = "newChatInvite" => j = i
             /\ inbox[j].type = "chatInviteCancelled" => j > i
    /\ \A id : Coming(id) => ~Listed(pendingInvites, id)
    /\ \A id : id \in Lists!Ids("peer") <=>
          (Listed(pendingInvites, id) \/ Coming(id)) /\ ~Going(id) /\ ~Done(Reply, id)

SentRight ==
    /\ Single(sentInvites)
    /\ \A id : id \in Lists!Ids("user") <=>
          Listed(sentInvites, id) /\ ~Leaving(id) /\ ~Done({"cancel"}, id)

\* While a list is loaded, nothing happens.
Calm ==
    /\ connected
    /\ act # Lists!Free => act.op # "send"
    /\ act.at = "done" => ~Lists!Loading
    /\ Lists!Loading => inbox = <<>>

ServedRight ==
    /\ load["pending"].at = "served" => load["pending"].rows = Lists!Rows("peer")
    /\ load["sent"].at = "served" => load["sent"].rows = Lists!Rows("user")
    /\ load["users"].at = "served" => load["users"].rows = Lists!Accepted \ untold

UsersRight ==
    load["users"] = Lists!Free /\ ~(act.at = "done" /\ act.op = "accept") =>
       users = Lists!Accepted \ untold

\* What the user answers is theirs to answer, and not announced again.
ActRight ==
    act # Lists!Free /\ act.op \in Reply =>
       /\ ~Coming(act.id)
       /\ act.at = "sent" => \A q \in Peer : peerInvite[q].id = act.id => Lists!Pending(q, "peer")

Steady ==
    /\ Calm /\ ServedRight /\ UsersRight /\ ActRight
    /\ load["pending"] = Lists!Free => PendingRight
    /\ load["sent"] = Lists!Free => SentRight

\* What a step may do without a race.
Undisturbed ==
    /\ \A q \in Peer : ~Lists!OtherTabActs(q)
    /\ UNCHANGED faults
    /\ Lists!Loading' => inbox' = <<>> /\ UNCHANGED peerInvite
    /\ act.at = "done" => UNCHANGED peerInvite
    /\ untold' = IF Lists!ServeLoad("users") THEN {}
                 ELSE untold \cup {q \in Peer : peerInvite[q].by = "user" /\
                         peerInvite[q].status = "pending" /\ peerInvite'[q].status = "accepted"}

LEMMA IdsAre ==
    ASSUME NEW who
    PROVE  \A id : id \in Lists!Ids(who) <=> \E q \in Peer : Lists!Pending(q, who) /\ peerInvite[q].id = id
<1>1. ASSUME NEW id \in Lists!Ids(who) PROVE \E q \in Peer : Lists!Pending(q, who) /\ peerInvite[q].id = id
  <2>1. PICK row \in Lists!Rows(who) : row.id = id
    BY <1>1 DEF Lists!Ids
  <2>2. PICK q \in Peer : Lists!Pending(q, who) /\ row = [peer |-> q, id |-> peerInvite[q].id]
    BY DEF Lists!Rows
  <2>3. QED
    BY <2>1, <2>2
<1>2. ASSUME NEW q \in Peer, Lists!Pending(q, who) PROVE peerInvite[q].id \in Lists!Ids(who)
  <2>1. PICK row : row = [peer |-> q, id |-> peerInvite[q].id]
    OBVIOUS
  <2>2. row \in Lists!Rows(who) /\ row.id = peerInvite[q].id
    BY <1>2, <2>1 DEF Lists!Rows
  <2>3. QED
    BY <2>2 DEF Lists!Ids
<1>3. QED
  BY <1>1, <1>2

LEMMA IdsAreNext ==
    ASSUME NEW who
    PROVE  \A id : id \in Lists!Ids(who)' <=> \E q \in Peer : Lists!Pending(q, who)' /\ peerInvite'[q].id = id
<1>1. ASSUME NEW id \in Lists!Ids(who)'
      PROVE  \E q \in Peer : Lists!Pending(q, who)' /\ peerInvite'[q].id = id
  <2>1. PICK row \in Lists!Rows(who)' : row.id = id
    BY <1>1 DEF Lists!Ids
  <2>2. PICK q \in Peer : Lists!Pending(q, who)' /\ row = [peer |-> q, id |-> peerInvite'[q].id]
    BY DEF Lists!Rows
  <2>3. QED
    BY <2>1, <2>2
<1>2. ASSUME NEW q \in Peer, Lists!Pending(q, who)' PROVE peerInvite'[q].id \in Lists!Ids(who)'
  <2>1. PICK row : row = [peer |-> q, id |-> peerInvite'[q].id]
    OBVIOUS
  <2>2. row \in Lists!Rows(who)' /\ row.id = peerInvite'[q].id
    BY <1>2, <2>1 DEF Lists!Rows
  <2>3. QED
    BY <2>2 DEF Lists!Ids
<1>3. QED
  BY <1>1, <1>2

LEMMA LoadingIs == LoadsKnown => (Lists!Loading <=> ~(/\ load["pending"] = Lists!Free
                                                     /\ load["sent"] = Lists!Free
                                                     /\ load["users"] = Lists!Free))
BY DEF Lists!Loading

\* The contacts are not read by a step that leaves their load alone.
LEMMA NotRead ==
    ASSUME LoadsKnown, load'["users"] = load["users"]
    PROVE  ~Lists!ServeLoad("users")
BY DEF LoadsKnown, Lists!ServeLoad

LEMMA PendingStays ==
    ASSUME PendingRight, UNCHANGED <<pendingInvites, inbox>>, Lists!Ids("peer")' = Lists!Ids("peer"),
           \A id : Done(Reply, id)' <=> Done(Reply, id)
    PROVE  PendingRight'
BY DEF PendingRight, Single, Listed, Coming, Going, Told

LEMMA SentStays ==
    ASSUME SentRight, UNCHANGED <<sentInvites, inbox>>, Lists!Ids("user")' = Lists!Ids("user"),
           \A id : Done({"cancel"}, id)' <=> Done({"cancel"}, id)
    PROVE  SentRight'
BY DEF SentRight, Single, Listed, Leaving, Told

LEMMA NoticeAdded ==
    ASSUME InboxKnown, NEW e \in Notice, inbox' = Append(inbox, e)
    PROVE  /\ \E n : /\ DOMAIN inbox' = DOMAIN inbox \cup {n} /\ inbox'[n] = e
                     /\ \A i \in DOMAIN inbox : inbox'[i] = inbox[i] /\ n > i /\ n # i /\ ~(i > n)
           /\ \A types, id : Told(types, id)' <=> Told(types, id) \/ (e.type \in types /\ e.id = id)
<1>1. PICK E, k : E = Notice /\ k = Len(inbox)
  OBVIOUS
<1>2. inbox \in Seq(E) /\ e \in E /\ k \in Nat /\ DOMAIN inbox = 1..k
  BY <1>1, SeqMembers DEF InboxKnown
<1>3. PICK n : n = k + 1
  OBVIOUS
<1>4. /\ DOMAIN inbox' = DOMAIN inbox \cup {n} /\ inbox'[n] = e
      /\ \A i \in DOMAIN inbox : inbox'[i] = inbox[i] /\ n > i /\ n # i /\ ~(i > n)
  <2>1. DOMAIN inbox' = 1..(k + 1) /\ inbox'[k + 1] = e /\ \A i \in 1..k : inbox'[i] = inbox[i]
    BY <1>1, <1>2
  <2>2. 1..(k + 1) = 1..k \cup {k + 1} /\ \A i \in 1..k : k + 1 > i /\ k + 1 # i /\ ~(i > k + 1)
    BY <1>2
  <2>3. QED
    BY <1>2, <1>3, <2>1, <2>2
<1>5. \A types, id : Told(types, id)' <=> Told(types, id) \/ (e.type \in types /\ e.id = id)
  BY <1>4 DEF Told
<1>6. QED
  BY <1>4, <1>5

\* An invite is sent, or comes to its end.
LEMMA IdsSent ==
    ASSUME Papers, NEW p \in Peer, NEW x, peerInvite' = [peerInvite EXCEPT ![p] = x],
           peerInvite[p].status # "pending", x.status = "pending",
           NEW who
    PROVE  /\ x.by = who => \A id : id \in Lists!Ids(who)' <=> id \in Lists!Ids(who) \/ id = x.id
           /\ x.by # who => Lists!Ids(who)' = Lists!Ids(who)
<1>1. /\ peerInvite'[p] = x
      /\ \A q \in Peer : q # p => peerInvite'[q] = peerInvite[q]
  BY DEF Papers
<1>2. /\ \A q \in Peer : q # p => (Lists!Pending(q, who)' <=> Lists!Pending(q, who))
      /\ ~Lists!Pending(p, who)
      /\ Lists!Pending(p, who)' <=> x.by = who
  BY <1>1 DEF Lists!Pending
<1>3. \A id : id \in Lists!Ids(who) <=> \E q \in Peer : Lists!Pending(q, who) /\ peerInvite[q].id = id
  BY IdsAre
<1>4. \A id : id \in Lists!Ids(who)' <=> \E q \in Peer : Lists!Pending(q, who)' /\ peerInvite'[q].id = id
  BY IdsAreNext
<1>5. CASE x.by = who
  BY <1>1, <1>2, <1>3, <1>4, <1>5
<1>6. CASE x.by # who
  <2>1. \A id : id \in Lists!Ids(who)' <=> id \in Lists!Ids(who)
    BY <1>1, <1>2, <1>3, <1>4, <1>6
  <2>2. QED
    BY <1>6, <2>1
<1>7. QED
  BY <1>5, <1>6

LEMMA IdsEnd ==
    ASSUME Papers, NEW p \in Peer, NEW x, peerInvite' = [peerInvite EXCEPT ![p] = x],
           NEW by, Lists!Pending(p, by), x.status # "pending",
           NEW who
    PROVE  /\ by = who => \A id : id \in Lists!Ids(who)' <=> id \in Lists!Ids(who) /\ id # peerInvite[p].id
           /\ by # who => Lists!Ids(who)' = Lists!Ids(who)
<1>1. /\ peerInvite'[p] = x
      /\ \A q \in Peer : q # p => peerInvite'[q] = peerInvite[q]
  BY DEF Papers
<1>2. /\ \A q \in Peer : q # p => (Lists!Pending(q, who)' <=> Lists!Pending(q, who))
      /\ ~Lists!Pending(p, who)'
      /\ Lists!Pending(p, who) <=> by = who
  BY <1>1 DEF Lists!Pending
<1>3. \A id : id \in Lists!Ids(who) <=> \E q \in Peer : Lists!Pending(q, who) /\ peerInvite[q].id = id
  BY IdsAre
<1>4. \A id : id \in Lists!Ids(who)' <=> \E q \in Peer : Lists!Pending(q, who)' /\ peerInvite'[q].id = id
  BY IdsAreNext
<1>5. \A q \in Peer : q # p => peerInvite[q].id # peerInvite[p].id
  BY DEF Papers, Lists!Pending
<1>6. CASE by = who
  BY <1>1, <1>2, <1>3, <1>4, <1>5, <1>6
<1>7. CASE by # who
  <2>1. \A id : id \in Lists!Ids(who)' <=> id \in Lists!Ids(who)
    BY <1>1, <1>2, <1>3, <1>4, <1>7
  <2>2. QED
    BY <1>7, <2>1
<1>8. QED
  BY <1>6, <1>7

\* What becomes of the lists when an event is added.
LEMMA PendingAnnounced ==
    ASSUME PendingRight, InboxKnown, NEW e \in Notice, inbox' = Append(inbox, e), UNCHANGED pendingInvites,
           \A id : ~Done(Reply, id) /\ ~Done(Reply, id)',
           \/ /\ e.type = "newChatInvite" /\ e.id \notin Lists!Ids("peer") /\ ~Going(e.id)
              /\ \A id : id \in Lists!Ids("peer")' <=> id \in Lists!Ids("peer") \/ id = e.id
           \/ /\ e.type = "chatInviteCancelled"
              /\ \A id : id \in Lists!Ids("peer")' <=> id \in Lists!Ids("peer") /\ id # e.id
           \/ /\ e.type \in {"chatInviteAccepted", "chatInviteRejected"}
              /\ Lists!Ids("peer")' = Lists!Ids("peer")
    PROVE  PendingRight'
<1>1. PICK n : /\ DOMAIN inbox' = DOMAIN inbox \cup {n} /\ inbox'[n] = e
               /\ \A i \in DOMAIN inbox : inbox'[i] = inbox[i] /\ n > i /\ n # i /\ ~(i > n)
  BY NoticeAdded
<1>2. \A types, id : Told(types, id)' <=> Told(types, id) \/ (e.type \in types /\ e.id = id)
  BY NoticeAdded
<1>3. /\ \A id : Coming(id)' <=> Coming(id) \/ (e.type = "newChatInvite" /\ e.id = id)
      /\ \A id : Going(id)' <=> Going(id) \/ (e.type = "chatInviteCancelled" /\ e.id = id)
  BY <1>2 DEF Coming, Going
<1>4. \A id : Listed(pendingInvites, id)' <=> Listed(pendingInvites, id)
  BY DEF Listed
<1>5. e.type = "newChatInvite" => ~Listed(pendingInvites, e.id) /\ ~Coming(e.id)
  BY DEF PendingRight
<1>6. Single(pendingInvites)'
  BY DEF PendingRight, Single
<1>7. ASSUME NEW i \in DOMAIN inbox', NEW j \in DOMAIN inbox',
             inbox'[i].type = "newChatInvite", inbox'[i].id = inbox'[j].id
      PROVE  /\ inbox'[j].type = "newChatInvite" => j = i
             /\ inbox'[j].type = "chatInviteCancelled" => j > i
  <2>1. CASE i \in DOMAIN inbox /\ j \in DOMAIN inbox
    BY <1>1, <1>7, <2>1 DEF PendingRight
  <2>2. CASE i = n /\ j \in DOMAIN inbox
    <3>1. e.type = "newChatInvite" /\ inbox[j].id = e.id
      BY <1>1, <1>7, <2>2
    <3>2. ~Coming(e.id) /\ ~Going(e.id)
      BY <1>5, <3>1
    <3>3. inbox[j].type # "newChatInvite" /\ inbox[j].type # "chatInviteCancelled"
      BY <2>2, <3>1, <3>2 DEF Coming, Going, Told
    <3>4. QED
      BY <1>1, <2>2, <3>3
  <2>3. CASE i \in DOMAIN inbox /\ j = n
    <3>1. inbox[i].type = "newChatInvite" /\ inbox[i].id = e.id
      BY <1>1, <1>7, <2>3
    <3>2. Coming(e.id)
      BY <2>3, <3>1 DEF Coming, Told
    <3>3. e.type # "newChatInvite"
      BY <1>5, <3>2
    <3>4. QED
      BY <1>1, <2>3, <3>3
  <2>4. CASE i = n /\ j = n
    BY <1>1, <1>7, <2>4
  <2>5. QED
    BY <1>1, <2>1, <2>2, <2>3, <2>4
<1>8. \A id : Coming(id)' => ~Listed(pendingInvites, id)'
  BY <1>3, <1>4, <1>5 DEF PendingRight
<1>9. \A id : id \in Lists!Ids("peer")' <=>
          (Listed(pendingInvites, id)' \/ Coming(id)') /\ ~Going(id)' /\ ~Done(Reply, id)'
  <2>1. \A id : id \in Lists!Ids("peer") <=> (Listed(pendingInvites, id) \/ Coming(id)) /\ ~Going(id)
    BY DEF PendingRight
  <2>2. QED
    BY <1>3, <1>4, <2>1
<1>10. QED
  BY <1>6, <1>7, <1>8, <1>9 DEF PendingRight

LEMMA SentAnnounced ==
    ASSUME SentRight, InboxKnown, NEW e \in Notice, inbox' = Append(inbox, e), UNCHANGED sentInvites,
           \A id : ~Done({"cancel"}, id) /\ ~Done({"cancel"}, id)',
           \/ /\ e.type \in {"newChatInvite", "chatInviteCancelled"}
              /\ Lists!Ids("user")' = Lists!Ids("user")
           \/ /\ e.type \in {"chatInviteAccepted", "chatInviteRejected"}
              /\ \A id : id \in Lists!Ids("user")' <=> id \in Lists!Ids("user") /\ id # e.id
    PROVE  SentRight'
<1>1. \A types, id : Told(types, id)' <=> Told(types, id) \/ (e.type \in types /\ e.id = id)
  BY NoticeAdded
<1>2. \A id : Leaving(id)' <=> Leaving(id) \/ (e.type \in {"chatInviteAccepted", "chatInviteRejected"} /\ e.id = id)
  BY <1>1 DEF Leaving
<1>3. Single(sentInvites)' /\ \A id : Listed(sentInvites, id)' <=> Listed(sentInvites, id)
  BY DEF SentRight, Single, Listed
<1>4. \A id : id \in Lists!Ids("user") <=> Listed(sentInvites, id) /\ ~Leaving(id)
  BY DEF SentRight
<1>5. \A id : id \in Lists!Ids("user")' <=>
          Listed(sentInvites, id)' /\ ~Leaving(id)' /\ ~Done({"cancel"}, id)'
  BY <1>2, <1>3, <1>4
<1>6. QED
  BY <1>3, <1>5 DEF SentRight

\* An invite changes while nothing is loaded and no answer is on its way.
LEMMA ChangeIsAlone ==
    ASSUME ListsKept, Steady, Undisturbed, UNCHANGED load, peerInvite' # peerInvite
    PROVE  /\ load["pending"] = Lists!Free /\ load["sent"] = Lists!Free /\ load["users"] = Lists!Free
           /\ ~Lists!Loading /\ ~Lists!Loading'
           /\ act.at # "done" /\ PendingRight /\ SentRight
           /\ ~Lists!ServeLoad("users")
<1>1. ~Lists!Loading' /\ act.at # "done"
  BY DEF Undisturbed
<1>2. ~Lists!Loading
  BY <1>1 DEF Lists!Loading
<1>3. ~Lists!ServeLoad("users")
  BY NotRead DEF ListsKept
<1>4. QED
  BY <1>1, <1>2, <1>3, LoadingIs DEF ListsKept, Steady

\* Contacts are as right as before.
LEMMA UsersStay ==
    ASSUME UsersRight, Undisturbed, UNCHANGED <<users, load>>, ~Lists!ServeLoad("users"),
           act.at = "done" /\ act.op = "accept" => (act.at = "done" /\ act.op = "accept")',
           \A q \in Peer : peerInvite[q].status = "accepted" => peerInvite'[q].status = "accepted",
           \A q \in Peer : peerInvite'[q].status = "accepted" /\ peerInvite[q].status # "accepted" =>
              peerInvite[q].by = "user" /\ peerInvite[q].status = "pending"
    PROVE  UsersRight'
<1>1. Lists!Accepted' \ untold' = Lists!Accepted \ untold
  BY DEF Undisturbed, Lists!Accepted
<1>2. QED
  BY <1>1 DEF UsersRight

LEMMA PeerActsSteady ==
    ASSUME ListsKept, Steady, Undisturbed, NEW p \in Peer, Lists!PeerActs(p)
    PROVE  Steady'
<1>1. /\ Papers /\ InboxKnown /\ Lists!Counted /\ connected
      /\ UNCHANGED <<connected, mounted, profile, returns, pendingInvites, sentInvites, users, load, act, faults>>
  BY DEF ListsKept, Steady, Calm, Lists!PeerActs, Lists!page, Lists!lists
<1>2. peerInvite' # peerInvite
  BY <1>1, Changes DEF Lists!PeerActs
<1>3. /\ load["pending"] = Lists!Free /\ load["sent"] = Lists!Free /\ load["users"] = Lists!Free
      /\ ~Lists!Loading /\ ~Lists!Loading'
      /\ act.at # "done" /\ PendingRight /\ SentRight /\ ~Lists!ServeLoad("users")
  BY <1>1, <1>2, ChangeIsAlone
<1>4. \A ops, id : ~Done(ops, id) /\ ~Done(ops, id)'
  BY <1>1, <1>3 DEF Done
<1>5. Calm' /\ ServedRight'
  BY <1>1, <1>3 DEF Steady, Calm, ServedRight
<1>6. /\ DOMAIN peerInvite = Peer
      /\ \A q \in Peer : peerInvite[q].id \in Nat /\ peerInvite[q].id <= changes
      /\ changes \in Nat
  BY <1>1 DEF Papers, Paper
<1>7. ASSUME NEW id, Known(p, id) \/ \E q : Known(q, id) PROVE id \in Nat /\ id # 0 /\ id # changes + 1
  BY <1>6, <1>7 DEF Known
<1>8. act # Lists!Free /\ act.op \in Reply =>
         act.at = "sent" /\ Known(act.peer, act.id) /\ ~Coming(act.id)
         /\ \A q \in Peer : peerInvite[q].id = act.id => Lists!Pending(q, "peer")
  BY <1>3 DEF ListsKept, ActKnown, Steady, ActRight, Reply
<1>9. CASE Lists!Inviting(p, "peer") /\ Lists!Emit([type |-> "newChatInvite", peer |-> p, id |-> peerInvite'[p].id])
  <2>1. PICK x, id, e : /\ x = peerInvite'[p] /\ id = x.id
                        /\ e = [type |-> "newChatInvite", peer |-> p, id |-> id]
    OBVIOUS
  <2>2. /\ peerInvite' = [peerInvite EXCEPT ![p] = x] /\ peerInvite[p].status \in {"none", "rejected"}
        /\ x.status = "pending" /\ x.by = "peer"
        /\ id = IF peerInvite[p].status = "none" THEN changes + 1 ELSE peerInvite[p].id
    BY <1>6, <1>9, <2>1 DEF Lists!Inviting
  <2>3. inbox' = Append(inbox, e) /\ e.type = "newChatInvite" /\ e.id = id
    BY <1>1, <1>9, <2>1 DEF Lists!Emit
  <2>4. e \in Notice
    <3>1. id \in 1..MaxInvites
      <4>1. Papers' /\ peerInvite'[p].status # "none" /\ changes' \in 0..MaxInvites
        BY <1>1, <1>9, <2>1, <2>2, Changes DEF Papers
      <4>2. peerInvite'[p].id # 0 /\ peerInvite'[p].id \in 0..MaxInvites
        BY <4>1 DEF Papers, Paper
      <4>3. QED
        BY <2>1, <4>2
    <3>2. QED
      BY <2>1, <3>1 DEF Notice
  <2>5. ~Going(id) /\ id \notin Lists!Ids("peer")
    <3>1. ASSUME NEW i \in DOMAIN inbox, inbox[i].type = "chatInviteCancelled", inbox[i].id = id PROVE FALSE
      <4>1. Deleted(id) /\ Known(inbox[i].peer, id)
        BY <1>1, <3>1 DEF InboxKnown
      <4>2. id # changes + 1 /\ peerInvite[p].id # id
        BY <1>7, <4>1 DEF Deleted
      <4>3. QED
        BY <2>2, <4>2
    <3>2. ASSUME NEW q \in Peer, Lists!Pending(q, "peer"), peerInvite[q].id = id PROVE FALSE
      <4>1. q # p /\ peerInvite[q].id # changes + 1
        BY <1>6, <2>2, <3>2 DEF Lists!Pending
      <4>2. peerInvite[p].id = peerInvite[q].id /\ peerInvite[p].id # 0
        BY <1>1, <2>2, <3>2, <4>1 DEF Papers
      <4>3. QED
        BY <1>1, <4>1, <4>2 DEF Papers
    <3>3. QED
      BY <3>1, <3>2, IdsAre DEF Going, Told
  <2>6. /\ \A other : other \in Lists!Ids("peer")' <=> other \in Lists!Ids("peer") \/ other = id
        /\ Lists!Ids("user")' = Lists!Ids("user")
    BY <1>1, <2>1, <2>2, IdsSent
  <2>7. PendingRight'
    BY <1>1, <1>3, <1>4, <2>3, <2>4, <2>5, <2>6, PendingAnnounced
  <2>8. SentRight'
    BY <1>1, <1>3, <1>4, <2>3, <2>4, <2>6, SentAnnounced
  <2>9. UsersRight'
    <3>1. \A q \in Peer : peerInvite'[q].status = "accepted" <=> peerInvite[q].status = "accepted"
      BY <1>6, <2>2
    <3>2. QED
      BY <1>1, <1>3, <3>1, UsersStay DEF Steady
  <2>10. ActRight'
    <3>1. ASSUME act # Lists!Free, act.op \in Reply
          PROVE  /\ ~Coming(act.id)'
                 /\ \A q \in Peer : peerInvite'[q].id = act.id => Lists!Pending(q, "peer")'
      <4>1. PICK a : a = act.id
        OBVIOUS
      <4>2. ~Coming(a) /\ a # changes + 1 /\ \A q \in Peer : peerInvite[q].id = a => Lists!Pending(q, "peer")
        BY <1>7, <1>8, <3>1, <4>1
      <4>3. a # id
        BY <2>2, <4>2 DEF Lists!Pending
      <4>4. ~Coming(a)'
        BY <1>1, <2>3, <2>4, <4>2, <4>3, NoticeAdded DEF Coming
      <4>5. ASSUME NEW q \in Peer, peerInvite'[q].id = a PROVE Lists!Pending(q, "peer")'
        BY <1>6, <2>1, <2>2, <4>2, <4>3, <4>5 DEF Lists!Pending
      <4>6. QED
        BY <1>1, <4>1, <4>4, <4>5
    <3>2. QED
      BY <1>1, <3>1 DEF ActRight
  <2>11. QED
    BY <1>5, <2>7, <2>8, <2>9, <2>10 DEF Steady
<1>10. CASE \/ \E status \in {"accepted", "rejected"}, type \in {"chatInviteAccepted", "chatInviteRejected"} :
                 /\ Lists!Answering(p, "user", status)
                 /\ Lists!Emit([type |-> type, peer |-> p, id |-> peerInvite[p].id])
            \/ /\ Lists!Cancelling(p, "peer")
               /\ Lists!Emit([type |-> "chatInviteCancelled", peer |-> p, id |-> peerInvite[p].id])
  <2>1. PICK type, by, x, id, e :
           /\ id = peerInvite[p].id /\ e = [type |-> type, peer |-> p, id |-> id]
           /\ Lists!Pending(p, by) /\ peerInvite' = [peerInvite EXCEPT ![p] = x] /\ x.status # "pending"
           /\ \/ by = "user" /\ type \in {"chatInviteAccepted", "chatInviteRejected"} /\ x.id = id
              \/ by = "peer" /\ type = "chatInviteCancelled" /\ x.id = 0 /\ x.status = "none"
           /\ Lists!Emit(e)
    <3>1. CASE \E status \in {"accepted", "rejected"}, type \in {"chatInviteAccepted", "chatInviteRejected"} :
                 /\ Lists!Answering(p, "user", status)
                 /\ Lists!Emit([type |-> type, peer |-> p, id |-> peerInvite[p].id])
      <4>1. PICK status \in {"accepted", "rejected"}, type \in {"chatInviteAccepted", "chatInviteRejected"} :
                 /\ Lists!Answering(p, "user", status)
                 /\ Lists!Emit([type |-> type, peer |-> p, id |-> peerInvite[p].id])
        BY <3>1
      <4>2. peerInvite[p] \in Paper
        BY <1>1 DEF Papers
      <4>3. PICK x : x = [peerInvite[p] EXCEPT !.status = status]
        OBVIOUS
      <4>4. x.status = status /\ x.id = peerInvite[p].id
        BY <4>2, <4>3 DEF Paper
      <4>5. peerInvite' = [peerInvite EXCEPT ![p] = x] /\ Lists!Pending(p, "user")
        BY <1>6, <4>1, <4>3 DEF Lists!Answering
      <4>6. QED
        BY <4>1, <4>4, <4>5
    <3>2. CASE /\ Lists!Cancelling(p, "peer")
               /\ Lists!Emit([type |-> "chatInviteCancelled", peer |-> p, id |-> peerInvite[p].id])
      <4>1. PICK x : x = Lists!NoInvite
        OBVIOUS
      <4>2. x.status = "none" /\ x.id = 0
        BY <4>1
      <4>3. peerInvite' = [peerInvite EXCEPT ![p] = x] /\ Lists!Pending(p, "peer")
        BY <3>2, <4>1 DEF Lists!Cancelling
      <4>4. QED
        BY <3>2, <4>2, <4>3
    <3>3. QED
      BY <1>10, <3>1, <3>2
  <2>2. inbox' = Append(inbox, e) /\ e.type = type /\ e.id = id
    BY <1>1, <2>1 DEF Lists!Emit
  <2>3. e \in Notice /\ id # 0
    <3>1. peerInvite[p] \in Paper /\ peerInvite[p].status # "none" /\ peerInvite[p].id # 0
      BY <1>1, <2>1 DEF Papers, Lists!Pending
    <3>2. id \in 1..MaxInvites
      BY <2>1, <3>1 DEF Paper
    <3>3. QED
      BY <2>1, <3>2 DEF Notice
  <2>4. /\ \A who : by # who => Lists!Ids(who)' = Lists!Ids(who)
        /\ \A who : by = who => \A other : other \in Lists!Ids(who)' <=> other \in Lists!Ids(who) /\ other # id
    BY <1>1, <2>1, IdsEnd
  <2>5. PendingRight'
    BY <1>1, <1>3, <1>4, <2>1, <2>2, <2>3, <2>4, PendingAnnounced
  <2>6. SentRight'
    BY <1>1, <1>3, <1>4, <2>1, <2>2, <2>3, <2>4, SentAnnounced
  <2>7. UsersRight'
    <3>1. /\ \A q \in Peer : peerInvite[q].status = "accepted" => peerInvite'[q].status = "accepted"
          /\ \A q \in Peer : peerInvite'[q].status = "accepted" /\ peerInvite[q].status # "accepted" =>
                peerInvite[q].by = "user" /\ peerInvite[q].status = "pending"
      BY <1>6, <2>1 DEF Lists!Pending
    <3>2. QED
      BY <1>1, <1>3, <3>1, UsersStay DEF Steady
  <2>8. ActRight'
    <3>1. ASSUME act # Lists!Free, act.op \in Reply
          PROVE  /\ ~Coming(act.id)'
                 /\ \A q \in Peer : peerInvite'[q].id = act.id => Lists!Pending(q, "peer")'
      <4>1. PICK a : a = act.id
        OBVIOUS
      <4>2. ~Coming(a) /\ a # 0 /\ \A q \in Peer : peerInvite[q].id = a => Lists!Pending(q, "peer")
        BY <1>7, <1>8, <3>1, <4>1
      <4>3. ~Coming(a)'
        BY <1>1, <2>1, <2>2, <2>3, <4>2, NoticeAdded DEF Coming
      <4>4. ASSUME NEW q \in Peer, peerInvite'[q].id = a PROVE Lists!Pending(q, "peer")'
        BY <1>6, <2>1, <4>2, <4>4 DEF Lists!Pending
      <4>5. QED
        BY <1>1, <4>1, <4>3, <4>4
    <3>2. QED
      BY <1>1, <3>1 DEF ActRight
  <2>9. QED
    BY <1>5, <2>5, <2>6, <2>7, <2>8 DEF Steady
<1>11. QED
  BY <1>9, <1>10 DEF Lists!PeerActs

\* Nothing about the invites changes.
LEMMA Unchanged ==
    ASSUME UNCHANGED peerInvite
    PROVE  /\ \A who : Lists!Ids(who)' = Lists!Ids(who) /\ Lists!Rows(who)' = Lists!Rows(who)
           /\ Lists!Accepted' = Lists!Accepted
           /\ \A q, who : Lists!Pending(q, who)' <=> Lists!Pending(q, who)
           /\ Undisturbed /\ ~Lists!ServeLoad("users") => untold' = untold
BY DEF Lists!Ids, Lists!Rows, Lists!Pending, Lists!Accepted, Undisturbed

LEMMA ServeLoadSteady ==
    ASSUME ListsKept, Steady, Undisturbed, NEW k \in Lists!List, Lists!ServeLoad(k)
    PROVE  Steady'
<1>1. /\ load[k] = Lists!Sent /\ load'[k].at = "served" /\ load'[k] # Lists!Free
      /\ \A m \in Lists!List : m # k => load'[m] = load[m]
      /\ UNCHANGED <<peerInvite, changes, connected, inbox, pendingInvites, sentInvites, users, act, faults>>
  BY DEF ListsKept, LoadsKnown, Lists!ServeLoad, Lists!lists
<1>2. Lists!Loading /\ Lists!Loading' /\ inbox = <<>> /\ act.at # "done"
  BY <1>1 DEF Lists!Loading, Steady, Calm
<1>3. Calm'
  BY <1>1, <1>2 DEF Steady, Calm
<1>4. ServedRight'
  <2>1. CASE k = "users"
    <3>1. load'["users"].rows = Lists!Accepted /\ untold' = {}
      BY <2>1 DEF ListsKept, LoadsKnown, Undisturbed, Lists!ServeLoad, Lists!Accepted
    <3>2. QED
      BY <1>1, <2>1, <3>1, Unchanged DEF Steady, ServedRight
  <2>2. CASE k # "users"
    <3>1. untold' = untold
      BY <1>1, <2>2, NotRead, Unchanged DEF ListsKept
    <3>2. /\ k = "pending" => load'[k].rows = Lists!Rows("peer")
          /\ k = "sent" => load'[k].rows = Lists!Rows("user")
      BY DEF ListsKept, LoadsKnown, Lists!ServeLoad
    <3>3. QED
      BY <1>1, <2>2, <3>1, <3>2, Unchanged DEF Steady, ServedRight
  <2>3. QED
    BY <2>1, <2>2
<1>5. UsersRight'
  <2>1. CASE k = "users"
    BY <1>1, <2>1 DEF UsersRight
  <2>2. CASE k # "users"
    BY <1>1, <2>2, NotRead, Unchanged DEF ListsKept, Steady, UsersRight
  <2>3. QED
    BY <2>1, <2>2
<1>6. ActRight'
  BY <1>1, Unchanged DEF Steady, ActRight, Coming, Told
<1>7. load'["pending"] = Lists!Free => PendingRight'
  BY <1>1, PendingStays, Unchanged DEF Steady, Done
<1>8. load'["sent"] = Lists!Free => SentRight'
  BY <1>1, SentStays, Unchanged DEF Steady, Done
<1>9. QED
  BY <1>3, <1>4, <1>5, <1>6, <1>7, <1>8 DEF Steady

LEMMA ReceiveLoadSteady ==
    ASSUME ListsKept, Steady, Undisturbed, NEW k \in Lists!List, Lists!ReceiveLoad(k)
    PROVE  Steady'
<1>1. /\ load[k].at = "served" /\ load[k] # Lists!Free /\ load'[k] = Lists!Free
      /\ \A m \in Lists!List : m # k => load'[m] = load[m]
      /\ UNCHANGED <<peerInvite, changes, connected, inbox, act, faults>>
  BY DEF ListsKept, LoadsKnown, Lists!ReceiveLoad
<1>2. Lists!Loading /\ inbox = <<>> /\ act.at # "done"
  BY <1>1 DEF Lists!Loading, Steady, Calm
<1>3. Calm'
  BY <1>1, <1>2 DEF Steady, Calm
<1>4. ~Lists!ServeLoad("users") /\ untold' = untold
  <2>1. ~Lists!ServeLoad("users")
    BY <1>1 DEF ListsKept, LoadsKnown, Lists!ServeLoad
  <2>2. QED
    BY <1>1, <2>1, Unchanged
<1>5. ServedRight'
  BY <1>1, <1>4, Unchanged DEF Steady, ServedRight
<1>6. UsersRight'
  <2>1. CASE k = "users"
    <3>1. users' = load["users"].rows
      BY <2>1 DEF Lists!ReceiveLoad
    <3>2. QED
      BY <1>1, <1>4, <2>1, <3>1, Unchanged DEF Steady, ServedRight, UsersRight
  <2>2. CASE k # "users"
    BY <1>1, <1>4, <2>2, Unchanged DEF Steady, UsersRight, Lists!ReceiveLoad
  <2>3. QED
    BY <2>1, <2>2
<1>7. ActRight'
  BY <1>1, Unchanged DEF Steady, ActRight, Coming, Told
<1>8. \A types, id : ~Told(types, id)'
  BY <1>1, <1>2 DEF Told
<1>9. \A ops, id : ~Done(ops, id)'
  BY <1>1, <1>2 DEF Done
<1>10. ASSUME NEW who, k \in {"pending", "sent"}, load[k].rows = Lists!Rows(who),
              NEW all, all = Lists!SetToSeq(Lists!Loaded(load[k].rows))
       PROVE  Single(all) /\ \A id : Listed(all, id) <=> id \in Lists!Ids(who)
  <2>1. PICK rows : rows = Lists!Rows(who)
    OBVIOUS
  <2>2. AnswerKnown("pending", rows)
    BY <2>1, RowsServed DEF ListsKept
  <2>3. \A id : id \in Lists!Ids(who) <=> \E row \in rows : row.id = id
    BY <2>1 DEF Lists!Ids
  <2>4. \A r, q \in rows : r.id = q.id => r = q
    <3>1. ASSUME NEW r \in rows, NEW q \in rows, r.id = q.id PROVE r = q
      <4>1. PICK p \in Peer : Lists!Pending(p, who) /\ r = [peer |-> p, id |-> peerInvite[p].id]
        BY <2>1 DEF Lists!Rows
      <4>2. PICK o \in Peer : Lists!Pending(o, who) /\ q = [peer |-> o, id |-> peerInvite[o].id]
        BY <2>1 DEF Lists!Rows
      <4>3. peerInvite[p].id = peerInvite[o].id /\ peerInvite[p].id # 0
        BY <3>1, <4>1, <4>2 DEF ListsKept, Papers, Lists!Pending
      <4>4. p = o
        BY <4>3 DEF ListsKept, Papers
      <4>5. QED
        BY <4>1, <4>2, <4>4
    <3>2. QED
      BY <3>1
  <2>5. all = Lists!SetToSeq(Lists!Loaded(rows))
    BY <1>10, <2>1
  <2>6. QED
    BY <2>2, <2>3, <2>4, <2>5, RowsLoaded
<1>11. load'["pending"] = Lists!Free => PendingRight'
  <2>1. CASE k = "pending"
    <3>1. PICK all : all = Lists!SetToSeq(Lists!Loaded(load[k].rows))
      OBVIOUS
    <3>2. pendingInvites' = all
      BY <2>1, <3>1 DEF Lists!ReceiveLoad
    <3>3. load[k].rows = Lists!Rows("peer")
      BY <1>1, <2>1 DEF Steady, ServedRight
    <3>4. Single(all) /\ \A id : Listed(all, id) <=> id \in Lists!Ids("peer")
      BY <1>10, <2>1, <3>1, <3>3
    <3>5. Single(pendingInvites)' /\ \A id : Listed(pendingInvites, id)' <=> id \in Lists!Ids("peer")'
      BY <1>1, <3>2, <3>4, Unchanged DEF Single, Listed
    <3>6. QED
      BY <1>1, <1>2, <1>8, <1>9, <3>5 DEF PendingRight, Coming, Going
  <2>2. CASE k # "pending"
    BY <1>1, <2>2, PendingStays, Unchanged DEF Steady, Done, Lists!ReceiveLoad
  <2>3. QED
    BY <2>1, <2>2
<1>12. load'["sent"] = Lists!Free => SentRight'
  <2>1. CASE k = "sent"
    <3>1. PICK all : all = Lists!SetToSeq(Lists!Loaded(load[k].rows))
      OBVIOUS
    <3>2. sentInvites' = all
      BY <2>1, <3>1 DEF Lists!ReceiveLoad
    <3>3. load[k].rows = Lists!Rows("user")
      BY <1>1, <2>1 DEF Steady, ServedRight
    <3>4. Single(all) /\ \A id : Listed(all, id) <=> id \in Lists!Ids("user")
      BY <1>10, <2>1, <3>1, <3>3
    <3>5. Single(sentInvites)' /\ \A id : Listed(sentInvites, id)' <=> id \in Lists!Ids("user")'
      BY <1>1, <3>2, <3>4, Unchanged DEF Single, Listed
    <3>6. QED
      BY <1>8, <1>9, <3>5 DEF SentRight, Leaving
  <2>2. CASE k # "sent"
    BY <1>1, <2>2, SentStays, Unchanged DEF Steady, Done, Lists!ReceiveLoad
  <2>3. QED
    BY <2>1, <2>2
<1>13. QED
  BY <1>3, <1>5, <1>6, <1>7, <1>11, <1>12 DEF Steady

\* Taking the first event leaves the others.
LEMMA ToldNext ==
    ASSUME InboxKnown, inbox # <<>>, inbox' = Tail(inbox)
    PROVE  \A types, id : Told(types, id) <=> Told(types, id)' \/ (inbox[1].type \in types /\ inbox[1].id = id)
<1>1. /\ 1 \in DOMAIN inbox
      /\ \A i \in DOMAIN inbox' : i + 1 \in DOMAIN inbox /\ inbox'[i] = inbox[i + 1]
      /\ \A j \in DOMAIN inbox : j # 1 => \E i \in DOMAIN inbox' : j = i + 1
  BY NoticeTaken
<1>2. ASSUME NEW types, NEW id, Told(types, id)
      PROVE  Told(types, id)' \/ (inbox[1].type \in types /\ inbox[1].id = id)
  <2>1. PICK j \in DOMAIN inbox : inbox[j].type \in types /\ inbox[j].id = id
    BY <1>2 DEF Told
  <2>2. j # 1 => \E i \in DOMAIN inbox' : inbox'[i].type \in types /\ inbox'[i].id = id
    BY <1>1, <2>1
  <2>3. QED
    BY <2>1, <2>2 DEF Told
<1>3. ASSUME NEW types, NEW id, Told(types, id)' PROVE Told(types, id)
  BY <1>1, <1>3 DEF Told
<1>4. ASSUME NEW types, NEW id, inbox[1].type \in types, inbox[1].id = id PROVE Told(types, id)
  BY <1>1, <1>4 DEF Told
<1>5. QED
  BY <1>2, <1>3, <1>4

LEMMA ReceiveEventSteady ==
    ASSUME ListsKept, Steady, Undisturbed, mounted, Lists!ReceiveEvent
    PROVE  Steady'
<1>1. /\ inbox # <<>> /\ inbox' = Tail(inbox) /\ Lists!OnEvent(Head(inbox))
      /\ UNCHANGED <<peerInvite, changes, connected, users, load, act, faults>>
  BY DEF Lists!ReceiveEvent
<1>2. PICK e : e = inbox[1]
  OBVIOUS
<1>3. /\ 1 \in DOMAIN inbox /\ e = Head(inbox) /\ e \in Notice /\ Known(e.peer, e.id)
      /\ e.type = "chatInviteCancelled" => Deleted(e.id)
  BY <1>1, <1>2, NoticeTaken, SeqMembers DEF ListsKept, InboxKnown
<1>4. /\ ~Lists!Loading /\ load["pending"] = Lists!Free /\ load["sent"] = Lists!Free /\ load["users"] = Lists!Free
  BY <1>1, LoadingIs DEF ListsKept, Steady, Calm
<1>5. PendingRight /\ SentRight /\ RowsKnown(pendingInvites) /\ RowsKnown(sentInvites)
  BY <1>4 DEF Steady, ListsKept, ListsKnown
<1>6. ~Lists!Loading' /\ Calm' /\ ServedRight'
  BY <1>1, <1>4 DEF Steady, Calm, ServedRight, Lists!Loading
<1>7. UsersRight'
  BY <1>1, NotRead, Unchanged DEF ListsKept, Steady, UsersRight
<1>8. \A types, id : Told(types, id) <=> Told(types, id)' \/ (e.type \in types /\ e.id = id)
  BY <1>1, <1>2, ToldNext DEF ListsKept
<1>9. \A ops, id : Done(ops, id)' <=> Done(ops, id)
  BY <1>1 DEF Done
<1>10. ActRight'
  <2>1. \A id : Coming(id)' => Coming(id)
    BY <1>8 DEF Coming
  <2>2. PICK a : a = act
    OBVIOUS
  <2>3. a # Lists!Free /\ a.op \in Reply =>
           /\ ~Coming(a.id)'
           /\ a.at = "sent" => \A q \in Peer : peerInvite'[q].id = a.id => Lists!Pending(q, "peer")'
    BY <1>1, <2>1, <2>2, Unchanged DEF Steady, ActRight
  <2>4. QED
    BY <1>1, <2>2, <2>3 DEF ActRight
<1>11. /\ \A i \in DOMAIN inbox' : i + 1 \in DOMAIN inbox /\ i + 1 > 1 /\ inbox'[i] = inbox[i + 1] /\ i \in Nat
  <2>1. \A i \in DOMAIN inbox' : i \in Nat
    <3>1. PICK rest, E : rest = Tail(inbox) /\ E = Notice /\ rest \in Seq(E)
      BY <1>1, NoticeTaken DEF ListsKept
    <3>2. QED
      BY <1>1, <3>1, SeqMembers
  <2>2. QED
    BY <1>1, <2>1, NoticeTaken DEF ListsKept
<1>12. \A i, j \in DOMAIN inbox' :
          inbox'[i].type = "newChatInvite" /\ inbox'[i].id = inbox'[j].id =>
             /\ inbox'[j].type = "newChatInvite" => j = i
             /\ inbox'[j].type = "chatInviteCancelled" => j > i
  <2>1. ASSUME NEW i \in DOMAIN inbox', NEW j \in DOMAIN inbox',
               inbox'[i].type = "newChatInvite", inbox'[i].id = inbox'[j].id
        PROVE  /\ inbox'[j].type = "newChatInvite" => j = i
               /\ inbox'[j].type = "chatInviteCancelled" => j > i
    <3>1. PICK m \in DOMAIN inbox, n \in DOMAIN inbox : m = i + 1 /\ n = j + 1
      BY <1>11
    <3>2. inbox[m].type = "newChatInvite" /\ inbox[m].id = inbox[n].id /\ inbox'[j] = inbox[n]
      BY <1>11, <2>1, <3>1
    <3>3. /\ inbox[n].type = "newChatInvite" => n = m
          /\ inbox[n].type = "chatInviteCancelled" => n > m
      BY <1>5, <3>2 DEF PendingRight
    <3>4. i \in Nat /\ j \in Nat
      BY <1>11
    <3>5. QED
      BY <3>1, <3>2, <3>3, <3>4
  <2>2. QED
    BY <2>1
<1>13. \A id : /\ Coming(id) <=> Coming(id)' \/ (e.type = "newChatInvite" /\ e.id = id)
               /\ Going(id) <=> Going(id)' \/ (e.type = "chatInviteCancelled" /\ e.id = id)
               /\ Leaving(id) <=> Leaving(id)' \/ (e.type \in {"chatInviteAccepted", "chatInviteRejected"} /\ e.id = id)
  BY <1>8 DEF Coming, Going, Leaving
<1>14. e.type = "newChatInvite" => ~Coming(e.id)'
  <2>1. ASSUME e.type = "newChatInvite", NEW i \in DOMAIN inbox', inbox'[i].type = "newChatInvite", inbox'[i].id = e.id
        PROVE  FALSE
    <3>1. PICK m \in DOMAIN inbox : m = i + 1 /\ m > 1 /\ inbox[m] = inbox'[i]
      BY <1>11
    <3>2. m = 1
      BY <1>2, <1>3, <1>5, <2>1, <3>1 DEF PendingRight
    <3>3. QED
      BY <3>1, <3>2
  <2>2. QED
    BY <2>1 DEF Coming, Told
<1>15. e.type = "chatInviteCancelled" => ~Coming(e.id)
  <2>1. ASSUME e.type = "chatInviteCancelled", NEW i \in DOMAIN inbox, inbox[i].type = "newChatInvite",
               inbox[i].id = e.id
        PROVE  FALSE
    <3>1. 1 > i
      BY <1>2, <1>3, <1>5, <2>1 DEF PendingRight
    <3>2. i \in Nat /\ i >= 1
      <4>1. PICK E : E = Notice
        OBVIOUS
      <4>2. inbox \in Seq(E)
        BY <4>1 DEF ListsKept, InboxKnown
      <4>3. QED
        BY <4>2, SeqMembers
    <3>3. QED
      BY <3>1, <3>2
  <2>2. QED
    BY <2>1 DEF Coming, Told
<1>16. \A id : id \in Lists!Ids("peer") <=>
          (Listed(pendingInvites, id) \/ Coming(id)) /\ ~Going(id) /\ ~Done(Reply, id)
  BY <1>5 DEF PendingRight
<1>17. PendingRight'
  <2>1. PICK all : all = pendingInvites'
    OBVIOUS
  <2>2. SUFFICES /\ Single(all)
                 /\ \A id : Coming(id)' => ~Listed(all, id)
                 /\ \A id : id \in Lists!Ids("peer") <=>
                       (Listed(all, id) \/ Coming(id)') /\ ~Going(id)' /\ ~Done(Reply, id)
    BY <1>1, <1>9, <1>12, <2>1, Unchanged DEF PendingRight, Single, Listed
  <2>3. CASE e.type = "newChatInvite"
    <3>1. PICK row : row = [peer |-> e.peer, id |-> e.id, from |-> "event"]
      OBVIOUS
    <3>2. all = <<row>> \o pendingInvites /\ row \in Lists!Row /\ row.id = e.id /\ Known(row.peer, row.id)
      BY <1>1, <1>3, <2>1, <2>3, <3>1 DEF Lists!OnEvent, Lists!Row, Notice
    <3>3. Coming(e.id)
      BY <1>13, <2>3
    <3>4. ~Listed(pendingInvites, e.id) /\ Single(pendingInvites)
      BY <1>5, <3>3 DEF PendingRight
    <3>5. Single(all) /\ \A id : Listed(all, id) <=> Listed(pendingInvites, id) \/ id = e.id
      BY <1>5, <3>2, <3>4, RowAdded
    <3>6. \A id : Coming(id)' => ~Listed(pendingInvites, id)
      BY <1>5, <1>13 DEF PendingRight
    <3>7. \A id : /\ Coming(id) <=> Coming(id)' \/ e.id = id
                  /\ Going(id) <=> Going(id)'
      BY <1>13, <2>3
    <3>8. QED
      BY <1>14, <1>16, <2>3, <3>5, <3>6, <3>7
  <2>4. CASE e.type = "chatInviteCancelled"
    <3>1. all = Lists!Without(pendingInvites, e.id)
      BY <1>1, <1>3, <2>1, <2>4 DEF Lists!OnEvent
    <3>2. /\ Single(all) /\ \A id : Listed(all, id) <=> Listed(pendingInvites, id) /\ id # e.id
      BY <1>5, <3>1, WithoutKnown DEF PendingRight
    <3>3. e.id \notin Lists!Ids("peer")
      BY <1>3, <2>4, IdsAre DEF Deleted
    <3>4. \A id : /\ Coming(id) <=> Coming(id)'
                  /\ Going(id) <=> Going(id)' \/ e.id = id
      BY <1>13, <2>4
    <3>5. \A id : Coming(id) => ~Listed(pendingInvites, id)
      BY <1>5 DEF PendingRight
    <3>6. QED
      BY <1>15, <1>16, <2>4, <3>2, <3>3, <3>4, <3>5
  <2>5. CASE e.type \notin {"newChatInvite", "chatInviteCancelled"}
    <3>1. all = pendingInvites
      BY <1>1, <1>3, <2>1, <2>5 DEF Lists!OnEvent
    <3>2. \A id : (Coming(id) <=> Coming(id)') /\ (Going(id) <=> Going(id)')
      BY <1>13, <2>5
    <3>3. QED
      BY <1>5, <1>16, <3>1, <3>2 DEF PendingRight
  <2>6. QED
    BY <2>3, <2>4, <2>5
<1>18. SentRight'
  <2>1. PICK all : all = sentInvites'
    OBVIOUS
  <2>2. SUFFICES /\ Single(all)
                 /\ \A id : id \in Lists!Ids("user") <=>
                       Listed(all, id) /\ ~Leaving(id)' /\ ~Done({"cancel"}, id)
    BY <1>1, <1>9, <2>1, Unchanged DEF SentRight, Single, Listed
  <2>3. \A id : id \in Lists!Ids("user") <=> Listed(sentInvites, id) /\ ~Leaving(id) /\ ~Done({"cancel"}, id)
    BY <1>5 DEF SentRight
  <2>4. CASE e.type \in {"chatInviteAccepted", "chatInviteRejected"}
    <3>1. all = Lists!Without(sentInvites, e.id)
      BY <1>1, <1>3, <2>1, <2>4 DEF Lists!OnEvent
    <3>2. Single(all) /\ \A id : Listed(all, id) <=> Listed(sentInvites, id) /\ id # e.id
      BY <1>5, <3>1, WithoutKnown DEF SentRight
    <3>3. \A id : Leaving(id) <=> Leaving(id)' \/ e.id = id
      BY <1>13, <2>4
    <3>4. QED
      BY <2>3, <3>2, <3>3
  <2>5. CASE e.type \notin {"chatInviteAccepted", "chatInviteRejected"}
    <3>1. all = sentInvites
      BY <1>1, <1>3, <2>1, <2>5 DEF Lists!OnEvent
    <3>2. \A id : Leaving(id) <=> Leaving(id)'
      BY <1>13, <2>5
    <3>3. QED
      BY <1>5, <2>3, <3>1, <3>2 DEF SentRight
  <2>6. QED
    BY <2>4, <2>5
<1>19. QED
  BY <1>6, <1>7, <1>10, <1>17, <1>18 DEF Steady

LEMMA ClickSteady ==
    ASSUME ListsKept, Steady, Undisturbed, mounted, Lists!Click
    PROVE  Steady'
<1>1. PICK op, p, id :
         /\ Lists!Ask(op, p, id) /\ op # "send"
         /\ op \in Reply => load["pending"] = Lists!Free /\ Listed(pendingInvites, id)
  <2>1. ~(profile.of # NoPeer)
    BY DEF ListsKept, PageKnown
  <2>2. CASE load["pending"] = Lists!Free /\ \E i \in DOMAIN pendingInvites, op \in {"accept", "reject"} :
                Lists!Ask(op, pendingInvites[i].peer, pendingInvites[i].id)
    <3>1. PICK i \in DOMAIN pendingInvites, op \in {"accept", "reject"} :
                Lists!Ask(op, pendingInvites[i].peer, pendingInvites[i].id)
      BY <2>2
    <3>2. Listed(pendingInvites, pendingInvites[i].id)
      BY DEF Listed
    <3>3. QED
      BY <2>2, <3>1, <3>2
  <2>3. CASE \E i \in DOMAIN sentInvites : Lists!Ask("cancel", sentInvites[i].peer, sentInvites[i].id)
    BY <2>3 DEF Reply
  <2>4. QED
    BY <2>1, <2>2, <2>3 DEF Lists!Click
<1>2. /\ act = Lists!Free /\ act' = [at |-> "sent", op |-> op, peer |-> p, id |-> id]
      /\ UNCHANGED <<peerInvite, changes, connected, inbox, pendingInvites, sentInvites, users, load, faults>>
  BY <1>1 DEF Lists!Ask, Lists!lists
<1>3. /\ act'.at = "sent" /\ act'.op = op /\ act'.id = id /\ act.at = "free"
      /\ \A ops, o : ~Done(ops, o) /\ ~Done(ops, o)'
  BY <1>2 DEF Done
<1>4. ~Lists!ServeLoad("users") /\ untold' = untold
  BY <1>2, NotRead, Unchanged DEF ListsKept
<1>5. Calm' /\ ServedRight'
  BY <1>1, <1>2, <1>3, <1>4, Unchanged DEF Steady, Calm, ServedRight, Lists!Loading
<1>6. UsersRight'
  BY <1>2, <1>3, <1>4, Unchanged DEF Steady, UsersRight
<1>7. load'["pending"] = Lists!Free => PendingRight'
  BY <1>2, <1>3, PendingStays, Unchanged DEF Steady
<1>8. load'["sent"] = Lists!Free => SentRight'
  BY <1>2, <1>3, SentStays, Unchanged DEF Steady
<1>9. ActRight'
  <2>1. ASSUME op \in Reply
        PROVE  ~Coming(id) /\ \A q \in Peer : peerInvite[q].id = id => Lists!Pending(q, "peer")
    <3>1. PendingRight /\ Listed(pendingInvites, id)
      BY <1>1, <2>1 DEF Steady
    <3>2. ~Coming(id)
      BY <3>1 DEF PendingRight
    <3>3. ASSUME NEW q \in Peer, peerInvite[q].id = id PROVE Lists!Pending(q, "peer")
      <4>1. ~Going(id)
        BY <3>3 DEF ListsKept, InboxKnown, Going, Told, Deleted
      <4>2. id \in Lists!Ids("peer")
        BY <1>3, <3>1, <4>1 DEF PendingRight
      <4>3. PICK o \in Peer : Lists!Pending(o, "peer") /\ peerInvite[o].id = id
        BY <4>2, IdsAre
      <4>4. peerInvite[o].id # 0
        BY <4>3 DEF ListsKept, Papers, Lists!Pending
      <4>5. o = q
        BY <3>3, <4>3, <4>4 DEF ListsKept, Papers
      <4>6. QED
        BY <4>3, <4>5
    <3>4. QED
      BY <3>2, <3>3
  <2>2. \A o : Coming(o)' <=> Coming(o)
    BY <1>2 DEF Coming, Told
  <2>3. op \in Reply => ~Coming(id)' /\ \A q \in Peer : peerInvite'[q].id = id => Lists!Pending(q, "peer")'
    BY <1>2, <2>1, <2>2, Unchanged
  <2>4. QED
    BY <1>3, <2>3 DEF ActRight
<1>10. QED
  BY <1>5, <1>6, <1>7, <1>8, <1>9 DEF Steady

LEMMA ServeActSteady ==
    ASSUME ListsKept, Steady, Undisturbed, Lists!ServeAct
    PROVE  Steady'
<1>1. /\ act # Lists!Free /\ act.at = "sent" /\ act.op \in {"accept", "reject", "cancel"}
      /\ act.peer \in Peer /\ Known(act.peer, act.id) /\ Papers /\ Lists!Counted
      /\ UNCHANGED <<connected, inbox, pendingInvites, sentInvites, users, load, faults>>
  BY DEF ListsKept, ActKnown, Steady, Calm, Lists!ServeAct, Lists!lists
<1>2. PICK p, id, op : p = act.peer /\ id = act.id /\ op = act.op
  OBVIOUS
<1>3. /\ p \in Peer /\ op \in {"accept", "reject", "cancel"}
      /\ Lists!Allowed(op, p, id)
      /\ act'.at = "done" /\ act'.op = op /\ act'.id = id
  BY <1>1, <1>2 DEF ListsKept, ActKnown, Lists!ServeAct
<1>4. peerInvite' # peerInvite
  BY <1>1, <1>3, Changes DEF Lists!Allowed
<1>5. /\ load["pending"] = Lists!Free /\ load["sent"] = Lists!Free /\ load["users"] = Lists!Free
      /\ ~Lists!Loading /\ ~Lists!Loading' /\ PendingRight /\ SentRight /\ ~Lists!ServeLoad("users")
  BY <1>1, <1>4, ChangeIsAlone
<1>6. Calm' /\ ServedRight'
  BY <1>1, <1>3, <1>5 DEF Steady, Calm, ServedRight
<1>7. PICK by, x : /\ peerInvite' = [peerInvite EXCEPT ![p] = x] /\ Lists!Pending(p, by)
                   /\ x.status # "pending" /\ peerInvite[p].id = id
                   /\ \/ by = "peer" /\ op \in Reply
                      \/ by = "user" /\ op = "cancel" /\ x.status = "none"
                   /\ x.status = "accepted" => op = "accept"
  <2>1. peerInvite[p] \in Paper /\ DOMAIN peerInvite = Peer
    BY <1>1, <1>3 DEF Papers
  <2>2. CASE op = "cancel"
    <3>1. PICK x : x = Lists!NoInvite
      OBVIOUS
    <3>2. x.status = "none"
      BY <3>1
    <3>3. QED
      BY <1>3, <2>2, <3>1, <3>2 DEF Lists!Allowed, Lists!Cancelling
  <2>3. ASSUME NEW status \in {"accepted", "rejected"}, Lists!Answering(p, "peer", status), peerInvite[p].id = id,
               op = IF status = "accepted" THEN "accept" ELSE "reject"
        PROVE  \E x : /\ peerInvite' = [peerInvite EXCEPT ![p] = x] /\ Lists!Pending(p, "peer")
                      /\ x.status = status
    <3>1. PICK x : x = [peerInvite[p] EXCEPT !.status = status]
      OBVIOUS
    <3>2. x.status = status
      BY <2>1, <3>1 DEF Paper
    <3>3. QED
      BY <2>1, <2>3, <3>1, <3>2 DEF Lists!Answering
  <2>4. CASE op = "accept"
    BY <1>3, <2>3, <2>4 DEF Lists!Allowed, Reply
  <2>5. CASE op = "reject"
    BY <1>3, <2>3, <2>5 DEF Lists!Allowed, Reply
  <2>6. QED
    BY <1>3, <2>2, <2>4, <2>5
<1>8. /\ \A who : by # who => Lists!Ids(who)' = Lists!Ids(who)
      /\ \A who : by = who => \A other : other \in Lists!Ids(who)' <=> other \in Lists!Ids(who) /\ other # id
  BY <1>1, <1>3, <1>7, IdsEnd
<1>9. \A ops, other : /\ ~Done(ops, other)
                      /\ Done(ops, other)' <=> op \in ops /\ other = id
  BY <1>1, <1>3 DEF Done
<1>10. PendingRight'
  <2>1. CASE by = "peer" /\ op \in Reply
    <3>1. \A other : other \in Lists!Ids("peer")' <=> other \in Lists!Ids("peer") /\ other # id
      BY <1>8, <2>1
    <3>2. \A other : other \in Lists!Ids("peer") <=>
             (Listed(pendingInvites, other) \/ Coming(other)) /\ ~Going(other)
      BY <1>5, <1>9 DEF PendingRight
    <3>3. \A other : /\ Listed(pendingInvites, other)' <=> Listed(pendingInvites, other)
                     /\ (Coming(other)' <=> Coming(other)) /\ (Going(other)' <=> Going(other))
      BY <1>1 DEF Listed, Coming, Going, Told
    <3>4. \A other : other \in Lists!Ids("peer")' <=>
             (Listed(pendingInvites, other)' \/ Coming(other)') /\ ~Going(other)' /\ ~Done(Reply, other)'
      BY <1>9, <2>1, <3>1, <3>2, <3>3
    <3>5. QED
      BY <1>1, <1>5, <3>3, <3>4 DEF PendingRight, Single
  <2>2. CASE by = "user" /\ op = "cancel"
    <3>1. \A other : Done(Reply, other)' <=> Done(Reply, other)
      BY <1>9, <2>2 DEF Reply
    <3>2. Lists!Ids("peer")' = Lists!Ids("peer")
      BY <1>8, <2>2
    <3>3. QED
      BY <1>1, <1>5, <3>1, <3>2, PendingStays
  <2>3. QED
    BY <1>7, <2>1, <2>2
<1>11. SentRight'
  <2>1. CASE by = "user" /\ op = "cancel"
    <3>1. \A other : other \in Lists!Ids("user")' <=> other \in Lists!Ids("user") /\ other # id
      BY <1>8, <2>1
    <3>2. \A other : other \in Lists!Ids("user") <=> Listed(sentInvites, other) /\ ~Leaving(other)
      BY <1>5, <1>9 DEF SentRight
    <3>3. \A other : /\ Listed(sentInvites, other)' <=> Listed(sentInvites, other)
                     /\ Leaving(other)' <=> Leaving(other)
      BY <1>1 DEF Listed, Leaving, Told
    <3>4. \A other : Done({"cancel"}, other)' <=> other = id
      BY <1>9, <2>1
    <3>5. \A other : other \in Lists!Ids("user")' <=>
             Listed(sentInvites, other)' /\ ~Leaving(other)' /\ ~Done({"cancel"}, other)'
      BY <3>1, <3>2, <3>3, <3>4
    <3>6. QED
      BY <1>1, <1>5, <3>5 DEF SentRight, Single
  <2>2. CASE by = "peer" /\ op \in Reply
    <3>1. \A other : Done({"cancel"}, other)' <=> Done({"cancel"}, other)
      BY <1>9, <2>2 DEF Reply
    <3>2. Lists!Ids("user")' = Lists!Ids("user")
      BY <1>8, <2>2
    <3>3. QED
      BY <1>1, <1>5, <3>1, <3>2, SentStays
  <2>3. QED
    BY <1>7, <2>1, <2>2
<1>12. UsersRight'
  <2>1. CASE op = "accept"
    BY <1>3, <2>1 DEF UsersRight
  <2>2. CASE op # "accept"
    <3>1. DOMAIN peerInvite = Peer
      BY <1>1 DEF Papers
    <3>2. \A q \in Peer : peerInvite'[q].status = "accepted" <=> peerInvite[q].status = "accepted"
      BY <1>7, <2>2, <3>1 DEF Lists!Pending
    <3>3. QED
      BY <1>1, <1>5, <3>2, UsersStay DEF Steady
  <2>3. QED
    BY <2>1, <2>2
<1>13. ActRight'
  <2>1. op \in Reply => ~Coming(id)'
    BY <1>1, <1>2 DEF Steady, ActRight, Coming, Told
  <2>2. QED
    BY <1>3, <2>1 DEF ActRight
<1>14. QED
  BY <1>6, <1>10, <1>11, <1>12, <1>13 DEF Steady

LEMMA RefuseActSteady ==
    ASSUME ListsKept, Steady, Undisturbed, Lists!RefuseAct
    PROVE  Steady'
<1>1. /\ act.at = "sent" /\ act' = Lists!Free /\ act'.at = "free"
      /\ UNCHANGED <<peerInvite, changes, connected, inbox, pendingInvites, sentInvites, users, load, faults>>
  BY DEF Lists!RefuseAct, Lists!lists
<1>2. \A ops, o : ~Done(ops, o) /\ ~Done(ops, o)'
  BY <1>1 DEF Done
<1>3. ~Lists!ServeLoad("users") /\ untold' = untold
  BY <1>1, NotRead, Unchanged DEF ListsKept
<1>4. Calm' /\ ServedRight' /\ ActRight'
  BY <1>1, <1>3, Unchanged DEF Steady, Calm, ServedRight, ActRight, Lists!Loading
<1>5. UsersRight'
  BY <1>1, <1>3, Unchanged DEF Steady, UsersRight
<1>6. load'["pending"] = Lists!Free => PendingRight'
  BY <1>1, <1>2, PendingStays, Unchanged DEF Steady
<1>7. load'["sent"] = Lists!Free => SentRight'
  BY <1>1, <1>2, SentStays, Unchanged DEF Steady
<1>8. QED
  BY <1>4, <1>5, <1>6, <1>7 DEF Steady

LEMMA ReceiveActSteady ==
    ASSUME ListsKept, Steady, Undisturbed, Lists!ReceiveAct
    PROVE  Steady'
<1>1. /\ act.at = "done" /\ act # Lists!Free /\ act' = Lists!Free /\ act'.at = "free"
      /\ act.op \in {"accept", "reject", "cancel"}
      /\ UNCHANGED <<peerInvite, changes, connected, inbox, users, faults>>
  BY DEF ListsKept, ActKnown, Steady, Calm, Lists!ReceiveAct
<1>2. /\ ~Lists!Loading /\ load["pending"] = Lists!Free /\ load["sent"] = Lists!Free /\ load["users"] = Lists!Free
      /\ PendingRight /\ SentRight /\ RowsKnown(pendingInvites) /\ RowsKnown(sentInvites)
  BY <1>1, LoadingIs DEF ListsKept, ListsKnown, Steady, Calm
<1>3. PICK id, op : id = act.id /\ op = act.op
  OBVIOUS
<1>4. \A ops, other : /\ ~Done(ops, other)'
                      /\ Done(ops, other) <=> op \in ops /\ other = id
  BY <1>1, <1>3 DEF Done
<1>5. ~Lists!ServeLoad("users") /\ untold' = untold
  <2>1. ~Lists!ServeLoad("users")
    BY <1>2 DEF Lists!ServeLoad
  <2>2. QED
    BY <1>1, <2>1, Unchanged
<1>6. /\ load'["pending"] = Lists!Free /\ load'["sent"] = Lists!Free
      /\ \/ op = "accept" /\ load'["users"] = Lists!Sent
         \/ op # "accept" /\ load'["users"] = Lists!Free
  BY <1>1, <1>2, <1>3 DEF ListsKept, LoadsKnown, Lists!ReceiveAct, Lists!AskUnlessLoading
<1>7. Calm' /\ ServedRight' /\ ActRight'
  BY <1>1, <1>6 DEF Steady, Calm, ServedRight, ActRight, Undisturbed
<1>8. UsersRight'
  BY <1>1, <1>2, <1>3, <1>5, <1>6, Unchanged DEF Steady, UsersRight
<1>9. \A other : /\ (Coming(other)' <=> Coming(other)) /\ (Going(other)' <=> Going(other))
                 /\ Leaving(other)' <=> Leaving(other)
  BY <1>1 DEF Coming, Going, Leaving, Told
<1>10. PendingRight'
  <2>1. PICK all : all = pendingInvites'
    OBVIOUS
  <2>2. SUFFICES /\ Single(all)
                 /\ \A other : Coming(other) => ~Listed(all, other)
                 /\ \A other : other \in Lists!Ids("peer") <=>
                       (Listed(all, other) \/ Coming(other)) /\ ~Going(other)
    BY <1>1, <1>2, <1>4, <1>9, <2>1, Unchanged DEF PendingRight, Single, Listed
  <2>3. \A other : other \in Lists!Ids("peer") <=>
           (Listed(pendingInvites, other) \/ Coming(other)) /\ ~Going(other) /\ ~(op \in Reply /\ other = id)
    BY <1>2, <1>4 DEF PendingRight
  <2>4. CASE op \in Reply
    <3>1. all = Lists!Without(pendingInvites, id)
      BY <1>3, <2>1, <2>4 DEF Lists!ReceiveAct, Reply
    <3>2. Single(all) /\ \A other : Listed(all, other) <=> Listed(pendingInvites, other) /\ other # id
      BY <1>2, <3>1, WithoutKnown DEF PendingRight
    <3>3. ~Coming(id)
      BY <1>1, <1>3, <2>4 DEF Steady, ActRight
    <3>4. \A other : Coming(other) => ~Listed(pendingInvites, other)
      BY <1>2 DEF PendingRight
    <3>5. QED
      BY <2>3, <2>4, <3>2, <3>3, <3>4
  <2>5. CASE op \notin Reply
    <3>1. all = pendingInvites
      BY <1>3, <2>1, <2>5 DEF Lists!ReceiveAct, Reply
    <3>2. QED
      BY <1>2, <2>3, <2>5, <3>1 DEF PendingRight
  <2>6. QED
    BY <2>4, <2>5
<1>11. SentRight'
  <2>1. PICK all : all = sentInvites'
    OBVIOUS
  <2>2. SUFFICES /\ Single(all)
                 /\ \A other : other \in Lists!Ids("user") <=> Listed(all, other) /\ ~Leaving(other)
    BY <1>1, <1>4, <1>9, <2>1, Unchanged DEF SentRight, Single, Listed
  <2>3. \A other : other \in Lists!Ids("user") <=>
           Listed(sentInvites, other) /\ ~Leaving(other) /\ ~(op = "cancel" /\ other = id)
    BY <1>2, <1>4 DEF SentRight
  <2>4. CASE op = "cancel"
    <3>1. all = Lists!Without(sentInvites, id)
      BY <1>3, <2>1, <2>4 DEF Lists!ReceiveAct
    <3>2. Single(all) /\ \A other : Listed(all, other) <=> Listed(sentInvites, other) /\ other # id
      BY <1>2, <3>1, WithoutKnown DEF SentRight
    <3>3. QED
      BY <2>3, <2>4, <3>2
  <2>5. CASE op # "cancel"
    <3>1. all = sentInvites
      BY <1>3, <2>1, <2>5 DEF Lists!ReceiveAct
    <3>2. QED
      BY <1>2, <2>3, <2>5, <3>1 DEF SentRight
  <2>6. QED
    BY <2>4, <2>5
<1>12. QED
  BY <1>7, <1>8, <1>10, <1>11 DEF Steady

\* ... and from one step to the next.
LEMMA NextSteady ==
    ASSUME ListsKept, ListsKept', Lists!ObservedNext, raced \in BOOLEAN, mounted', ~raced',
           mounted /\ ~raced => Steady
    PROVE  Steady'
<1>1. CASE Lists!ReturnHome
  <2>1. Lists!Quiet /\ connected
    BY <1>1 DEF Lists!ObservedNext
  <2>2. /\ load' = [k \in Lists!List |-> Lists!Sent] /\ act' = Lists!Free /\ inbox' = <<>> /\ connected'
    BY <1>1, <2>1 DEF Lists!ReturnHome, Lists!Quiet, Lists!Loading
  <2>3. /\ \A k \in Lists!List : load'[k] # Lists!Free /\ load'[k].at # "served"
        /\ act'.at = "free"
    BY <2>2
  <2>4. QED
    BY <2>2, <2>3 DEF Steady, Calm, ServedRight, UsersRight, ActRight
<1>2. CASE ~Lists!ReturnHome
  <2>1. mounted
    BY <1>2 DEF Lists!ObservedNext, Lists!Next, Lists!PeerActs, Lists!OtherTabActs, Lists!OpenProfile,
       Lists!ServeLoad, Lists!ReceiveLoad, Lists!FailLoad, Lists!ReceiveEvent, Lists!Drop, Lists!Reconnect,
       Lists!Click, Lists!Ask, Lists!ServeAct, Lists!RefuseAct, Lists!ReceiveAct, Lists!page
  <2>2. /\ raced' = \/ raced
                    \/ Lists!Unheard
                    \/ Lists!Loading' /\ (peerInvite' # peerInvite \/ inbox' # <<>>)
                    \/ act.at = "done" /\ peerInvite' # peerInvite
        /\ untold' = IF Lists!ServeLoad("users") THEN {}
                     ELSE untold \cup {q \in Peer : peerInvite[q].by = "user" /\
                            peerInvite[q].status = "pending" /\ peerInvite'[q].status = "accepted"}
    BY <1>2 DEF Lists!ObservedNext
  <2>3. /\ ~raced /\ ~Lists!Unheard
        /\ ~(Lists!Loading' /\ (peerInvite' # peerInvite \/ inbox' # <<>>))
        /\ ~(act.at = "done" /\ peerInvite' # peerInvite)
    BY <2>2
  <2>4. Undisturbed
    BY <2>2, <2>3 DEF Undisturbed, Lists!Unheard
  <2>5. Steady
    BY <2>1, <2>3
  <2>6. /\ \A p \in Peer : ~Lists!OtherTabActs(p) /\ ~Lists!OpenProfile(p)
        /\ \A k \in Lists!List : ~Lists!FailLoad(k)
        /\ ~Lists!Drop /\ ~Lists!Reconnect
    <3>1. faults' # faults + 1
      BY <2>4 DEF ListsKept, Undisturbed
    <3>2. QED
      BY <2>4, <2>5, <3>1 DEF Undisturbed, Steady, Calm, Lists!OpenProfile, Lists!FailLoad, Lists!Drop, Lists!Reconnect
  <2>7. Lists!Next
    BY DEF Lists!ObservedNext
  <2>8. \/ \E p \in Peer : Lists!PeerActs(p)
        \/ \E k \in Lists!List : Lists!ServeLoad(k) \/ Lists!ReceiveLoad(k)
        \/ Lists!ReceiveEvent \/ Lists!Click \/ Lists!ServeAct \/ Lists!RefuseAct \/ Lists!ReceiveAct
    BY <1>2, <2>6, <2>7 DEF Lists!Next
  <2>9. QED
    BY <2>1, <2>4, <2>5, <2>8, PeerActsSteady, ServeLoadSteady, ReceiveLoadSteady, ReceiveEventSteady,
       ClickSteady, ServeActSteady, RefuseActSteady, ReceiveActSteady
<1>3. QED
  BY <1>1, <1>2

\* At rest, the lists are those of the server.
LEMMA AtRest ==
    ASSUME ListsKept, Steady, Lists!Quiet
    PROVE  /\ users = Lists!Accepted \ untold
           /\ Single(pendingInvites) /\ Single(sentInvites)
           /\ \A id : /\ id \in Lists!Ids("peer") <=> Listed(pendingInvites, id)
                      /\ id \in Lists!Ids("user") <=> Listed(sentInvites, id)
<1>1. /\ load["pending"] = Lists!Free /\ load["sent"] = Lists!Free /\ load["users"] = Lists!Free
      /\ act.at = "free" /\ inbox = <<>>
  BY LoadingIs DEF ListsKept, Lists!Quiet
<1>2. /\ \A types, id : ~Told(types, id)
      /\ \A ops, id : ~Done(ops, id)
  BY <1>1 DEF Told, Done
<1>3. users = Lists!Accepted \ untold
  BY <1>1 DEF Steady, UsersRight
<1>4. PendingRight /\ SentRight
  BY <1>1 DEF Steady
<1>5. QED
  BY <1>2, <1>3, <1>4 DEF PendingRight, SentRight, Coming, Going, Leaving

LEMMA OnceIs ==
    ASSUME NEW rows, RowsKnown(rows), Single(rows)
    PROVE  Lists!Once(rows)
<1>1. PICK n : n = Len(rows)
  OBVIOUS
<1>2. n \in Nat /\ DOMAIN rows = 1..n
  BY <1>1, RowFacts
<1>3. PICK T, f : T = Lists!IdsOf(rows) /\ f = [i \in 1..n |-> rows[i].id]
  OBVIOUS
<1>4. f \in Surjection(1..n, T)
  BY <1>2, <1>3 DEF Lists!IdsOf, Surjection
<1>5. f \in Injection(1..n, T)
  BY <1>2, <1>3, <1>4 DEF Surjection, Injection, IsInjective, Single
<1>6. IsFiniteSet(1..n) /\ Cardinality(1..n) = n
  BY <1>2, FS_Interval
<1>7. Cardinality(T) = n
  BY <1>4, <1>5, <1>6, FS_Surjection
<1>8. QED
  BY <1>1, <1>3, <1>7 DEF Lists!Once, Lists!Cardinality, Cardinality, Lists!IsFiniteSet, IsFiniteSet

LEMMA RestIsRight ==
    ASSUME ListsKept, Steady, Lists!Quiet
    PROVE  Lists!ListsRight
<1>1. RowsKnown(pendingInvites) /\ RowsKnown(sentInvites)
  BY DEF ListsKept, ListsKnown
<1>2. Lists!Once(pendingInvites) /\ Lists!Once(sentInvites)
  BY <1>1, AtRest, OnceIs
<1>3. ASSUME NEW rows, NEW S, \A id : id \in S <=> Listed(rows, id) PROVE Lists!IdsOf(rows) = S
  BY <1>3 DEF Listed, Lists!IdsOf
<1>4. QED
  BY <1>2, <1>3, AtRest DEF Lists!ListsRight

\* What the profile page reads off such lists is what the server would say.
LEMMA StatusIsTruth ==
    ASSUME ListsKept, Steady, Lists!Quiet, untold = {},
           \A i \in DOMAIN pendingInvites : pendingInvites[i].from = "load",
           NEW p \in Peer
    PROVE  Lists!StatusOf(p) = Lists!Truth(p)
<1>1. ASSUME NEW rows, RowsKnown(rows), \A i \in DOMAIN rows : rows[i].from = "load",
             NEW who, \A id : id \in Lists!Ids(who) <=> Listed(rows, id)
      PROVE  Lists!Has(rows, p) <=> Lists!Pending(p, who)
  <2>1. ASSUME Lists!Has(rows, p) PROVE Lists!Pending(p, who)
    <3>1. PICK i \in DOMAIN rows : rows[i].peer = p
      BY <2>1 DEF Lists!Has
    <3>2. Known(p, rows[i].id) /\ Listed(rows, rows[i].id)
      BY <1>1, <3>1 DEF RowsKnown, Listed
    <3>3. PICK q \in Peer : Lists!Pending(q, who) /\ peerInvite[q].id = rows[i].id
      BY <1>1, <3>2, IdsAre
    <3>4. QED
      BY <3>2, <3>3 DEF Known
  <2>2. ASSUME Lists!Pending(p, who) PROVE Lists!Has(rows, p)
    <3>1. peerInvite[p].id \in Lists!Ids(who)
      BY <2>2, IdsAre
    <3>2. PICK i \in DOMAIN rows : rows[i].id = peerInvite[p].id
      BY <1>1, <3>1 DEF Listed
    <3>3. rows[i].peer = p
      BY <1>1, <3>2 DEF RowsKnown, Known
    <3>4. QED
      BY <1>1, <3>2, <3>3 DEF Lists!Has
  <2>3. QED
    BY <2>1, <2>2
<1>2. /\ Lists!Has(sentInvites, p) <=> Lists!Pending(p, "user")
      /\ Lists!Has(pendingInvites, p) <=> Lists!Pending(p, "peer")
  BY <1>1, AtRest DEF ListsKept, ListsKnown
<1>3. p \in users <=> peerInvite[p].status = "accepted"
  BY AtRest DEF Lists!Accepted
<1>4. QED
  BY <1>2, <1>3 DEF Lists!StatusOf, Lists!Truth, Lists!Pending

LEMMA NextProfile ==
    ASSUME ListsKept, Lists!ObservedNext, Lists!ProfileIsRight, mounted /\ ~raced => Steady
    PROVE  Lists!ProfileIsRight'
<1>1. CASE \E p \in Peer : Lists!OpenProfile(p)
  <2>1. PICK p \in Peer : Lists!OpenProfile(p)
    BY <1>1
  <2>2. mounted /\ profile'.of = p /\ profile'.status = Lists!StatusOf(p)
    BY <2>1 DEF Lists!OpenProfile
  <2>3. CASE /\ Lists!Quiet /\ ~raced /\ untold = {}
             /\ \A i \in DOMAIN pendingInvites : pendingInvites[i].from = "load"
    <3>1. truth' = Lists!Truth(p)
      BY <1>1, <2>2, <2>3 DEF Lists!ObservedNext
    <3>2. Lists!StatusOf(p) = Lists!Truth(p)
      BY <2>2, <2>3, StatusIsTruth
    <3>3. QED
      BY <2>2, <3>1, <3>2 DEF Lists!ProfileIsRight
  <2>4. CASE ~(/\ Lists!Quiet /\ ~raced /\ untold = {}
               /\ \A i \in DOMAIN pendingInvites : pendingInvites[i].from = "load")
    BY <1>1, <2>4 DEF Lists!ObservedNext, Lists!ProfileIsRight
  <2>5. QED
    BY <2>3, <2>4
<1>2. CASE ~(\E p \in Peer : Lists!OpenProfile(p))
  BY <1>2 DEF Lists!ObservedNext, Lists!ProfileIsRight
<1>3. QED
  BY <1>1, <1>2

\* What stays true of the lists, of which a tab that is not told of everything, or
\* asks while things change, keeps only the first part.
ListsInv ==
    /\ ListsKept /\ Lists!ProfileIsRight /\ raced \in BOOLEAN
    /\ mounted /\ ~raced => Steady

LEMMA InitListsInv == Lists!ObservedInit => ListsInv
<1> SUFFICES ASSUME Lists!ObservedInit PROVE ListsInv
  OBVIOUS
<1> USE DEF Lists!ObservedInit, Lists!Init
<1>1. ListsKept
  BY InitListsKept
<1>2. /\ \A k \in Lists!List : load[k] # Lists!Free /\ load[k].at # "served"
      /\ act.at = "free"
  OBVIOUS
<1>3. Steady
  BY <1>2 DEF Steady, Calm, ServedRight, UsersRight, ActRight
<1>4. QED
  BY <1>1, <1>3 DEF ListsInv, Lists!ProfileIsRight

LEMMA NextListsInv == ListsInv /\ Lists!ObservedNext => ListsInv'
<1> SUFFICES ASSUME ListsInv, Lists!ObservedNext PROVE ListsInv'
  OBVIOUS
<1>1. ListsKept'
  BY NextListsKept DEF ListsInv, Lists!ObservedNext
<1>2. raced' \in BOOLEAN
  BY DEF ListsInv, Lists!ObservedNext
<1>3. mounted' /\ ~raced' => Steady'
  BY <1>1, NextSteady DEF ListsInv
<1>4. Lists!ProfileIsRight'
  BY NextProfile DEF ListsInv
<1>5. QED
  BY <1>1, <1>2, <1>3, <1>4 DEF ListsInv

\* For any peers, and any number of invites and faults: a tab that has come to rest
\* without a race shows the user's invites, each once, and as contacts those who are
\* connected short of the ones it was not told of; and a profile page opened from it
\* says what the server would.
THEOREM ListsAlwaysRight == MCSpec => []ListsAreRight
<1>1. MCInit => ListsInv
  BY InitListsInv DEF MCInit
<1>2. ListsInv /\ [MCNext]_mcVars => ListsInv'
  <2> SUFFICES ASSUME ListsInv, [MCNext]_mcVars PROVE ListsInv'
    OBVIOUS
  <2>1. CASE Lists!ObservedNext
    BY <2>1, NextListsInv
  <2>2. CASE UNCHANGED listVars
    <3> USE <2>2 DEF listVars
    <3>1. StaysKnown
      BY SameStaysKnown DEF ListsInv, ListsKept
    <3>2. ListsKept'
      BY <3>1, ListsStayKnown, InboxStaysKnown, LoadsStayKnown, ActStaysKnown, PageStaysKnown
      DEF ListsInv, ListsKept, StaysKnown
    <3>3. Steady' <=> Steady
      BY Unchanged DEF Steady, Calm, ServedRight, UsersRight, ActRight, PendingRight, SentRight, Single, Listed,
         Coming, Going, Leaving, Told, Done, Lists!Loading
    <3>4. QED
      BY <3>2, <3>3 DEF ListsInv, Lists!ProfileIsRight
  <2>3. QED
    BY <2>1, <2>2 DEF MCNext, InviteStep, ListStep, LimitStep, mcVars
<1>3. ListsInv => ListsAreRight
  <2> SUFFICES ASSUME ListsInv PROVE ListsAreRight
    OBVIOUS
  <2>1. Lists!TypeOK
    <3>1. \A p \in Peer : /\ peerInvite[p].status \in {"none", "pending", "accepted", "rejected"}
                          /\ peerInvite[p].id \in 0..MaxInvites
      BY DEF ListsInv, ListsKept, Papers, Paper
    <3>2. pendingInvites \in Seq(Lists!Row) /\ sentInvites \in Seq(Lists!Row) /\ users \subseteq Peer
      BY DEF ListsInv, ListsKept, ListsKnown, RowsKnown
    <3>3. mounted <=> profile = Lists!NoProfile
      BY DEF ListsInv, ListsKept, PageKnown
    <3>4. act.at \in {"free", "sent", "done"}
      BY DEF ListsInv, ListsKept, ActKnown
    <3>5. QED
      BY <3>1, <3>2, <3>3, <3>4 DEF Lists!TypeOK
  <2>2. mounted /\ Lists!Quiet /\ ~raced => Lists!ListsRight /\ users = Lists!Accepted \ untold
    BY RestIsRight, AtRest DEF ListsInv
  <2>3. QED
    BY <2>1, <2>2 DEF ListsInv, ListsAreRight, Lists!ListsAreRight, Lists!ContactsAreRight
<1>4. QED
  BY <1>1, <1>2, <1>3, PTL DEF MCSpec
=============================================================================
