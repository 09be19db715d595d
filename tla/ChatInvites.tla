------------------------------ MODULE ChatInvites ------------------------------
(***************************************************************************)
(* Chat invites: the documents of one pair of users and the handlers of    *)
(* backend/src/controllers/chatInvite.controllers.js.  A handler loads a   *)
(* document, decides, and saves it after an await; save() writes the paths *)
(* that differ from what was loaded and fails on a deleted document.       *)
(***************************************************************************)
EXTENDS Integers, FiniteSets

CONSTANTS
    User,      \* the two users
    Invite,    \* document ids, each used once
    Request    \* handlers that may run at the same time

ASSUME PairAssumption == IsFiniteSet(User) /\ Cardinality(User) = 2

VARIABLES
    invite,    \* the documents that exist
    used,      \* ids given out so far
    req,       \* the handler each request is in
    willing    \* history: who has sent or accepted each invite

vars == <<invite, used, req, willing>>

Other(u) == CHOOSE v \in User : v # u
Absent == [sender |-> "none", status |-> "absent"]
Idle   == [at |-> "idle"]
Exists(i) == invite[i] # Absent

Init ==
    /\ invite = [i \in Invite |-> Absent]
    /\ used = {}
    /\ req = [r \in Request |-> Idle]
    /\ willing = [i \in Invite |-> {}]

Begin(r, handler) == req[r] = Idle /\ req' = [req EXCEPT ![r] = handler]
Respond(r)        == req' = [req EXCEPT ![r] = Idle]

-----------------------------------------------------------------------------
(* sendChatInvite: findOne in both directions, then reopen or create. *)

SendFound(r, u, i) ==
    /\ Exists(i)
    /\ invite[i].status = "rejected"
    /\ Begin(r, [at |-> "reopen", by |-> u, id |-> i, loaded |-> invite[i].sender])
    /\ UNCHANGED <<invite, used, willing>>

SendFoundNoneOneWay(r, u) ==  \* mutant: looks in one direction only
    /\ \A i \in Invite : invite[i].sender # u
    /\ Begin(r, [at |-> "create", by |-> u])
    /\ UNCHANGED <<invite, used, willing>>

SendFoundNone(r, u) ==
    /\ \A i \in Invite : ~Exists(i)
    /\ Begin(r, [at |-> "create", by |-> u])
    /\ UNCHANGED <<invite, used, willing>>

\* The direction is only written if it differs from the one loaded.
Reopen(r) ==
    LET i == req[r].id
        sender == IF req[r].loaded = req[r].by THEN invite[i].sender ELSE req[r].by
    IN  /\ req[r].at = "reopen"
        /\ IF Exists(i)
           THEN /\ invite' = [invite EXCEPT ![i] = [sender |-> sender, status |-> "pending"]]
                /\ willing' = [willing EXCEPT ![i] = @ \cup {req[r].by}]
           ELSE UNCHANGED <<invite, willing>>
        /\ Respond(r)
        /\ UNCHANGED used

Create(r, i) ==
    /\ req[r].at = "create"
    /\ i \notin used
    /\ invite' = [invite EXCEPT ![i] = [sender |-> req[r].by, status |-> "pending"]]
    /\ used' = used \cup {i}
    /\ willing' = [willing EXCEPT ![i] = @ \cup {req[r].by}]
    /\ Respond(r)

-----------------------------------------------------------------------------
(* acceptChatInvite, rejectChatInvite, cancelChatInvite: load, check whose   *)
(* turn it is and that the invite is pending, then write.                    *)

AnswerByAnyone(r, u, i, verdict) ==  \* mutant: no check of the receiver
    /\ Exists(i)
    /\ invite[i].status = "pending"
    /\ Begin(r, [at |-> "save", by |-> u, id |-> i, status |-> verdict])
    /\ UNCHANGED <<invite, used, willing>>

Answer(r, u, i, verdict) ==
    /\ Exists(i)
    /\ invite[i] = [sender |-> Other(u), status |-> "pending"]
    /\ Begin(r, [at |-> "save", by |-> u, id |-> i, status |-> verdict])
    /\ UNCHANGED <<invite, used, willing>>

SaveAnswer(r) ==
    LET i == req[r].id
    IN  /\ req[r].at = "save"
        /\ invite' = IF Exists(i) THEN [invite EXCEPT ![i].status = req[r].status]
                                  ELSE invite
        /\ willing' = IF Exists(i) /\ req[r].status = "accepted"
                      THEN [willing EXCEPT ![i] = @ \cup {req[r].by}] ELSE willing
        /\ Respond(r)
        /\ UNCHANGED used

BeginCancelAny(r, u, i) ==  \* mutant: no check that it is pending
    /\ Exists(i)
    /\ invite[i].sender = u
    /\ Begin(r, [at |-> "delete", id |-> i])
    /\ UNCHANGED <<invite, used, willing>>

BeginCancel(r, u, i) ==
    /\ Exists(i)
    /\ invite[i] = [sender |-> u, status |-> "pending"]
    /\ Begin(r, [at |-> "delete", id |-> i])
    /\ UNCHANGED <<invite, used, willing>>

Delete(r) ==
    /\ req[r].at = "delete"
    /\ invite' = [invite EXCEPT ![req[r].id] = Absent]
    /\ Respond(r)
    /\ UNCHANGED <<used, willing>>

Next ==
    \E r \in Request :
        \/ \E u \in User :
              \/ SendFoundNone(r, u)
              \/ \E i \in Invite :
                    \/ SendFound(r, u, i)
                    \/ \E verdict \in {"accepted", "rejected"} : Answer(r, u, i, verdict)
                    \/ BeginCancel(r, u, i)
        \/ \E i \in Invite : Create(r, i)
        \/ Reopen(r) \/ SaveAnswer(r) \/ Delete(r)

Spec == Init /\ [][Next]_vars

-----------------------------------------------------------------------------
\* Every document stays in its domain.
TypeOK ==
    /\ \A i \in Invite :
          \/ invite[i] = Absent
          \/ /\ invite[i].sender \in User
             /\ invite[i].status \in {"pending", "accepted", "rejected"}
    /\ used \subseteq Invite
    /\ willing \in [Invite -> SUBSET User]

\* Nobody is connected against their will: each of the two has sent or accepted
\* the very invite that connects them, however sends, answers, cancellations and
\* re-sends in the other direction overlap.
ConsentOfBoth ==
    \A i \in Invite : invite[i].status = "accepted" => willing[i] = User

\* Every send checks both directions, so a pair has at most one invite.
AtMostOneInvite == Cardinality({i \in Invite : Exists(i)}) <= 1
=============================================================================
