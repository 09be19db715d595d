---------------------------- MODULE CreateGroupForm ----------------------------
(***************************************************************************)
(* Creating groups from the browser: CreateGroupModal.jsx, the list of     *)
(* groups of useGroupStore.js that the sidebar loads when it is mounted,   *)
(* and what the server makes of the requests.                              *)
(*                                                                         *)
(* A submission creates the group and then adds the members, each request  *)
(* raced with a timer.  The store puts up a toast for the answer of each   *)
(* request, success or error, whoever won the race: "announced" and        *)
(* "refused" below.  A submission whose handler throws, for an error or    *)
(* for the timer, has put up an error: "failed".  Submissions are          *)
(* numbered, and the group a submission makes is known by its number.  A   *)
(* form is numbered too: it is the same form until it is emptied.          *)
(***************************************************************************)
EXTENDS Integers, FiniteSets, SequencesExt

CONSTANTS
    MaxSubmissions,  \* bound: submissions
    MaxForms,        \* bound: forms filled in
    MaxLists,        \* bound: loads of the list
    MaxLosses        \* bound: requests or answers that are lost or refused

Submission == 1..MaxSubmissions
None == 0

VARIABLES
    form,        \* the modal: on screen, filled in, its number
    submitting,  \* the submission the mounted modal waits for, or None
    flow,        \* how far each submission's handler is
    formOf,      \* the form each submission was made of
    create, add, \* the two requests of each submission
    stored,      \* groups on the server
    joined,      \* groups whose chosen members are in
    groups,      \* the list in the store
    listing,     \* the load of the list
    lists, losses

requests == <<create, add>>
server   == <<stored, joined>>
vars == <<form, submitting, flow, formOf, create, add, stored, joined, groups,
          listing, lists, losses>>

Free == [at |-> "free"]

Init ==
    /\ form = [open |-> FALSE, filled |-> FALSE, no |-> 1]
    /\ submitting = None
    /\ flow = [n \in Submission |-> "none"]
    /\ formOf = [n \in Submission |-> None]
    /\ create = [n \in Submission |-> "none"] /\ add = [n \in Submission |-> "none"]
    /\ stored = {} /\ joined = {}
    /\ groups = <<>>
    /\ listing = Free
    /\ lists = 0 /\ losses = 0

Emptied == [open |-> FALSE, filled |-> FALSE, no |-> form.no + 1]

-----------------------------------------------------------------------------
(* The user. *)

Open ==
    /\ ~form.open
    /\ form' = [form EXCEPT !.open = TRUE]
    /\ UNCHANGED <<submitting, flow, formOf, requests, server, groups, listing, lists, losses>>

\* A name of 3 to 30 characters and at least one participant.
Fill ==
    /\ form.open /\ ~form.filled
    /\ form' = [form EXCEPT !.filled = TRUE]
    /\ UNCHANGED <<submitting, flow, formOf, requests, server, groups, listing, lists, losses>>

\* handleClose does nothing while a submission is under way.
CloseForm ==
    /\ form.open /\ submitting = None
    /\ form.no < MaxForms
    /\ form' = Emptied
    /\ UNCHANGED <<submitting, flow, formOf, requests, server, groups, listing, lists, losses>>

SubmitAgain(n) ==  \* mutant: a second click submits again
    /\ form.open /\ form.filled
    /\ \A k \in Submission : flow[k] = "none" <=> k >= n
    /\ submitting' = n
    /\ flow' = [flow EXCEPT ![n] = "creating"]
    /\ formOf' = [formOf EXCEPT ![n] = form.no]
    /\ create' = [create EXCEPT ![n] = "sent"]
    /\ UNCHANGED <<form, add, server, groups, listing, lists, losses>>

Submit(n) ==
    /\ form.open /\ form.filled /\ submitting = None
    /\ \A k \in Submission : flow[k] = "none" <=> k >= n
    /\ submitting' = n
    /\ flow' = [flow EXCEPT ![n] = "creating"]
    /\ formOf' = [formOf EXCEPT ![n] = form.no]
    /\ create' = [create EXCEPT ![n] = "sent"]
    /\ UNCHANGED <<form, add, server, groups, listing, lists, losses>>

\* To another page and back: modal and sidebar are mounted anew, and the
\* sidebar loads the list unless it is being loaded.  A submission goes on.
Return ==
    /\ lists < MaxLists /\ form.no < MaxForms
    /\ lists' = lists + 1
    /\ form' = Emptied
    /\ submitting' = None
    /\ listing' = IF listing = Free THEN [at |-> "sent"] ELSE listing
    /\ UNCHANGED <<flow, formOf, requests, server, groups, losses>>

\* A group that is opened is joined, and the server's groupJoined makes the store
\* load the list, unless it is being loaded.
Reload ==
    /\ lists < MaxLists /\ listing = Free
    /\ lists' = lists + 1
    /\ listing' = [at |-> "sent"]
    /\ UNCHANGED <<form, submitting, flow, formOf, requests, server, groups, losses>>

-----------------------------------------------------------------------------
(* The server: the group with its owner; the members, some of whom may come  *)
(* to the group on their own; the groups the user is an active member of.    *)

ServeCreate(n) ==
    /\ create[n] = "sent"
    /\ create' = [create EXCEPT ![n] = "served"]
    /\ stored' = stored \cup {n}
    /\ UNCHANGED <<form, submitting, flow, formOf, add, joined, groups, listing, lists, losses>>

ServeAdd(n) ==
    /\ add[n] = "sent"
    /\ add' = [add EXCEPT ![n] = "served"]
    /\ joined' = joined \cup {n}
    /\ UNCHANGED <<form, submitting, flow, formOf, create, stored, groups, listing, lists, losses>>

ServeList ==
    /\ listing.at = "sent"
    /\ \E rows \in SetToSeqs(stored) : listing' = [at |-> "served", rows |-> rows]
    /\ UNCHANGED <<form, submitting, flow, formOf, requests, server, groups, lists, losses>>

\* Refused, or lost on one of its ways: axios rejects it after 30 s at most.
Lose(n) ==
    /\ losses < MaxLosses
    /\ losses' = losses + 1
    /\ \/ create[n] \in {"sent", "served"} /\ create' = [create EXCEPT ![n] = "lost"] /\ UNCHANGED add
       \/ add[n] \in {"sent", "served"} /\ add' = [add EXCEPT ![n] = "lost"] /\ UNCHANGED create
    /\ UNCHANGED <<form, submitting, flow, formOf, server, groups, listing, lists>>

LoseList ==
    /\ losses < MaxLosses
    /\ listing # Free
    /\ losses' = losses + 1
    /\ listing' = Free
    /\ UNCHANGED <<form, submitting, flow, formOf, requests, server, groups, lists>>

-----------------------------------------------------------------------------
(* Answers, and the timers they race with. *)

\* The finally block; it unlocks only the modal it belongs to.
End(n, how) ==
    /\ flow' = [flow EXCEPT ![n] = how]
    /\ submitting' = IF submitting = n THEN None ELSE submitting

\* The store appends the group and announces it, late or not; the handler, if it
\* still waits, goes on to the members.
ReceiveCreate(n) ==
    /\ create[n] = "served"
    /\ create' = [create EXCEPT ![n] = "announced"]
    /\ groups' = Append(groups, n)
    /\ IF flow[n] = "creating"
       THEN flow' = [flow EXCEPT ![n] = "adding"] /\ add' = [add EXCEPT ![n] = "sent"]
       ELSE UNCHANGED <<flow, add>>
    /\ UNCHANGED <<form, submitting, formOf, server, listing, lists, losses>>

\* The store announces the members; the handler, if it still waits, empties and
\* closes the form, if the modal is still the one mounted.
ReceiveAdd(n) ==
    /\ add[n] = "served"
    /\ add' = [add EXCEPT ![n] = "announced"]
    /\ IF flow[n] = "adding"
       THEN End(n, "succeeded") /\ form' = IF submitting = n THEN Emptied ELSE form
       ELSE UNCHANGED <<flow, submitting, form>>
    /\ UNCHANGED <<formOf, create, server, groups, listing, lists, losses>>

\* The store puts up the error, late or not; a handler that still waits ends and
\* leaves the form as it is.
Reject(n) ==
    /\ \/ create[n] = "lost" /\ create' = [create EXCEPT ![n] = "refused"] /\ UNCHANGED add
       \/ add[n] = "lost" /\ add' = [add EXCEPT ![n] = "refused"] /\ UNCHANGED create
    /\ IF flow[n] \in {"creating", "adding"} THEN End(n, "failed")
       ELSE UNCHANGED <<flow, submitting>>
    /\ UNCHANGED <<form, formOf, server, groups, listing, lists, losses>>

\* The timer wins: the handler puts up "Request timed out".
TimeOut(n) ==
    /\ flow[n] \in {"creating", "adding"}
    /\ End(n, "failed")
    /\ UNCHANGED <<form, formOf, requests, server, groups, listing, lists, losses>>

ReceiveList ==
    /\ listing.at = "served"
    /\ groups' = listing.rows
    /\ listing' = Free
    /\ UNCHANGED <<form, submitting, flow, formOf, requests, server, lists, losses>>

Answer(n) == \/ ServeCreate(n) \/ ServeAdd(n) \/ ReceiveCreate(n) \/ ReceiveAdd(n)
             \/ Reject(n) \/ TimeOut(n)

Next ==
    \/ Open \/ Fill \/ CloseForm \/ Return \/ Reload
    \/ \E n \in Submission : Submit(n) \/ Lose(n) \/ Answer(n)
    \/ ServeList \/ ReceiveList \/ LoseList

Spec == Init /\ [][Next]_vars

-----------------------------------------------------------------------------
\* Every variable stays in its domain, and a locked form waits for a handler
\* that is still at work.
TypeOK ==
    /\ form \in [open : BOOLEAN, filled : BOOLEAN, no : 1..(MaxForms + MaxSubmissions)]
    /\ submitting \in Submission \cup {None}
    /\ submitting # None => flow[submitting] \in {"creating", "adding"}
    /\ flow \in [Submission -> {"none", "creating", "adding", "succeeded", "failed"}]
    /\ {stored, joined} \subseteq SUBSET Submission
    /\ groups \in Seq(Submission)
    /\ lists \in 0..MaxLists /\ losses \in 0..MaxLosses

\* However often the button is pressed, answers come late and pages are left: of
\* the submissions of one form all but one ended with an error on the screen, so
\* nobody makes a second group who was not told that something had gone wrong with
\* the first.  That the first was created may have been announced all the same:
\* it is then its members that failed, or its answer that was late.
SecondGroupWasAsked ==
    \A n, k \in Submission :
        n # k /\ formOf[n] = formOf[k] /\ formOf[n] # None => "failed" \in {flow[n], flow[k]}

\* What is announced is so: a group that was announced is on the server, and its
\* members are in once they were announced.  A form is emptied as done with only
\* after both; and a group that is without its members, announced or not, is one
\* still being made or one whose user was shown an error.
OnlyWholeGroups ==
    \A n \in Submission :
        /\ create[n] = "announced" => n \in stored
        /\ add[n] = "announced" => n \in stored \cap joined
        /\ flow[n] = "succeeded" => create[n] = "announced" /\ add[n] = "announced"
        /\ n \in stored \ joined => flow[n] \in {"creating", "adding", "failed"}
=============================================================================
