------------------------------- MODULE InviteLists -------------------------------
(***************************************************************************)
(* What one tab shows of a user's chat invites: the two lists of           *)
(* useChatInviteStore.js, the contacts of useChatStore.js, the sidebar     *)
(* that loads and subscribes to them while it is mounted, and the profile  *)
(* page that takes its place and reads them once.                          *)
(*                                                                         *)
(* The handlers of chatInvite.controllers.js are atomic here (ChatInvites  *)
(* has their interleavings).  There is at most one invite of the user and  *)
(* each peer; an invite that was deleted is replaced by one of a new id.   *)
(***************************************************************************)
EXTENDS Integers, Sequences, FiniteSets, SequencesExt

CONSTANTS
    Peer,
    NoPeer,      \* no profile page is open
    MaxInvites,  \* bound: invites created, reopened or answered
    MaxReturns,  \* bound: returns to the page with the sidebar
    MaxFaults    \* bound: failed requests and dropped sockets

VARIABLES
    invite,          \* the document of each peer
    changes,         \* changes of documents so far
    connected,       \* the tab's socket
    inbox,           \* socket events on their way to the tab
    mounted,         \* the sidebar is on the page
    profile,         \* the profile page: whose, and inviteStatus
    pendingInvites, sentInvites, users,
    load,            \* the load of each list
    act,             \* the request a button has sent
    returns, faults

lists == <<pendingInvites, sentInvites, users>>
page  == <<mounted, profile, returns>>
vars == <<invite, changes, connected, inbox, page, lists, load, act, faults>>

List == {"pending", "sent", "users"}
Free == [at |-> "free"]
Sent == [at |-> "sent"]
NoInvite  == [status |-> "none", by |-> "peer", id |-> 0]
NoProfile == [of |-> NoPeer, status |-> "none"]

Init ==
    /\ invite = [p \in Peer |-> NoInvite] /\ changes = 0
    /\ connected = TRUE /\ inbox = <<>>
    /\ mounted = TRUE /\ profile = NoProfile /\ returns = 0
    /\ pendingInvites = <<>> /\ sentInvites = <<>> /\ users = {}
    /\ load = [k \in List |-> Sent]
    /\ act = Free
    /\ faults = 0

-----------------------------------------------------------------------------
(* The documents. *)

\* A new document, or the rejected one reopened in whatever direction.
Inviting(p, who) ==
    /\ invite[p].status \in {"none", "rejected"}
    /\ invite' = [invite EXCEPT ![p] =
            [status |-> "pending", by |-> who,
             id |-> IF invite[p].status = "none" THEN changes + 1 ELSE invite[p].id]]

Pending(p, who) == invite[p].status = "pending" /\ invite[p].by = who

Answering(p, who, status) ==
    /\ Pending(p, who)
    /\ invite' = [invite EXCEPT ![p].status = status]

Cancelling(p, who) == Pending(p, who) /\ invite' = [invite EXCEPT ![p] = NoInvite]

Counted == changes < MaxInvites /\ changes' = changes + 1

Emit(event) == inbox' = IF connected THEN Append(inbox, event) ELSE inbox

\* What a peer does, with the event the user is sent.
PeerActs(p) ==
    /\ Counted
    /\ \/ /\ Inviting(p, "peer")
          /\ Emit([type |-> "newChatInvite", peer |-> p, id |-> invite'[p].id])
       \/ /\ Answering(p, "user", "accepted")
          /\ Emit([type |-> "chatInviteAccepted", peer |-> p, id |-> invite[p].id])
       \/ /\ Answering(p, "user", "rejected")
          /\ Emit([type |-> "chatInviteRejected", peer |-> p, id |-> invite[p].id])
       \/ /\ Cancelling(p, "peer")
          /\ Emit([type |-> "chatInviteCancelled", peer |-> p, id |-> invite[p].id])
    /\ UNCHANGED <<connected, page, lists, load, act, faults>>

\* The user answers in another tab, of which this one is told nothing.
OtherTabActs(p) ==
    /\ Counted
    /\ \E status \in {"accepted", "rejected"} : Answering(p, "peer", status)
    /\ UNCHANGED <<connected, inbox, page, lists, load, act, faults>>

-----------------------------------------------------------------------------
(* Loads. *)

Rows(who) == {[peer |-> p, id |-> invite[p].id] : p \in {q \in Peer : Pending(q, who)}}

ServeLoad(k) ==
    /\ load[k] = Sent
    /\ load' = [load EXCEPT ![k] = [at |-> "served", rows |->
            CASE k = "pending" -> Rows("peer")
              [] k = "sent"    -> Rows("user")
              [] k = "users"   -> {p \in Peer : invite[p].status = "accepted"}]]
    /\ UNCHANGED <<invite, changes, connected, inbox, page, lists, act, faults>>

LoadedRaw(rows) == rows  \* mutant: the rows are not brought into shape

\* A row that was loaded names its sender in senderId only, one that came with
\* an event in sender only.
Loaded(rows) == {[peer |-> row.peer, id |-> row.id, from |-> "load"] : row \in rows}

ReceiveLoad(k) ==
    /\ load[k].at = "served"
    /\ load' = [load EXCEPT ![k] = Free]
    /\ LET rows == load[k].rows
       IN  /\ pendingInvites' = IF k = "pending" THEN SetToSeq(Loaded(rows)) ELSE pendingInvites
           /\ sentInvites' = IF k = "sent" THEN SetToSeq(Loaded(rows)) ELSE sentInvites
           /\ users' = IF k = "users" THEN rows ELSE users
    /\ UNCHANGED <<invite, changes, connected, inbox, page, act, faults>>

\* A failure keeps the invites and empties the contacts.
FailLoad(k) ==
    /\ load[k] # Free /\ faults < MaxFaults
    /\ faults' = faults + 1
    /\ load' = [load EXCEPT ![k] = Free]
    /\ users' = IF k = "users" THEN {} ELSE users
    /\ UNCHANGED <<invite, changes, connected, inbox, page, pendingInvites, sentInvites, act>>

-----------------------------------------------------------------------------
(* Events. *)

\* A filter keeps the order.
Ascending(S) == CHOOSE places \in SetToSeqs(S) :
                    \A i, j \in DOMAIN places : i < j => places[i] < places[j]

Without(rows, id) == LET kept == Ascending({i \in DOMAIN rows : rows[i].id # id})
                     IN  [k \in DOMAIN kept |-> rows[kept[k]]]

OnEventMisplaced(event) ==  \* mutant: a cancelled invite is looked for among the sent ones
    /\ pendingInvites' = IF event.type = "newChatInvite"
           THEN <<[peer |-> event.peer, id |-> event.id, from |-> "event"]>> \o pendingInvites
           ELSE pendingInvites
    /\ sentInvites' = Without(sentInvites, event.id)

\* subscribeToInvites; the contacts are not loaded again.
OnEvent(event) ==
    /\ pendingInvites' =
           CASE event.type = "newChatInvite" ->
                  <<[peer |-> event.peer, id |-> event.id, from |-> "event"]>> \o pendingInvites
             [] event.type = "chatInviteCancelled" -> Without(pendingInvites, event.id)
             [] OTHER -> pendingInvites
    /\ sentInvites' = IF event.type \in {"chatInviteAccepted", "chatInviteRejected"}
                      THEN Without(sentInvites, event.id) ELSE sentInvites

ReceiveEvent ==
    /\ inbox # <<>>
    /\ inbox' = Tail(inbox)
    /\ IF mounted THEN OnEvent(Head(inbox)) ELSE UNCHANGED <<pendingInvites, sentInvites>>
    /\ UNCHANGED <<invite, changes, connected, page, users, load, act, faults>>

Drop ==
    /\ connected /\ faults < MaxFaults
    /\ faults' = faults + 1
    /\ connected' = FALSE /\ inbox' = <<>>
    /\ UNCHANGED <<invite, changes, page, lists, load, act>>

Reconnect ==
    /\ ~connected
    /\ connected' = TRUE
    /\ UNCHANGED <<invite, changes, inbox, page, lists, load, act, faults>>

-----------------------------------------------------------------------------
(* The buttons. *)

Ask(op, p, id) ==
    /\ act = Free
    /\ act' = [at |-> "sent", op |-> op, peer |-> p, id |-> id]
    /\ UNCHANGED <<invite, changes, connected, inbox, page, lists, load, faults>>

\* The lists are replaced by a spinner while the pending one is loaded.
Click ==
    \/ /\ mounted /\ load["pending"] = Free
       /\ \/ \E i \in DOMAIN pendingInvites, op \in {"accept", "reject"} :
                Ask(op, pendingInvites[i].peer, pendingInvites[i].id)
          \/ \E i \in DOMAIN sentInvites : Ask("cancel", sentInvites[i].peer, sentInvites[i].id)
    \/ profile.of # NoPeer /\ profile.status = "none" /\ Ask("send", profile.of, 0)

Allowed(op, p, id) == 
    CASE op = "send"   -> Inviting(p, "user")
      [] op = "accept" -> invite[p].id = id /\ Answering(p, "peer", "accepted")
      [] op = "reject" -> invite[p].id = id /\ Answering(p, "peer", "rejected")
      [] op = "cancel" -> invite[p].id = id /\ Cancelling(p, "user")

ServeAct ==
    /\ act.at = "sent"
    /\ Counted
    /\ Allowed(act.op, act.peer, act.id)
    /\ act' = [act EXCEPT !.at = "done"]
    /\ UNCHANGED <<connected, inbox, page, lists, load, faults>>

\* Not found, not the receiver's, not pending any more, or connected already.
RefuseAct ==
    /\ act.at = "sent"
    /\ IF act.op = "send" THEN invite[act.peer].status \in {"pending", "accepted"}
       ELSE invite[act.peer].id # act.id
            \/ ~Pending(act.peer, IF act.op = "cancel" THEN "user" ELSE "peer")
    /\ act' = Free
    /\ UNCHANGED <<invite, changes, connected, inbox, page, lists, load, faults>>

AskUnlessLoading(k) == IF load[k] = Free THEN [load EXCEPT ![k] = Sent] ELSE load

\* getUsers does nothing while the contacts are being loaded.  The sent invites
\* are asked for again; of two loads under way the one answered last is followed.
ReceiveAct ==
    /\ act.at = "done"
    /\ act' = Free
    /\ pendingInvites' = IF act.op \in {"accept", "reject"}
                         THEN Without(pendingInvites, act.id) ELSE pendingInvites
    /\ sentInvites' = IF act.op = "cancel" THEN Without(sentInvites, act.id) ELSE sentInvites
    /\ \/ act.op = "accept" /\ load' = AskUnlessLoading("users")
       \/ act.op = "send" /\ load' \in {AskUnlessLoading("sent"), [load EXCEPT !["sent"] = Sent]}
       \/ act.op \in {"reject", "cancel"} /\ UNCHANGED load
    /\ profile' = IF act.op = "send" /\ profile.of = act.peer
                  THEN [profile EXCEPT !.status = "pending"] ELSE profile
    /\ UNCHANGED <<invite, changes, connected, inbox, mounted, returns, users, faults>>

-----------------------------------------------------------------------------
(* The pages. *)

Has(rows, p) == \E i \in DOMAIN rows : rows[i].peer = p /\ rows[i].from = "load"

\* checkInviteStatus reads senderId._id, which a row that came with an event
\* does not have.
StatusOf(p) ==
    IF p \in users THEN "accepted"
    ELSE IF Has(sentInvites, p) THEN "pending"
    ELSE IF Has(pendingInvites, p) THEN "received"
    ELSE "none"

\* The sidebar is unmounted, which ends its subscription.
OpenProfile(p) ==
    /\ mounted
    /\ mounted' = FALSE
    /\ profile' = [of |-> p, status |-> StatusOf(p)]
    /\ UNCHANGED <<invite, changes, connected, inbox, returns, lists, load, act, faults>>

\* Invites are asked for again whatever is under way, as after a send.
ReturnHome ==
    /\ ~mounted /\ returns < MaxReturns
    /\ returns' = returns + 1
    /\ mounted' = TRUE /\ profile' = NoProfile
    /\ \E again \in SUBSET {"pending", "sent"} :
          load' = [k \in List |-> IF load[k] = Free \/ k \in again THEN Sent ELSE load[k]]
    /\ UNCHANGED <<invite, changes, connected, inbox, lists, act, faults>>

Next ==
    \/ \E p \in Peer : PeerActs(p) \/ OtherTabActs(p) \/ OpenProfile(p)
    \/ \E k \in List : ServeLoad(k) \/ ReceiveLoad(k) \/ FailLoad(k)
    \/ ReceiveEvent \/ Drop \/ Reconnect
    \/ Click \/ ServeAct \/ RefuseAct \/ ReceiveAct \/ ReturnHome

Spec == Init /\ [][Next]_vars

-----------------------------------------------------------------------------
Row == [peer : Peer, id : 1..MaxInvites, from : {"load", "event"}]

\* Every variable stays in its domain, and one of the two pages is shown.
TypeOK ==
    /\ \A p \in Peer : /\ invite[p].status \in {"none", "pending", "accepted", "rejected"}
                       /\ invite[p].id \in 0..MaxInvites
    /\ pendingInvites \in Seq(Row) /\ sentInvites \in Seq(Row)
    /\ users \subseteq Peer
    /\ mounted <=> profile = NoProfile
    /\ act.at \in {"free", "sent", "done"}
=============================================================================
