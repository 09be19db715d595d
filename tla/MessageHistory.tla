----------------------------- MODULE MessageHistory -----------------------------
(***************************************************************************)
(* Reading the history of a conversation page by page: getMessages and     *)
(* getGroupMessages (backend/src/controllers/message.controllers.js and    *)
(* groupMessage.controllers.js), which page alike, seen by a reader who    *)
(* follows nextCursor until hasMore is false while messages are sent and   *)
(* deleted.                                                                *)
(*                                                                         *)
(* Pages are sorted by createdAt and cut off by _id.  A message is its     *)
(* place in the order of createdAt, in which no two are taken to be equal  *)
(* (the sort has no second key: of messages saved within one millisecond   *)
(* more than fill a page, it could leave one out even with one process).   *)
(* An _id begins with the second it was made in, then come bytes the       *)
(* process drew at boot, then the process's counter, so messages of        *)
(* different processes in one second are ordered by the processes' bytes.  *)
(***************************************************************************)
EXTENDS Integers, Sequences, FiniteSets

CONSTANTS
    Process,      \* what each server process drew at boot
    Limit,        \* page sizes a reader may ask for
    MaxMessages,  \* bound: messages sent
    MaxSeconds    \* bound: seconds that pass

ASSUME ProcessAssumption == Process \subseteq Nat
ASSUME LimitAssumption   == Limit \subseteq Nat \ {0}
ASSUME BoundAssumption   == MaxMessages \in Nat /\ MaxSeconds \in Nat

VARIABLES
    clock,    \* the current second
    sent,     \* what the _id of each message is made of, in the order of createdAt
    deleted,  \* messages deleted softly
    cursor,   \* the message whose _id the reader passes next, 0 for none
    limit,    \* the page size of the walk that is on, 0 if none is
    seen,     \* the messages the walk has returned
    wanted    \* the messages that were there when the walk began

walk == <<cursor, limit, seen, wanted>>
vars == <<clock, sent, deleted, walk>>

Messages == 1 .. Len(sent)
Live == Messages \ deleted

Init ==
    /\ clock = 0
    /\ sent = <<>>
    /\ deleted = {}
    /\ cursor = 0 /\ limit = 0 /\ seen = {} /\ wanted = {}

IdLess(m, k) ==
    \/ sent[m].second < sent[k].second
    \/ sent[m].second = sent[k].second /\ sent[m].process < sent[k].process
    \/ sent[m] = sent[k] /\ m < k

Second ==
    /\ clock < MaxSeconds
    /\ clock' = clock + 1
    /\ UNCHANGED <<sent, deleted, walk>>

Send(p) ==
    /\ Len(sent) < MaxMessages
    /\ sent' = Append(sent, [second |-> clock, process |-> p])
    /\ UNCHANGED <<clock, deleted, walk>>

Delete(m) ==
    /\ m \in Live
    /\ deleted' = deleted \cup {m}
    /\ UNCHANGED <<clock, sent, walk>>

-----------------------------------------------------------------------------
FoundWithCursor(c) == {m \in Live : c # 0 => ~IdLess(c, m)}  \* mutant: $lte

Found(c) == {m \in Live : c # 0 => IdLess(m, c)}

Newest(S, k) == {m \in S : Cardinality({x \in S : x > m}) < k}

Latest(S) == CHOOSE m \in S : \A x \in S : x <= m

NextCursorExtra(S, k) == Latest(S \ Newest(S, k))  \* mutant: the extra message fetched

\* reverse() turns the page around in place, so the last of returnedMessages is
\* the newest of the page.
NextCursor(S, k) == Latest(Newest(S, k))

Start(k) ==
    /\ limit = 0
    /\ limit' = k /\ cursor' = 0 /\ seen' = {} /\ wanted' = Live
    /\ UNCHANGED <<clock, sent, deleted>>

\* One more message than asked for is fetched, to know whether there are more.
FetchPage ==
    LET found == Found(cursor)
    IN  /\ limit # 0
        /\ seen' = seen \cup Newest(found, limit)
        /\ IF Cardinality(found) > limit
           THEN cursor' = NextCursor(found, limit) /\ UNCHANGED limit
           ELSE cursor' = 0 /\ limit' = 0
        /\ UNCHANGED <<clock, sent, deleted, wanted>>

Next ==
    \/ Second
    \/ \E p \in Process : Send(p)
    \/ \E m \in Messages : Delete(m)
    \/ \E k \in Limit : Start(k)
    \/ FetchPage

Spec == Init /\ [][Next]_vars

-----------------------------------------------------------------------------
\* The variables stay in their domains, and a cursor is a message returned.
TypeOK ==
    /\ clock \in 0..MaxSeconds
    /\ sent \in Seq([second : 0..MaxSeconds, process : Process])
    /\ deleted \subseteq Messages
    /\ cursor \in seen \cup {0}
    /\ limit \in Limit \cup {0}
    /\ seen \subseteq Messages
    /\ wanted \subseteq Messages

\* A walk that has ended returned every message that was there when it began
\* and was not deleted, whatever was sent and deleted meanwhile, and although
\* the cursor is the newest message of the page and not the oldest; of messages
\* with a createdAt each.
NothingSkipped == limit = 0 => wanted \ deleted \subseteq seen

\* Every walk gets on, so that it ends once no more is sent: although a page
\* repeats most of the page before, and rows of it may have been deleted since,
\* a page that will not be the last holds a message not returned yet.
WalkAdvances ==
    limit # 0 /\ Cardinality(Found(cursor)) > limit =>
        ~(Newest(Found(cursor), limit) \subseteq seen)
=============================================================================
