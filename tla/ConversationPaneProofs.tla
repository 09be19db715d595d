------------------------- MODULE ConversationPaneProofs -------------------------
(***************************************************************************)
(* Proofs about ConversationPane for any contacts and groups and any       *)
(* number of requests under way: which conversation a draft, an answer of  *)
(* the assistant and a cleared text belong to. Then about GroupDetails,    *)
(* for any groups and users: which group the dialog shows, saves and       *)
(* lists.                                                                  *)
(***************************************************************************)
EXTENDS MCConversationPane, TLAPS

Kinds == {"dm", "group"}
Draft == [of : Origin, no : Nat, late : BOOLEAN]
Asked == [op : {"send", "ask"}, at : {"sent", "answer"}, to : Conversation, draft : Draft,
          reply : Origin, box : BOOLEAN, container : BOOLEAN, bot : BOOLEAN]
Message == [to : Conversation, draft : Draft, quoted : Origin, replyTo : Origin]

Placed ==
    /\ selectedUser \in Direct \cup {NoOne} /\ selectedGroup \in Grp \cup {NoOne}
    /\ home \in BOOLEAN

Page ==
    /\ Placed /\ selected \in Origin
    /\ isMessagesLoading \in [Kinds -> BOOLEAN]
    /\ loads \in [Kinds -> Nat]
    /\ \A k \in Kinds : isMessagesLoading[k] => loads[k] > 0

Pane ==
    /\ draft \in Draft /\ replyingTo \in Origin /\ drafts \in Nat
    /\ bot \in [working : BOOLEAN, answer : Origin]
    /\ selected = NoOne => draft = NoDraft /\ replyingTo = NoOne /\ bot = Unasked
    /\ draft # NoDraft => draft.of \in Conversation /\ Kind(draft.of) = Kind(selected)

\* A request knows the page it came from: the container is of the conversation's
\* kind, the assistant of the conversation itself, and the box holds what was
\* sent, nothing, or what was written since.
Sound(h) ==
    /\ h.box => h.container
    /\ h.container => selected # NoOne /\ Kind(selected) = Kind(h.to)
    /\ h.bot => h.to = selected
    /\ h.box => draft \in {NoDraft, h.draft} \/ draft.late
    /\ h.op = "send" /\ h.at = "answer" => \E m \in stored : m.draft = h.draft
    /\ h.op = "ask" => ~h.box

IInv ==
    /\ Page
    /\ Pane
    /\ stored \subseteq Message
    /\ req \in [Request -> Asked \cup {Idle}]
    /\ \A r \in Request : req[r] # Idle => Sound(req[r])
    /\ DirectDraftIsOwn
    /\ AnswerIsOwn

USE KindAssumption DEF Kinds, Kind, Conversation, Origin

LEMMA NoDraftType == NoDraft \in Draft /\ NoDraft.of = NoOne
BY DEF NoDraft, Draft

LEMMA IdleIsNotAsked == \A h \in Asked : h # Idle /\ h.at # "idle"
BY DEF Asked, Idle

LEMMA SamePlace == UNCHANGED place => selected' = selected /\ (Placed => Placed')
BY DEF place, selected, Placed

LEMMA InitIInv == Init => IInv
<1> SUFFICES ASSUME Init PROVE IInv
  OBVIOUS
<1>1. Page /\ Pane
  BY NoDraftType DEF Init, Page, Pane, Unasked, Placed, selected
<1>2. QED
  BY <1>1, NoDraftType DEF Init, IInv, DirectDraftIsOwn, AnswerIsOwn, Shown, Unasked, selected

\* When the page turns, a request forgets what has gone and nothing else.
LEMMA KeepingKeeps ==
    ASSUME req \in [Request -> Asked \cup {Idle}], NEW box \in BOOLEAN, NEW container \in BOOLEAN
    PROVE  /\ Keeping(box, container) \in [Request -> Asked \cup {Idle}]
           /\ \A r \in Request :
                LET h == Keeping(box, container)[r]
                IN  /\ req[r] = Idle => h = Idle
                    /\ req[r] # Idle =>
                          /\ h # Idle /\ ~h.bot
                          /\ h.box <=> req[r].box /\ box
                          /\ h.container <=> req[r].container /\ container
                          /\ h.op = req[r].op /\ h.at = req[r].at
                          /\ h.to = req[r].to /\ h.draft = req[r].draft
<1>1. ASSUME NEW h \in Asked
      PROVE  LET n == [h EXCEPT !.box = @ /\ box, !.container = @ /\ container, !.bot = FALSE]
             IN  /\ n \in Asked /\ n.box = (h.box /\ box) /\ n.container = (h.container /\ container)
                 /\ n.bot = FALSE
                 /\ n.op = h.op /\ n.at = h.at /\ n.to = h.to /\ n.draft = h.draft
  <2> DEFINE b == h.box /\ box
             c == h.container /\ container
             a == FALSE
  <2>1. b \in BOOLEAN /\ c \in BOOLEAN /\ a \in BOOLEAN
    BY DEF Asked
  <2> HIDE DEF a, b, c
  <2>2. LET n == [h EXCEPT !.box = b, !.container = c, !.bot = a]
        IN  /\ n \in Asked /\ n.box = b /\ n.container = c /\ n.bot = a
            /\ n.op = h.op /\ n.at = h.at /\ n.to = h.to /\ n.draft = h.draft
    BY <2>1 DEF Asked
  <2>3. QED
    BY <2>2, Zenon DEF a, b, c
<1>2. \A r \in Request : req[r] # Idle => req[r] \in Asked
  OBVIOUS
<1>3. QED
  BY <1>1, <1>2, IdleIsNotAsked DEF Keeping

-----------------------------------------------------------------------------
(* The steps, one lemma each. *)

LEMMA ShowKeeps ==
    ASSUME IInv, NEW c \in Origin, NEW n \in Nat, Show(c, n), selected' = c, Placed',
           c = NoOne \/ n > 0
    PROVE  IInv'
<1> USE NoDraftType
<1> DEFINE k    == Kind(c)
           same == NoOne \notin {selected, c} /\ Kind(selected) = k
           kept == same /\ (k = "group" \/ isMessagesLoading[k])
<1>1. /\ isMessagesLoading' = [isMessagesLoading EXCEPT ![k] = @ \/ n > 0]
      /\ loads' = [loads EXCEPT ![k] = @ + n]
      /\ draft' = IF kept THEN draft ELSE NoDraft
      /\ replyingTo' = IF same THEN replyingTo ELSE NoOne
      /\ bot' = Unasked
      /\ req' = Keeping(kept, same)
      /\ stored' = stored /\ drafts' = drafts
  BY DEF Show, bounds
<1>2. kept \in BOOLEAN /\ same \in BOOLEAN /\ (kept => same)
  BY DEF IInv, Page
<1>3. Page'
  BY <1>1 DEF IInv, Page
<1>4. Pane'
  BY <1>1 DEF IInv, Pane, Unasked
<1>5. same => selected' # NoOne /\ Kind(selected) = Kind(selected')
  OBVIOUS
<1>6. DirectDraftIsOwn'
  BY <1>1 DEF IInv, Page, DirectDraftIsOwn, Shown
<1> HIDE DEF kept, same
<1>7. /\ req' \in [Request -> Asked \cup {Idle}]
      /\ \A r \in Request : req'[r] # Idle =>
            /\ req[r] # Idle /\ ~req'[r].bot
            /\ req'[r].box <=> req[r].box /\ kept
            /\ req'[r].container <=> req[r].container /\ same
            /\ req'[r].op = req[r].op /\ req'[r].at = req[r].at
            /\ req'[r].to = req[r].to /\ req'[r].draft = req[r].draft
  BY <1>1, <1>2, KeepingKeeps DEF IInv
<1>8. ASSUME NEW r \in Request, req'[r] # Idle PROVE Sound(req[r])'
  <2>1. Sound(req[r]) /\ req[r] # Idle
    BY <1>7, <1>8 DEF IInv
  <2>2. req'[r].box => req'[r].container /\ draft' = draft /\ req[r].box
    BY <1>1, <1>2, <1>7, <1>8, <2>1 DEF Sound
  <2>3. req'[r].container => selected' # NoOne /\ Kind(selected') = Kind(req'[r].to)
    BY <1>5, <1>7, <1>8, <2>1 DEF Sound
  <2>4. QED
    BY <1>1, <1>7, <1>8, <2>1, <2>2, <2>3 DEF Sound
<1>9. AnswerIsOwn'
  BY <1>1 DEF AnswerIsOwn, Unasked
<1>10. QED
  BY <1>1, <1>3, <1>4, <1>6, <1>7, <1>8, <1>9 DEF IInv

Selects ==
    \/ \E c \in Direct : SelectUser(c) \/ StartChat(c)
    \/ \E c \in Grp : SelectGroup(c)
    \/ UpdateGroup \/ CloseUser \/ LoseGroup \/ Leave \/ Return

\* Whatever is clicked, the page goes on to show what the stores now say.
LEMMA SelectsShow ==
    ASSUME Placed, Selects
    PROVE  /\ Placed'
           /\ \E c \in Origin, n \in Nat : Show(c, n) /\ selected' = c /\ (c = NoOne \/ n > 0)
<1> USE DEF Placed, selected
<1> DEFINE Shows == \E c \in Origin, n \in Nat :
                        Show(c, n) /\ selected' = c /\ (c = NoOne \/ n > 0)
<1>1. ASSUME NEW c \in Origin, Mount(c), selected' = c PROVE Shows
  <2>1. CASE c = NoOne
    BY <1>1, <2>1 DEF Mount
  <2>2. CASE c # NoOne
    <3>1. Show(c, 1)
      BY <1>1, <2>2 DEF Mount
    <3>2. QED
      BY <1>1, <3>1
  <2>3. QED
    BY <2>1, <2>2
<1> HIDE DEF Shows
<1>2. ASSUME NEW c \in Direct, SelectUser(c) PROVE Placed' /\ Shows
  BY <1>1, <1>2 DEF SelectUser
<1>3. ASSUME NEW c \in Direct, StartChat(c) PROVE Placed' /\ Shows
  <2>1. CASE selectedGroup # NoOne
    BY <1>1, <1>3, <2>1 DEF StartChat
  <2>2. CASE selectedGroup = NoOne
    BY <1>1, <1>3, <2>2 DEF StartChat
  <2>3. QED
    BY <2>1, <2>2
<1>4. ASSUME NEW c \in Grp, SelectGroup(c) PROVE Placed' /\ Shows
  <2>1. PICK n \in {1, 2} : Show(c, n)
    BY <1>4 DEF SelectGroup
  <2>2. selected' = c
    BY <1>4 DEF SelectGroup
  <2>3. QED
    BY <1>4, <2>1, <2>2 DEF SelectGroup, Shows
<1>5. ASSUME UpdateGroup PROVE Placed' /\ Shows
  BY <1>5 DEF UpdateGroup, place, Shows
<1>6. ASSUME CloseUser PROVE Placed' /\ Shows
  BY <1>1, <1>6 DEF CloseUser
<1>7. ASSUME LoseGroup PROVE Placed' /\ Shows
  <2>1. CASE home
    BY <1>1, <1>7, <2>1 DEF LoseGroup
  <2>2. CASE ~home
    BY <1>1, <1>7, <2>2 DEF LoseGroup
  <2>3. QED
    BY <2>1, <2>2
<1>8. ASSUME Leave PROVE Placed' /\ Shows
  BY <1>1, <1>8 DEF Leave
<1>9. ASSUME Return PROVE Placed' /\ Shows
  <2>1. CASE selectedGroup # NoOne
    BY <1>1, <1>9, <2>1 DEF Return
  <2>2. CASE selectedGroup = NoOne
    BY <1>1, <1>9, <2>2 DEF Return
  <2>3. QED
    BY <2>1, <2>2
<1>10. QED
  BY <1>2, <1>3, <1>4, <1>5, <1>6, <1>7, <1>8, <1>9 DEF Selects, Shows

LEMMA SelectsKeep == IInv /\ Selects => IInv'
BY SelectsShow, ShowKeeps DEF IInv, Page

LEMMA ReceiveMessagesKeeps ==
    ASSUME IInv, NEW k \in Kinds, ReceiveMessages(k)
    PROVE  IInv'
<1> USE NoDraftType
<1> DEFINE turns == isMessagesLoading[k] /\ selected # NoOne /\ Kind(selected) = k
           group == k = "group"
<1>1. /\ loads[k] > 0 /\ loads' = [loads EXCEPT ![k] = @ - 1]
      /\ isMessagesLoading' = [isMessagesLoading EXCEPT ![k] = FALSE]
      /\ draft' = IF turns /\ k = "dm" THEN NoDraft ELSE draft
      /\ bot' = IF turns THEN Unasked ELSE bot
      /\ req' = IF turns THEN Keeping(group, TRUE) ELSE req
      /\ selected' = selected /\ replyingTo' = replyingTo
      /\ stored' = stored /\ drafts' = drafts /\ (Placed => Placed')
  BY SamePlace DEF ReceiveMessages, bounds
<1>2. Page'
  BY <1>1 DEF IInv, Page
<1>3. Pane'
  BY <1>1 DEF IInv, Pane, Unasked
<1>4. /\ req' \in [Request -> Asked \cup {Idle}]
      /\ \A r \in Request : req'[r] # Idle =>
            /\ req[r] # Idle /\ (req'[r].bot => ~turns /\ req[r].bot)
            /\ req'[r].box <=> req[r].box /\ (turns => group)
            /\ req'[r].container <=> req[r].container
            /\ req'[r].op = req[r].op /\ req'[r].at = req[r].at
            /\ req'[r].to = req[r].to /\ req'[r].draft = req[r].draft
  <2>1. CASE turns
    <3>1. group \in BOOLEAN
      OBVIOUS
    <3> HIDE DEF group
    <3>2. QED
      BY <1>1, <2>1, <3>1, KeepingKeeps DEF IInv
  <2>2. CASE ~turns
    BY <1>1, <2>2 DEF IInv
  <2>3. QED
    BY <2>1, <2>2
<1>5. ASSUME NEW r \in Request, req'[r] # Idle PROVE Sound(req[r])'
  <2>1. Sound(req[r]) /\ req[r] # Idle
    BY <1>4, <1>5 DEF IInv
  <2>2. req'[r].box => req'[r].container /\ draft' = draft /\ req[r].box
    BY <1>1, <1>4, <1>5, <2>1 DEF Sound
  <2>3. req'[r].container => selected' # NoOne /\ Kind(selected') = Kind(req'[r].to)
    BY <1>1, <1>4, <1>5, <2>1 DEF Sound
  <2>4. req'[r].bot => req'[r].to = selected'
    BY <1>1, <1>4, <1>5, <2>1 DEF Sound
  <2>5. /\ req'[r].op = req[r].op /\ req'[r].at = req[r].at
        /\ req'[r].draft = req[r].draft
    BY <1>4, <1>5
  <2>6. req'[r].op = "send" /\ req'[r].at = "answer" => \E m \in stored' : m.draft = req'[r].draft
    BY <1>1, <2>1, <2>5 DEF Sound
  <2>7. /\ req'[r].box => draft' \in {NoDraft, req'[r].draft} \/ draft'.late
        /\ req'[r].op = "ask" => ~req'[r].box
    BY <2>1, <2>2, <2>5 DEF Sound
  <2>8. QED
    BY <2>2, <2>3, <2>4, <2>6, <2>7 DEF Sound
<1>6. DirectDraftIsOwn'
  BY <1>1 DEF IInv, Page, DirectDraftIsOwn, Shown
<1>7. AnswerIsOwn'
  BY <1>1 DEF IInv, AnswerIsOwn, Unasked
<1>8. QED
  BY <1>1, <1>2, <1>3, <1>4, <1>5, <1>6, <1>7 DEF IInv

\* What is written while a send is under way is marked as late; the box of the
\* page keeps the conversation it was begun in.
LEMMA WriteKeeps ==
    ASSUME IInv, Write
    PROVE  IInv'
<1> USE NoDraftType
<1> DEFINE of == IF draft = NoDraft THEN selected ELSE draft.of
<1>1. /\ selected # NoOne /\ drafts' = drafts + 1
      /\ draft' = [of |-> of, no |-> drafts + 1, late |-> Sending]
      /\ UNCHANGED <<selected, store, replyingTo, bot, stored, req>> /\ (Placed => Placed')
  BY SamePlace DEF Write
<1>2. /\ of \in Conversation /\ Kind(of) = Kind(selected)
      /\ Sending \in BOOLEAN
      /\ (Shown /\ selected \in Direct => of = selected)
  BY <1>1 DEF IInv, Page, Pane, Sending, DirectDraftIsOwn, NoDraft
<1>3. draft' \in Draft /\ draft'.of = of /\ (draft'.late <=> Sending)
  BY <1>1, <1>2 DEF IInv, Pane, Draft
<1>4. Page' /\ Pane'
  BY <1>1, <1>2, <1>3 DEF IInv, Page, Pane, store
<1>5. \A r \in Request : req'[r] # Idle => Sound(req[r])'
  <2>1. \A r \in Request : req[r] # Idle /\ req[r].box => Sending
    BY DEF IInv, Sound, Sending, Asked
  <2>2. QED
    BY <1>1, <1>3, <2>1 DEF IInv, Sound
<1>6. DirectDraftIsOwn' /\ AnswerIsOwn'
  BY <1>1, <1>2, <1>3 DEF IInv, DirectDraftIsOwn, AnswerIsOwn, Shown, store
<1>7. QED
  BY <1>1, <1>4, <1>5, <1>6 DEF IInv

LEMMA EditKeeps ==
    ASSUME IInv, Erase \/ Quote \/ CancelReply
    PROVE  IInv'
<1> USE NoDraftType
<1>1. /\ draft' \in {draft, NoDraft} /\ replyingTo' \in {replyingTo, selected, NoOne}
      /\ UNCHANGED <<selected, isMessagesLoading, loads, bot, stored, req, drafts>>
      /\ (Placed => Placed')
  BY SamePlace DEF Erase, Quote, CancelReply, store, bounds
<1>2. selected = NoOne => replyingTo' = NoOne
  BY DEF Erase, Quote, CancelReply, Shown, IInv, Pane
<1>3. Page' /\ Pane'
  BY <1>1, <1>2 DEF IInv, Page, Pane
<1>4. \A r \in Request : req'[r] # Idle => Sound(req[r])'
  BY <1>1 DEF IInv, Sound
<1>5. DirectDraftIsOwn' /\ AnswerIsOwn'
  BY <1>1 DEF IInv, DirectDraftIsOwn, AnswerIsOwn, Shown
<1>6. QED
  BY <1>1, <1>3, <1>4, <1>5 DEF IInv

\* A new request: a send with the box as it is, or a question.
LEMMA BeginKeeps ==
    ASSUME IInv, NEW r \in Request, NEW h \in Asked, Begin(r, h), h.to = selected,
           h.container, h.box => h.draft = draft, h.op = "ask" => ~h.box, h.at = "sent",
           UNCHANGED <<draft, replyingTo>>,
           bot' \in [working : BOOLEAN, answer : {NoOne}] \cup {bot}
    PROVE  IInv'
<1>1. /\ selected # NoOne /\ req' = [req EXCEPT ![r] = h]
      /\ UNCHANGED <<selected, isMessagesLoading, loads, stored, drafts>>
      /\ (Placed => Placed')
  BY SamePlace DEF Begin, store, Asked
<1>2. Page' /\ Pane'
  BY <1>1 DEF IInv, Page, Pane
<1>3. ASSUME NEW q \in Request, req'[q] # Idle PROVE Sound(req[q])'
  <2>1. CASE q = r
    BY <1>1, <2>1 DEF IInv, Sound
  <2>2. CASE q # r
    BY <1>1, <1>3, <2>2 DEF IInv, Sound
  <2>3. QED
    BY <2>1, <2>2
<1>4. DirectDraftIsOwn' /\ AnswerIsOwn'
  BY <1>1 DEF IInv, DirectDraftIsOwn, AnswerIsOwn, Shown
<1>5. req' \in [Request -> Asked \cup {Idle}]
  BY <1>1 DEF IInv
<1>6. QED
  BY <1>1, <1>2, <1>3, <1>4, <1>5 DEF IInv

LEMMA SendKeeps ==
    ASSUME IInv, NEW r \in Request, Send(r)
    PROVE  IInv'
<1> DEFINE h == [op |-> "send", at |-> "sent", to |-> selected, draft |-> draft,
                 reply |-> replyingTo, box |-> TRUE, container |-> TRUE, bot |-> FALSE]
<1>1. h \in Asked
  BY DEF Send, IInv, Page, Pane, Asked
<1>2. Begin(r, h) /\ UNCHANGED <<draft, replyingTo, bot>>
  BY DEF Send, pane
<1>3. /\ h.to = selected /\ h.container /\ h.draft = draft /\ h.op = "send" /\ h.at = "sent"
  OBVIOUS
<1> HIDE DEF h
<1>4. QED
  BY <1>1, <1>2, <1>3, BeginKeeps

LEMMA AskKeeps ==
    ASSUME IInv, NEW r \in Request, Ask(r)
    PROVE  IInv'
<1> DEFINE h == [op |-> "ask", at |-> "sent", to |-> selected, draft |-> NoDraft,
                 reply |-> NoOne, box |-> FALSE, container |-> TRUE, bot |-> TRUE]
<1>1. h \in Asked
  BY NoDraftType DEF Ask, Shown, IInv, Page, Asked
<1>2. /\ Begin(r, h) /\ UNCHANGED <<draft, replyingTo>>
      /\ bot' \in [working : BOOLEAN, answer : {NoOne}]
  BY DEF Ask
<1>3. h.to = selected /\ h.container /\ ~h.box /\ h.at = "sent"
  OBVIOUS
<1> HIDE DEF h
<1>4. QED
  BY <1>1, <1>2, <1>3, BeginKeeps

\* Saving only adds to what is stored, and lets one request know of it.
LEMMA ServeSendKeeps ==
    ASSUME IInv, NEW r \in Request, ServeSend(r)
    PROVE  IInv'
<1> DEFINE h == [req[r] EXCEPT !.at = "answer"]
           m == [to |-> req[r].to, draft |-> req[r].draft, quoted |-> req[r].reply,
                 replyTo |-> Validated(req[r])]
<1>1. /\ req[r].op = "send" /\ req[r].at = "sent"
      /\ stored' = stored \cup {m} /\ req' = [req EXCEPT ![r] = h]
      /\ UNCHANGED <<selected, store, pane, drafts>> /\ (Placed => Placed')
  BY SamePlace DEF ServeSend, bounds
<1>2. req[r] \in Asked /\ req[r] # Idle /\ Sound(req[r])
  BY <1>1 DEF IInv, Idle
<1>3. /\ h \in Asked /\ h.box = req[r].box /\ h.container = req[r].container
      /\ h.bot = req[r].bot /\ h.op = req[r].op /\ h.to = req[r].to
      /\ h.draft = req[r].draft
  BY <1>2 DEF Asked
<1>4. m \in Message /\ m.draft = req[r].draft
  BY <1>2 DEF Asked, Message, Validated
<1>5. Page' /\ Pane'
  BY <1>1 DEF IInv, Page, Pane, store, pane
<1> HIDE DEF h, m
<1>6. ASSUME NEW q \in Request, req'[q] # Idle PROVE Sound(req[q])'
  <2>1. CASE q = r
    BY <1>1, <1>2, <1>3, <1>4, <2>1 DEF IInv, Sound, pane
  <2>2. CASE q # r
    BY <1>1, <1>6, <2>2 DEF IInv, Sound, pane
  <2>3. QED
    BY <2>1, <2>2
<1>7. DirectDraftIsOwn' /\ AnswerIsOwn'
  BY <1>1 DEF IInv, DirectDraftIsOwn, AnswerIsOwn, Shown, store, pane
<1>8. req' \in [Request -> Asked \cup {Idle}] /\ stored' \subseteq Message
  BY <1>1, <1>3, <1>4 DEF IInv
<1>9. QED
  BY <1>1, <1>5, <1>6, <1>7, <1>8 DEF IInv

\* A request that ends, with the box cleared or not.
LEMMA EndKeeps ==
    ASSUME IInv, NEW r \in Request, req[r] # Idle, req' = [req EXCEPT ![r] = Idle],
           UNCHANGED <<place, store, stored, drafts>>,
           bot' = bot \/ (req[r].bot /\ bot' \in [working : BOOLEAN, answer : {req[r].to, NoOne}]),
           UNCHANGED <<draft, replyingTo>> \/ Clear(req[r])
    PROVE  IInv'
<1> USE NoDraftType
<1>1. req[r] \in Asked /\ Sound(req[r])
  BY DEF IInv
<1>2. /\ draft' \in {draft, NoDraft} /\ replyingTo' \in {replyingTo, NoOne}
      /\ selected' = selected /\ (Placed => Placed')
  BY SamePlace DEF Clear
<1>4. bot' \in [working : BOOLEAN, answer : {selected, NoOne}]
  <2>1. bot \in [working : BOOLEAN, answer : {selected, NoOne}]
    BY DEF IInv, Pane, AnswerIsOwn
  <2>2. req[r].bot => req[r].to = selected
    BY <1>1 DEF Sound
  <2>3. QED
    BY <2>1, <2>2
<1>5. Page' /\ Pane'
  <2>1. selected = NoOne => ~req[r].bot
    BY <1>1 DEF Sound, Asked
  <2>2. QED
    BY <1>2, <1>4, <2>1 DEF IInv, Page, Pane, store
<1>6. ASSUME NEW q \in Request, req'[q] # Idle PROVE Sound(req[q])'
  <2>1. q # r /\ req'[q] = req[q]
    BY <1>6 DEF IInv
  <2>2. QED
    BY <1>2, <1>6, <2>1 DEF IInv, Sound
<1>7. DirectDraftIsOwn' /\ AnswerIsOwn'
  BY <1>2, <1>4 DEF IInv, DirectDraftIsOwn, AnswerIsOwn, Shown, store
<1>8. req' \in [Request -> Asked \cup {Idle}]
  BY DEF IInv
<1>9. QED
  BY <1>5, <1>6, <1>7, <1>8 DEF IInv

-----------------------------------------------------------------------------
\* Every step keeps the invariant.
LEMMA NextIInv == IInv /\ [Next]_vars => IInv'
<1> SUFFICES ASSUME IInv, [Next]_vars PROVE IInv'
  OBVIOUS
<1>1. CASE UNCHANGED vars
  BY <1>1, SamePlace DEF vars, pane, store, bounds, IInv, Page, Pane, Sound, DirectDraftIsOwn,
     AnswerIsOwn, Shown
<1>2. ASSUME NEW r \in Request, ReceiveSent(r) \/ FailSend(r) PROVE IInv'
  <2>1. /\ req[r] # Idle /\ req' = [req EXCEPT ![r] = Idle]
        /\ UNCHANGED <<place, store, stored, drafts, bot>>
    BY <1>2 DEF ReceiveSent, FailSend, bounds, Idle
  <2>2. UNCHANGED <<draft, replyingTo>> \/ Clear(req[r])
    BY <1>2 DEF ReceiveSent, FailSend
  <2>3. QED
    BY <2>1, <2>2, EndKeeps
<1>3. ASSUME NEW r \in Request, ReceiveAnswer(r) PROVE IInv'
  <2>1. /\ req[r] # Idle /\ req' = [req EXCEPT ![r] = Idle]
        /\ UNCHANGED <<place, store, stored, drafts, draft, replyingTo>>
    BY <1>3 DEF ReceiveAnswer, bounds, Idle
  <2>2. bot' = bot \/ (req[r].bot /\ bot' \in [working : BOOLEAN, answer : {req[r].to, NoOne}])
    <3>1. CASE req[r].bot
      <4>1. PICK answer \in {req[r].to, NoOne} : bot' = [working |-> FALSE, answer |-> answer]
        BY <1>3, <3>1 DEF ReceiveAnswer
      <4>2. bot' \in [working : BOOLEAN, answer : {req[r].to, NoOne}]
        BY <4>1
      <4>3. QED
        BY <3>1, <4>2
    <3>2. CASE ~req[r].bot
      BY <1>3, <3>2 DEF ReceiveAnswer
    <3>3. QED
      BY <3>1, <3>2
  <2>3. QED
    BY <2>1, <2>2, EndKeeps
<1>4. QED
  BY <1>1, <1>2, <1>3, SelectsKeep, ReceiveMessagesKeeps, WriteKeeps, EditKeeps, SendKeeps,
     AskKeeps, ServeSendKeeps DEF Next, Selects

\* Every variable stays in its domain, and nothing is kept of a closed page.
THEOREM TypeCorrect == Spec => []TypeOK
<1>1. IInv => TypeOK
  BY IdleIsNotAsked DEF IInv, Page, Pane, Placed, Sound, Draft, Message, Unasked, TypeOK, Idle
<1>2. QED
  BY <1>1, InitIInv, NextIInv, PTL DEF Spec

\* A text in the box under a contact's messages was begun in that conversation,
\* for any number of contacts, groups and requests under way.
THEOREM DirectDraftAlwaysOwn == Spec => []DirectDraftIsOwn
<1>1. IInv => DirectDraftIsOwn
  BY DEF IInv
<1>2. QED
  BY <1>1, InitIInv, NextIInv, PTL DEF Spec

\* No answer of the assistant is shown in another conversation than it was asked in.
THEOREM AnswerAlwaysOwn == Spec => []AnswerIsOwn
<1>1. IInv => AnswerIsOwn
  BY DEF IInv
<1>2. QED
  BY <1>1, InitIInv, NextIInv, PTL DEF Spec

\* The answer, or the failure, of a send clears a group's box of a text that was not
\* saved only if it was written while a send was under way.
LEMMA ClearSpares ==
    ASSUME IInv, NEW r \in Request, ReceiveSent(r) \/ FailSend(r),
           draft.of \in Grp, draft' # draft, draft \notin {m.draft : m \in stored}
    PROVE  draft.late
<1>1. /\ req[r] # Idle /\ req[r].op = "send" /\ Clear(req[r])
      /\ req[r].at = "answer" \/ req[r].to \in Direct
  BY DEF ReceiveSent, FailSend, Idle
<1>2. req[r].box /\ Sound(req[r])
  BY <1>1 DEF Clear, IInv
<1>3. draft # NoDraft /\ Kind(draft.of) = Kind(req[r].to)
  BY <1>1, <1>2, NoDraftType DEF Clear, IInv, Pane, Sound
<1>4. req[r].to \notin Direct
  BY <1>3
<1>5. draft # req[r].draft
  BY <1>1, <1>2, <1>4 DEF Sound
<1>6. QED
  BY <1>2, <1>3, <1>5 DEF Sound

\* A text begun in a group leaves the box unsaved for the reasons named only.
LEMMA StepSpares ==
    ASSUME IInv, Next, draft.of \in Grp, draft' = NoDraft, draft \notin {m.draft : m \in stored}
    PROVE  Erase \/ draft.late \/ selected' \notin Grp
<1>1. draft # NoDraft /\ selected # NoOne /\ Kind(selected) = "group"
  BY NoDraftType DEF IInv, Pane
<1>2. CASE Selects
  <2>1. PICK c \in Origin, n \in Nat : Show(c, n) /\ selected' = c
    BY <1>2, SelectsShow DEF IInv, Page
  <2>2. c \in Grp => draft' = draft
    BY <1>1, <2>1 DEF Show
  <2>3. QED
    BY <1>1, <2>1, <2>2
<1>3. ASSUME NEW k \in Kinds, ReceiveMessages(k) PROVE FALSE
  BY <1>1, <1>3 DEF ReceiveMessages
<1>4. CASE Write
  <2>1. draft'.no = drafts + 1
    BY <1>4 DEF Write
  <2>2. QED
    BY <2>1 DEF NoDraft, IInv, Pane
<1>5. CASE Quote \/ CancelReply
  BY <1>1, <1>5 DEF Quote, CancelReply
<1>6. ASSUME NEW r \in Request, Send(r) \/ ServeSend(r) \/ Ask(r) \/ ReceiveAnswer(r) PROVE FALSE
  BY <1>1, <1>6 DEF Send, ServeSend, Ask, ReceiveAnswer, pane
<1>7. ASSUME NEW r \in Request, ReceiveSent(r) \/ FailSend(r) PROVE draft.late
  BY <1>1, <1>7, ClearSpares
<1>8. QED
  BY <1>2, <1>3, <1>4, <1>5, <1>6, <1>7 DEF Next, Selects

\* A text begun in a group leaves the box unsaved only if it is erased, was written
\* during an earlier send, or the page stops showing a group.
THEOREM GroupDraftsAlwaysSurvive == Spec => GroupDraftsSurvive
<1> DEFINE Spared == draft.of \in Grp /\ draft' = NoDraft /\ draft \notin {m.draft : m \in stored}
                        => Erase \/ draft.late \/ selected' \notin Grp
<1>1. IInv /\ [Next]_vars => [Spared]_vars
  BY StepSpares
<1>2. QED
  BY <1>1, InitIInv, NextIInv, PTL DEF Spec, GroupDraftsSurvive

-----------------------------------------------------------------------------
(* The details of groups. *)

DetailsTyped ==
    /\ {shown, members, drafted, image} \subseteq Group \cup {Details!NoGroup}
    /\ role \in {"none", "owner", "bare"} /\ (role = "none" <=> shown = Details!NoGroup)
    /\ listed \in [Group -> {"owner", "bare", "gone"}]
    /\ alive \subseteq Group
    /\ picks \subseteq Group /\ added \in [Group -> SUBSET Group]
    /\ editing \in BOOLEAN /\ adding \in BOOLEAN
    /\ edits \in 0..MaxEdits /\ failed \in 0..MaxEdits
    /\ chosen \subseteq Group

\* What is on screen is drafted and, until something was left behind, chosen
\* for the group that is shown.
OnScreen ==
    /\ shown # Details!NoGroup => drafted = shown
    /\ image # Details!NoGroup => image \in chosen
    /\ pending <=> picks # {}
    /\ ~left => picks \subseteq {shown}

\* A request carries the name and, until something was left behind, the users of the
\* group it is about, and a picture of that group or of one that a picture was chosen
\* for; while details and requests have not crossed, that group is the one shown.
Fits(q) ==
    /\ q.at \in {"idle", "load", "update", "add", "change", "delete", "answer"}
    /\ q.at = "idle" => q = Details!Idle
    /\ q.at # "idle" => q.of \in Group /\ (~crossed => q.of = shown)
    /\ q.at = "update" => q.name = q.of /\ q.image \in {q.of} \cup chosen
    /\ q.at = "add" => q.who \subseteq Group /\ (~left => q.who \subseteq {q.of})

\* The server has made of each group what its own requests asked for.
AsAsked ==
    /\ name = [g \in Group |-> g]
    /\ DOMAIN picture = Group /\ \A g \in Group : picture[g] \in {g} \cup chosen
    /\ ~left => \A g \in Group : added[g] \subseteq {g}

Loading(q) == q.at = "load" \/ (q.at = "answer" /\ q.to = "load")

\* The list on screen belongs to the group, or is on its way.
ListComes ==
    shown \in alive /\ ~crossed /\ failed = 0 =>
        members = shown \/ \E r \in Request : Loading(load[r])

DetailsInv ==
    /\ DetailsTyped /\ OnScreen /\ AsAsked /\ ListComes
    /\ DOMAIN load = Request /\ \A r \in Request : Fits(load[r])

\* A group that is gone from the server and not from the screen is one whose deletion
\* is about to be answered.
Ending(g) == \E r \in Request : load[r].at = "answer" /\ load[r].to = "delete" /\ load[r].of = g
Ends ==
    failed = 0 /\ ~outdated =>
        /\ listing.at = "served" => listing.rows \subseteq alive
        /\ \A g \in Group \ alive : listed[g] # "gone" \/ shown = g => Ending(g)

USE DetailsAssumption, BoundAssumption DEF Details!NoGroup

\* What a step with one request does to the others: they fit if the details did not
\* change while they were under way.
LEMMA OthersFit ==
    ASSUME DetailsInv, NEW r \in Request, NEW h,
           load' = [load EXCEPT ![r] = h],
           chosen \subseteq chosen', left => left', crossed => crossed',
           ~crossed' /\ shown' # shown => \A q \in Request \ {r} : load[q] = Details!Idle,
           Fits(h)'
    PROVE  DOMAIN load' = Request /\ \A q \in Request : Fits(load[q])'
<1>1. DOMAIN load' = Request /\ load'[r] = h
  BY DEF DetailsInv
<1>2. ASSUME NEW q \in Request \ {r} PROVE Fits(load[q])'
  <2>1. PICK k : k = load[q]
    OBVIOUS
  <2>2. load'[q] = k /\ Fits(k) /\ (k.at = "idle" => k = Details!Idle)
    BY <2>1 DEF DetailsInv, Fits
  <2>3. ~crossed' /\ shown' # shown => k.at = "idle"
    BY <2>1 DEF Details!Idle
  <2>4. Fits(k)'
    BY <2>2, <2>3 DEF Fits
  <2>5. QED
    BY <2>2, <2>4 DEF Fits
<1>3. Fits(load[r])'
  BY <1>1 DEF Fits
<1>4. QED
  BY <1>1, <1>2, <1>3

LEMMA InitDetailsInv == Details!ObservedInit => DetailsInv /\ Ends
<1> SUFFICES ASSUME Details!ObservedInit PROVE DetailsInv /\ Ends
  OBVIOUS
<1> USE DEF Details!ObservedInit, Details!Init
<1>1. DetailsTyped
  <2>1. edits \in 0..MaxEdits /\ failed \in 0..MaxEdits
    BY SMT
  <2>2. /\ {shown, members, drafted, image} \subseteq Group \cup {"none"}
        /\ role = "none" /\ shown = "none"
        /\ listed \in [Group -> {"owner", "bare", "gone"}]
        /\ picks \subseteq Group /\ chosen \subseteq Group /\ alive \subseteq Group
    OBVIOUS
  <2>3. added \in [Group -> SUBSET Group] /\ editing = FALSE /\ adding = FALSE
    OBVIOUS
  <2>4. QED
    BY <2>1, <2>2, <2>3 DEF DetailsTyped
<1>2. OnScreen
  BY DEF OnScreen
<1>3. AsAsked
  BY DEF AsAsked
<1>4. ListComes
  BY DEF ListComes
<1>5. DOMAIN load = Request /\ \A r \in Request : Fits(load[r])
  BY DEF Fits, Details!Idle
<1>6. Ends
  BY DEF Ends, Details!Free
<1>7. QED
  BY <1>1, <1>2, <1>3, <1>4, <1>5, <1>6 DEF DetailsInv

\* Nothing is noted as added but when the selection is emptied.
LEMMA AdditionEmpties ==
    ASSUME DetailsInv, Details!Next, NEW r \in Request,
           Details!Answered(r, "add"), load'[r].at = "load"
    PROVE  picks' = {}
<1> USE DEF Details!Answered, Details!Go, Details!Ask, Details!Idle, Details!Load, DetailsInv
<1>1. load'[r] # load[r]
  OBVIOUS
<1>2. ~(Details!Close \/ Details!ToggleEditing \/ Details!ChooseImage \/ Details!ToggleAdding \/ Details!Pick)
      /\ ~(Details!Reload \/ Details!ServeList \/ Details!ReceiveList \/ Details!FailList)
  BY <1>1 DEF Details!Close, Details!ToggleEditing, Details!ChooseImage, Details!ToggleAdding,
     Details!Pick, Details!Reload, Details!ServeList, Details!ReceiveList, Details!FailList
<1>3. ASSUME NEW s \in Request
      PROVE  /\ ~\E g \in Group : Details!Open(s, g)
             /\ ~(Details!Save(s) \/ Details!AddPicked(s) \/ Details!ChangeMember(s) \/ Details!DeleteShown(s))
  BY <1>1 DEF Details!Open, Details!Save, Details!AddPicked, Details!ChangeMember, Details!DeleteShown
<1>4. ASSUME NEW s \in Request
      PROVE  /\ ~(Details!Serve(s) \/ Details!Refuse(s) \/ Details!ReceiveMembers(s) \/ Details!ReceiveUpdate(s))
             /\ ~(Details!ReceiveChange(s) \/ Details!ReceiveDelete(s) \/ Details!FailRequest(s))
  BY <1>1 DEF Details!Serve, Details!Refuse, Details!ReceiveMembers, Details!ReceiveUpdate, Details!ReceiveChange,
     Details!ReceiveDelete, Details!FailRequest
<1>5. \E s \in Request : Details!ReceiveAdd(s)
  BY <1>2, <1>3, <1>4 DEF Details!Next
<1>6. QED
  BY <1>5 DEF Details!ReceiveAdd

Noted ==
    /\ chosen' = chosen \cup ({image'} \ {"none"})
    /\ pending' <=> (picks' # {} /\ (pending \/ picks' # picks))
    /\ left' <=> (left \/ (pending /\ shown # "none" /\ shown' = "none"))
    /\ crossed' <=> (crossed \/ (shown # shown' /\ \E r \in Request : load[r] # Details!Idle
                                                                       /\ load'[r] # Details!Idle))
    /\ outdated' <=> (outdated \/ (listing'.at = "served" /\ ~(listing'.rows \subseteq alive')))

LEMMA AllNoted == ASSUME DetailsInv, Details!ObservedNext PROVE Noted
BY AdditionEmpties DEF Details!ObservedNext, Noted

\* What the user does without a request.
LEMMA QuietKeeps ==
    ASSUME DetailsInv, Noted,
           \/ Details!Close \/ Details!ToggleEditing \/ Details!ChooseImage
           \/ Details!ToggleAdding \/ Details!Pick
    PROVE  DetailsInv'
<1> USE DEF Details!Close, Details!ToggleEditing, Details!ChooseImage, Details!ToggleAdding, Details!Pick
<1>1. UNCHANGED <<load, listed, listing, alive, members, name, picture, added, edits, failed>>
  BY DEF Details!local, Details!server, Details!list
<1>2. DetailsTyped'
  BY <1>1 DEF DetailsInv, DetailsTyped, OnScreen, Noted, Details!server, Details!local
<1>3. OnScreen'
  BY <1>1 DEF DetailsInv, DetailsTyped, OnScreen, Noted, Details!server, Details!local
<1>4. AsAsked'
  BY <1>1 DEF DetailsInv, AsAsked, Noted
<1>5. ListComes'
  BY <1>1 DEF DetailsInv, DetailsTyped, ListComes, Noted
<1>6. ASSUME NEW r \in Request PROVE Fits(load[r])'
  <2>1. PICK q : q = load[r]
    OBVIOUS
  <2>2. load'[r] = q /\ Fits(q) /\ (q.at = "idle" <=> q = Details!Idle)
    BY <1>1, <2>1 DEF DetailsInv, Fits, Details!Idle
  <2>3. Fits(q)'
    BY <1>1, <2>1, <2>2 DEF Fits, Noted
  <2>4. QED
    BY <2>2, <2>3 DEF Fits
<1>7. QED
  BY <1>1, <1>2, <1>3, <1>4, <1>5, <1>6 DEF DetailsInv

\* What the user asks for.
LEMMA AskKeepsDetails ==
    ASSUME DetailsInv, Noted, NEW r \in Request,
           \/ Details!Save(r) \/ Details!AddPicked(r) \/ Details!ChangeMember(r) \/ Details!DeleteShown(r)
    PROVE  DetailsInv'
<1> USE DEF Details!Save, Details!AddPicked, Details!ChangeMember, Details!DeleteShown, Details!Ask,
            Details!Go, Details!Idle
<1>1. /\ shown # "none" /\ load[r] = Details!Idle /\ edits + failed < MaxEdits /\ edits' = edits + 1
      /\ UNCHANGED <<shown, role, listed, alive, members, drafted, image, picks, editing, adding,
                     name, picture, added, failed>>
  BY DEF Details!local, Details!server, Details!list
<1>2. chosen' = chosen /\ (pending' <=> pending) /\ (left' <=> left) /\ (crossed' <=> crossed)
  BY <1>1 DEF Noted, DetailsInv, DetailsTyped, OnScreen
<1>3. DetailsTyped'
  <2>1. edits' \in 0..MaxEdits
    BY <1>1 DEF DetailsInv, DetailsTyped
  <2>2. QED
    BY <1>1, <1>2, <2>1, Zenon DEF DetailsInv, DetailsTyped
<1>4. OnScreen' /\ AsAsked'
  BY <1>1, <1>2 DEF DetailsInv, OnScreen, AsAsked
<1>5. PICK h : load' = [load EXCEPT ![r] = h] /\
                  \/ h = [at |-> "update", of |-> shown, name |-> drafted,
                          image |-> IF image = "none" THEN shown ELSE image]
                  \/ h = [at |-> "add", of |-> shown, who |-> picks]
                  \/ h = [at |-> "change", of |-> shown] \/ h = [at |-> "delete", of |-> shown]
  OBVIOUS
<1>6. Fits(h)'
  BY <1>1, <1>2, <1>5 DEF DetailsInv, DetailsTyped, OnScreen, Fits
<1>7. ListComes'
  BY <1>1, <1>2, <1>5 DEF DetailsInv, ListComes, Loading
<1>8. DOMAIN load' = Request /\ \A q \in Request : Fits(load[q])'
  BY <1>1, <1>2, <1>5, <1>6, OthersFit
<1>9. QED
  BY <1>3, <1>4, <1>7, <1>8 DEF DetailsInv

LEMMA OpenKeepsDetails ==
    ASSUME DetailsInv, Noted, NEW r \in Request, NEW g \in Group, Details!Open(r, g)
    PROVE  DetailsInv'
<1> USE DEF Details!Open, Details!Answered, Details!Go, Details!Idle, Details!Load, Details!local,
            Details!server, Details!list
<1>1. DetailsTyped'
  BY DEF DetailsInv, DetailsTyped, Noted, Fits
<1>2. OnScreen'
  BY DEF DetailsInv, DetailsTyped, OnScreen, Noted, Fits
<1>3. AsAsked'
  BY DEF DetailsInv, DetailsTyped, OnScreen, AsAsked, Noted, Fits
<1>4. PICK h : load' = [load EXCEPT ![r] = h] /\ h = [at |-> "load", of |-> g]
  OBVIOUS
<1>5. Fits(h)'
  BY <1>4 DEF DetailsInv, DetailsTyped, OnScreen, Fits, Noted
<1>6. ListComes'
  BY <1>4 DEF DetailsInv, DetailsTyped, ListComes, Loading, Noted, Fits
<1>7. ~crossed' /\ shown' # shown => \A q \in Request \ {r} : load[q] = Details!Idle
  BY <1>4 DEF Noted, DetailsInv
<1>8. DOMAIN load' = Request /\ \A q \in Request : Fits(load[q])'
  BY <1>4, <1>5, <1>7, OthersFit DEF Noted
<1>9. QED
  BY <1>1, <1>2, <1>3, <1>6, <1>8 DEF DetailsInv

LEMMA ServeKeepsDetails ==
    ASSUME DetailsInv, Noted, NEW r \in Request, Details!Serve(r)
    PROVE  DetailsInv'
<1> USE DEF Details!Serve, Details!Answered, Details!Go, Details!Idle, Details!Load, Details!local,
            Details!server, Details!list
<1>1. DetailsTyped'
  BY DEF DetailsInv, DetailsTyped, Noted, Fits
<1>2. OnScreen'
  BY DEF DetailsInv, DetailsTyped, OnScreen, Noted, Fits
<1>3. AsAsked'
  BY DEF DetailsInv, DetailsTyped, OnScreen, AsAsked, Noted, Fits
<1>4. PICK h : load' = [load EXCEPT ![r] = h] /\ h = [at |-> "answer", to |-> load[r].at, of |-> load[r].of]
  OBVIOUS
<1>5. Fits(h)'
  BY <1>4 DEF DetailsInv, DetailsTyped, OnScreen, Fits, Noted
<1>6. ListComes'
  BY <1>4 DEF DetailsInv, DetailsTyped, ListComes, Loading, Noted, Fits
<1>7. ~crossed' /\ shown' # shown => \A q \in Request \ {r} : load[q] = Details!Idle
  BY <1>4 DEF Noted, DetailsInv
<1>8. DOMAIN load' = Request /\ \A q \in Request : Fits(load[q])'
  BY <1>4, <1>5, <1>7, OthersFit DEF Noted
<1>9. QED
  BY <1>1, <1>2, <1>3, <1>6, <1>8 DEF DetailsInv

LEMMA ReceiveMembersKeepsDetails ==
    ASSUME DetailsInv, Noted, NEW r \in Request, Details!ReceiveMembers(r)
    PROVE  DetailsInv'
<1> USE DEF Details!ReceiveMembers, Details!Answered, Details!Go, Details!Idle, Details!Load, Details!local,
            Details!server, Details!list
<1>1. DetailsTyped'
  BY DEF DetailsInv, DetailsTyped, Noted, Fits
<1>2. OnScreen'
  BY DEF DetailsInv, DetailsTyped, OnScreen, Noted, Fits
<1>3. AsAsked'
  BY DEF DetailsInv, DetailsTyped, OnScreen, AsAsked, Noted, Fits
<1>4. PICK h : load' = [load EXCEPT ![r] = h] /\ h = Details!Idle
  OBVIOUS
<1>5. Fits(h)'
  BY <1>4 DEF DetailsInv, DetailsTyped, OnScreen, Fits, Noted
<1>6. ListComes'
  BY <1>4 DEF DetailsInv, DetailsTyped, ListComes, Loading, Noted, Fits
<1>7. ~crossed' /\ shown' # shown => \A q \in Request \ {r} : load[q] = Details!Idle
  BY <1>4 DEF Noted, DetailsInv
<1>8. DOMAIN load' = Request /\ \A q \in Request : Fits(load[q])'
  BY <1>4, <1>5, <1>7, OthersFit DEF Noted
<1>9. QED
  BY <1>1, <1>2, <1>3, <1>6, <1>8 DEF DetailsInv

LEMMA ReceiveUpdateKeepsDetails ==
    ASSUME DetailsInv, Noted, NEW r \in Request, Details!ReceiveUpdate(r)
    PROVE  DetailsInv'
<1> USE DEF Details!ReceiveUpdate, Details!Answered, Details!Go, Details!Idle, Details!Load, Details!local,
            Details!server, Details!list
<1>1. DetailsTyped'
  BY DEF DetailsInv, DetailsTyped, Noted, Fits
<1>2. OnScreen'
  BY DEF DetailsInv, DetailsTyped, OnScreen, Noted, Fits
<1>3. AsAsked'
  BY DEF DetailsInv, DetailsTyped, OnScreen, AsAsked, Noted, Fits
<1>4. PICK h : load' = [load EXCEPT ![r] = h] /\ h = Details!Idle
  OBVIOUS
<1>5. Fits(h)'
  BY <1>4 DEF DetailsInv, DetailsTyped, OnScreen, Fits, Noted
<1>6. ListComes'
  BY <1>4 DEF DetailsInv, DetailsTyped, ListComes, Loading, Noted, Fits
<1>7. ~crossed' /\ shown' # shown => \A q \in Request \ {r} : load[q] = Details!Idle
  BY <1>4 DEF Noted, DetailsInv
<1>8. DOMAIN load' = Request /\ \A q \in Request : Fits(load[q])'
  BY <1>4, <1>5, <1>7, OthersFit DEF Noted
<1>9. QED
  BY <1>1, <1>2, <1>3, <1>6, <1>8 DEF DetailsInv

LEMMA ReceiveAddKeepsDetails ==
    ASSUME DetailsInv, Noted, NEW r \in Request, Details!ReceiveAdd(r)
    PROVE  DetailsInv'
<1> USE DEF Details!ReceiveAdd, Details!Answered, Details!Go, Details!Idle, Details!Load, Details!local,
            Details!server, Details!list
<1>1. DetailsTyped'
  BY DEF DetailsInv, DetailsTyped, Noted, Fits
<1>2. OnScreen'
  BY DEF DetailsInv, DetailsTyped, OnScreen, Noted, Fits
<1>3. AsAsked'
  BY DEF DetailsInv, DetailsTyped, OnScreen, AsAsked, Noted, Fits
<1>4. PICK h : load' = [load EXCEPT ![r] = h] /\ h = [at |-> "load", of |-> load[r].of]
  OBVIOUS
<1>5. Fits(h)'
  BY <1>4 DEF DetailsInv, DetailsTyped, OnScreen, Fits, Noted
<1>6. ListComes'
  BY <1>4 DEF DetailsInv, DetailsTyped, ListComes, Loading, Noted, Fits
<1>7. ~crossed' /\ shown' # shown => \A q \in Request \ {r} : load[q] = Details!Idle
  BY <1>4 DEF Noted, DetailsInv
<1>8. DOMAIN load' = Request /\ \A q \in Request : Fits(load[q])'
  BY <1>4, <1>5, <1>7, OthersFit DEF Noted
<1>9. QED
  BY <1>1, <1>2, <1>3, <1>6, <1>8 DEF DetailsInv

LEMMA ReceiveChangeKeepsDetails ==
    ASSUME DetailsInv, Noted, NEW r \in Request, Details!ReceiveChange(r)
    PROVE  DetailsInv'
<1> USE DEF Details!ReceiveChange, Details!Answered, Details!Go, Details!Idle, Details!Load, Details!local,
            Details!server, Details!list
<1>1. DetailsTyped'
  BY DEF DetailsInv, DetailsTyped, Noted, Fits
<1>2. OnScreen'
  BY DEF DetailsInv, DetailsTyped, OnScreen, Noted, Fits
<1>3. AsAsked'
  BY DEF DetailsInv, DetailsTyped, OnScreen, AsAsked, Noted, Fits
<1>4. PICK h : load' = [load EXCEPT ![r] = h] /\ h = [at |-> "load", of |-> load[r].of]
  OBVIOUS
<1>5. Fits(h)'
  BY <1>4 DEF DetailsInv, DetailsTyped, OnScreen, Fits, Noted
<1>6. ListComes'
  BY <1>4 DEF DetailsInv, DetailsTyped, ListComes, Loading, Noted, Fits
<1>7. ~crossed' /\ shown' # shown => \A q \in Request \ {r} : load[q] = Details!Idle
  BY <1>4 DEF Noted, DetailsInv
<1>8. DOMAIN load' = Request /\ \A q \in Request : Fits(load[q])'
  BY <1>4, <1>5, <1>7, OthersFit DEF Noted
<1>9. QED
  BY <1>1, <1>2, <1>3, <1>6, <1>8 DEF DetailsInv

LEMMA ReceiveDeleteKeepsDetails ==
    ASSUME DetailsInv, Noted, NEW r \in Request, Details!ReceiveDelete(r)
    PROVE  DetailsInv'
<1> USE DEF Details!ReceiveDelete, Details!Answered, Details!Go, Details!Idle, Details!Load, Details!local,
            Details!server, Details!list
<1>1. DetailsTyped'
  BY DEF DetailsInv, DetailsTyped, Noted, Fits
<1>2. OnScreen'
  BY DEF DetailsInv, DetailsTyped, OnScreen, Noted, Fits
<1>3. AsAsked'
  BY DEF DetailsInv, DetailsTyped, OnScreen, AsAsked, Noted, Fits
<1>4. PICK h : load' = [load EXCEPT ![r] = h] /\ h = Details!Idle
  OBVIOUS
<1>5. Fits(h)'
  BY <1>4 DEF DetailsInv, DetailsTyped, OnScreen, Fits, Noted
<1>6. ListComes'
  BY <1>4 DEF DetailsInv, DetailsTyped, ListComes, Loading, Noted, Fits
<1>7. ~crossed' /\ shown' # shown => \A q \in Request \ {r} : load[q] = Details!Idle
  BY <1>4 DEF Noted, DetailsInv
<1>8. DOMAIN load' = Request /\ \A q \in Request : Fits(load[q])'
  BY <1>4, <1>5, <1>7, OthersFit DEF Noted
<1>9. QED
  BY <1>1, <1>2, <1>3, <1>6, <1>8 DEF DetailsInv

LEMMA FailRequestKeepsDetails ==
    ASSUME DetailsInv, Noted, NEW r \in Request, Details!FailRequest(r)
    PROVE  DetailsInv'
<1> USE DEF Details!FailRequest, Details!Answered, Details!Go, Details!Idle, Details!Load, Details!local,
            Details!server, Details!list
<1>1. DetailsTyped'
  BY DEF DetailsInv, DetailsTyped, Noted, Fits
<1>2. OnScreen'
  BY DEF DetailsInv, DetailsTyped, OnScreen, Noted, Fits
<1>3. AsAsked'
  BY DEF DetailsInv, DetailsTyped, OnScreen, AsAsked, Noted, Fits
<1>4. PICK h : load' = [load EXCEPT ![r] = h] /\ h = Details!Idle
  OBVIOUS
<1>5. Fits(h)'
  BY <1>4 DEF DetailsInv, DetailsTyped, OnScreen, Fits, Noted
<1>6. ListComes'
  BY <1>4 DEF DetailsInv, DetailsTyped, ListComes, Loading, Noted, Fits
<1>7. ~crossed' /\ shown' # shown => \A q \in Request \ {r} : load[q] = Details!Idle
  BY <1>4 DEF Noted, DetailsInv
<1>8. DOMAIN load' = Request /\ \A q \in Request : Fits(load[q])'
  BY <1>4, <1>5, <1>7, OthersFit DEF Noted
<1>9. QED
  BY <1>1, <1>2, <1>3, <1>6, <1>8 DEF DetailsInv

LEMMA RefuseKeepsDetails ==
    ASSUME DetailsInv, Noted, NEW r \in Request, Details!Refuse(r)
    PROVE  DetailsInv'
<1> USE DEF Details!Refuse, Details!Answered, Details!Go, Details!Idle, Details!Load, Details!local,
            Details!server, Details!list
<1>1. DetailsTyped'
  BY DEF DetailsInv, DetailsTyped, Noted, Fits
<1>2. OnScreen'
  BY DEF DetailsInv, DetailsTyped, OnScreen, Noted, Fits
<1>3. AsAsked'
  BY DEF DetailsInv, DetailsTyped, OnScreen, AsAsked, Noted, Fits
<1>4. PICK h : load' = [load EXCEPT ![r] = h] /\ h = Details!Idle
  OBVIOUS
<1>5. Fits(h)'
  BY <1>4 DEF DetailsInv, DetailsTyped, OnScreen, Fits, Noted
<1>6. ListComes'
  BY <1>4 DEF DetailsInv, DetailsTyped, ListComes, Loading, Noted, Fits
<1>7. ~crossed' /\ shown' # shown => \A q \in Request \ {r} : load[q] = Details!Idle
  BY <1>4 DEF Noted, DetailsInv
<1>8. DOMAIN load' = Request /\ \A q \in Request : Fits(load[q])'
  BY <1>4, <1>5, <1>7, OthersFit DEF Noted
<1>9. QED
  BY <1>1, <1>2, <1>3, <1>6, <1>8 DEF DetailsInv

\* Loads of the list touch nothing else, and requests stay as they are.
LEMMA ListKeepsDetails ==
    ASSUME DetailsInv, Noted,
           Details!Reload \/ Details!ServeList \/ Details!ReceiveList \/ Details!FailList
    PROVE  DetailsInv'
<1>1. /\ UNCHANGED <<shown, role, alive, members, drafted, image, picks, editing, adding, name,
                     picture, added, load>>
      /\ listed' \in {listed, [g \in Group |-> IF g \in listing.rows THEN "owner" ELSE "gone"]}
      /\ failed' = failed \/ (edits + failed < MaxEdits /\ failed' = failed + 1)
      /\ edits' = edits \/ (edits + failed < MaxEdits /\ edits' = edits + 1)
  BY DEF Details!Reload, Details!ServeList, Details!ReceiveList, Details!FailList, Details!local,
     Details!server
<1>2. chosen' = chosen /\ (pending' <=> pending) /\ (left' <=> left) /\ (crossed' <=> crossed)
  BY <1>1 DEF Noted, DetailsInv, DetailsTyped, OnScreen
<1>3. failed' \in 0..MaxEdits /\ edits' \in 0..MaxEdits /\ (failed' = 0 => failed = 0)
  BY <1>1 DEF DetailsInv, DetailsTyped
<1>4. listed' \in [Group -> {"owner", "bare", "gone"}]
  BY <1>1 DEF DetailsInv, DetailsTyped
<1>5. DetailsTyped'
  BY <1>1, <1>2, <1>3, <1>4, Zenon DEF DetailsInv, DetailsTyped
<1>6. OnScreen' /\ AsAsked'
  BY <1>1, <1>2 DEF DetailsInv, OnScreen, AsAsked
<1>7. ListComes'
  BY <1>1, <1>2, <1>3 DEF DetailsInv, ListComes, Loading
<1>8. ASSUME NEW r \in Request PROVE Fits(load[r])'
  BY <1>1, <1>2 DEF DetailsInv, Fits
<1>9. QED
  BY <1>1, <1>5, <1>6, <1>7, <1>8 DEF DetailsInv

\* A step that answers no deletion keeps those about to be answered, and a group that
\* it deletes is one of them.
LEMMA EndsStay ==
    ASSUME DetailsInv, Ends, Noted, Details!Next PROVE Ends'
<1> SUFFICES ASSUME failed' = 0, ~outdated' PROVE Ends'
  BY DEF Ends
<1> USE DEF Ends, Ending, DetailsInv, DetailsTyped
<1>1. listing'.at = "served" => listing'.rows \subseteq alive'
  BY DEF Noted
<1>2. failed = 0 /\ ~outdated
  <2> USE DEF Details!Ask, Details!local, Details!server, Details!list
  <2>1. CASE \E r \in Request :
               \/ \E g \in Group : Details!Open(r, g)
               \/ Details!Save(r) \/ Details!AddPicked(r) \/ Details!ChangeMember(r)
               \/ Details!DeleteShown(r) \/ Details!Serve(r) \/ Details!Refuse(r)
               \/ Details!ReceiveMembers(r) \/ Details!ReceiveUpdate(r) \/ Details!ReceiveAdd(r)
               \/ Details!ReceiveChange(r) \/ Details!ReceiveDelete(r)
    <3>1. failed' = failed
      BY <2>1 DEF Details!Open, Details!Save, Details!AddPicked, Details!ChangeMember,
         Details!DeleteShown, Details!Serve, Details!Refuse, Details!ReceiveMembers,
         Details!ReceiveUpdate, Details!ReceiveAdd, Details!ReceiveChange, Details!ReceiveDelete
    <3>2. QED
      BY <3>1 DEF Noted
  <2>2. CASE Details!FailList \/ \E r \in Request : Details!FailRequest(r)
    BY <2>2 DEF Details!FailList, Details!FailRequest
  <2>3. CASE \/ Details!Close \/ Details!ToggleEditing \/ Details!ChooseImage
             \/ Details!ToggleAdding \/ Details!Pick \/ Details!Reload \/ Details!ServeList
             \/ Details!ReceiveList
    <3>1. failed' = failed
      BY <2>3 DEF Details!Close, Details!ToggleEditing, Details!ChooseImage, Details!ToggleAdding,
         Details!Pick, Details!Reload, Details!ServeList, Details!ReceiveList
    <3>2. QED
      BY <3>1 DEF Noted
  <2>4. QED
    BY <2>1, <2>2, <2>3 DEF Details!Next
<1> DEFINE Rest == \A g \in Group \ alive' : listed'[g] # "gone" \/ shown' = g => Ending(g)'
<1>3. ASSUME UNCHANGED <<load, alive>>,
             \A g \in Group \ alive : listed'[g] # "gone" => listed[g] # "gone",
             shown' \in {shown, "none"}
      PROVE  Rest
  BY <1>2, <1>3 DEF Rest
<1> HIDE DEF Rest
<1>4. ASSUME \/ Details!Close \/ Details!ToggleEditing \/ Details!ChooseImage \/ Details!ToggleAdding
             \/ Details!Pick \/ Details!Reload \/ Details!ServeList \/ Details!FailList
      PROVE  Rest
  <2>1. UNCHANGED <<load, alive, listed>> /\ shown' \in {shown, "none"}
    BY <1>4 DEF Details!Close, Details!ToggleEditing, Details!ChooseImage, Details!ToggleAdding,
       Details!Pick, Details!Reload, Details!ServeList, Details!FailList, Details!server, Details!list
  <2>2. QED
    BY <1>3, <2>1
<1>5. ASSUME Details!ReceiveList PROVE Rest
  <2>1. UNCHANGED <<load, alive, shown>> /\ listing.rows \subseteq alive
    BY <1>2, <1>5 DEF Details!ReceiveList, Details!server
  <2>2. \A g \in Group \ alive : listed'[g] = "gone"
    BY <1>5, <2>1 DEF Details!ReceiveList
  <2>3. QED
    BY <1>3, <2>1, <2>2
<1>6. ASSUME NEW r \in Request, NEW h, load' = [load EXCEPT ![r] = h],
             ~(load[r].at = "answer" /\ load[r].to = "delete"),
             \A g \in Group : listed'[g] # "gone" \/ shown' = g => listed[g] # "gone" \/ shown = g,
             alive' = alive \/ \E g \in Group :
                 alive' = alive \ {g} /\ h = [at |-> "answer", to |-> "delete", of |-> g]
      PROVE  Rest
  <2> SUFFICES ASSUME NEW g \in Group \ alive', listed'[g] # "gone" \/ shown' = g
               PROVE  Ending(g)'
    BY DEF Rest
  <2>1. load'[r] = h /\ \A q \in Request \ {r} : load'[q] = load[q]
    BY <1>6
  <2>2. CASE g \in alive
    BY <1>6, <2>1, <2>2
  <2>3. CASE g \notin alive
    <3>1. PICK q \in Request : load[q].at = "answer" /\ load[q].to = "delete" /\ load[q].of = g
      BY <1>2, <1>6, <2>3
    <3>2. QED
      BY <1>6, <2>1, <3>1
  <2>4. QED
    BY <2>2, <2>3
<1> USE DEF Details!Go, Details!Idle, Details!Load, Details!server, Details!list, Details!local,
            Details!Answered
<1>7. ASSUME NEW r \in Request, NEW g \in Group, Details!Open(r, g) PROVE Rest
  <2>1. PICK h : load' = [load EXCEPT ![r] = h]
    BY <1>7 DEF Details!Open
  <2>2. /\ load[r].at = "idle" /\ listed' = listed /\ shown' = g /\ listed[g] # "gone"
        /\ alive' = alive
    BY <1>7 DEF Details!Open
  <2>3. /\ ~(load[r].at = "answer" /\ load[r].to = "delete")
        /\ \A k \in Group : listed'[k] # "gone" \/ shown' = k => listed[k] # "gone" \/ shown = k
    BY <2>2
  <2> HIDE DEF Details!Go, Details!Idle, Details!Load, Details!server, Details!list, Details!local
  <2>4. QED
    BY <1>6, <2>1, <2>2, <2>3
<1>8. ASSUME NEW r \in Request, Details!Save(r) \/ Details!AddPicked(r) \/ Details!ChangeMember(r)
                                \/ Details!DeleteShown(r)
      PROVE  Rest
  <2>1. PICK h : load' = [load EXCEPT ![r] = h]
    BY <1>8 DEF Details!Save, Details!AddPicked, Details!ChangeMember, Details!DeleteShown, Details!Ask
  <2>2. load[r].at = "idle" /\ UNCHANGED <<shown, listed, alive>>
    BY <1>8 DEF Details!Save, Details!AddPicked, Details!ChangeMember, Details!DeleteShown, Details!Ask
  <2>3. /\ ~(load[r].at = "answer" /\ load[r].to = "delete")
        /\ \A g \in Group : listed'[g] # "gone" \/ shown' = g => listed[g] # "gone" \/ shown = g
        /\ alive' = alive
    BY <2>2
  <2> HIDE DEF Details!Go, Details!Idle, Details!Load, Details!server, Details!list, Details!local
  <2>4. QED
    BY <1>6, <2>1, <2>3
<1>9. ASSUME NEW r \in Request, Details!Serve(r) PROVE Rest
  <2>1. PICK h : /\ load' = [load EXCEPT ![r] = h]
                 /\ h = [at |-> "answer", to |-> load[r].at, of |-> load[r].of]
    BY <1>9 DEF Details!Serve
  <2>2. /\ load[r].at # "answer" /\ UNCHANGED <<shown, listed>> /\ load[r].of \in Group
        /\ alive' = IF load[r].at = "delete" THEN alive \ {load[r].of} ELSE alive
    BY <1>9 DEF Details!Serve
  <2>3. alive' = alive \/ \E g \in Group :
           alive' = alive \ {g} /\ h = [at |-> "answer", to |-> "delete", of |-> g]
    BY <2>1, <2>2
  <2>4. QED
    BY <1>6, <2>1, <2>2, <2>3
<1>10. ASSUME NEW r \in Request,
              \/ Details!Refuse(r) \/ Details!ReceiveMembers(r) \/ Details!ReceiveAdd(r)
              \/ Details!ReceiveChange(r)
       PROVE  Rest
  <2>1. PICK h : load' = [load EXCEPT ![r] = h]
    BY <1>10 DEF Details!Refuse, Details!ReceiveMembers, Details!ReceiveAdd, Details!ReceiveChange
  <2>2. /\ ~(load[r].at = "answer" /\ load[r].to = "delete") /\ UNCHANGED <<shown, listed, alive>>
    BY <1>10 DEF Details!Refuse, Details!ReceiveMembers, Details!ReceiveAdd, Details!ReceiveChange
  <2>3. QED
    BY <1>6, <2>1, <2>2
<1>11. ASSUME NEW r \in Request, Details!ReceiveUpdate(r) PROVE Rest
  <2>1. PICK h : load' = [load EXCEPT ![r] = h]
    BY <1>11 DEF Details!ReceiveUpdate
  <2>3. ~(load[r].at = "answer" /\ load[r].to = "delete") /\ UNCHANGED <<shown, alive>>
    BY <1>11 DEF Details!ReceiveUpdate
  <2>2. \A g \in Group : listed'[g] # "gone" => listed[g] # "gone"
    BY <1>11 DEF Details!ReceiveUpdate
  <2>4. QED
    BY <1>6, <2>1, <2>2, <2>3
<1>12. ASSUME NEW r \in Request, Details!ReceiveDelete(r) PROVE Rest
  <2> SUFFICES ASSUME NEW g \in Group \ alive', listed'[g] # "gone" \/ shown' = g
               PROVE  Ending(g)'
    BY DEF Rest
  <2>1. /\ g # load[r].of /\ listed[g] # "gone" /\ g \notin alive
        /\ load' = [load EXCEPT ![r] = Details!Idle]
    BY <1>12 DEF Details!ReceiveDelete
  <2>2. PICK q \in Request : load[q].at = "answer" /\ load[q].to = "delete" /\ load[q].of = g
    BY <1>2, <2>1
  <2>3. q # r /\ load'[q] = load[q]
    BY <2>1, <2>2
  <2>4. QED
    BY <2>2, <2>3
<1>13. ASSUME NEW r \in Request, Details!FailRequest(r) PROVE FALSE
  BY <1>2, <1>13 DEF Details!FailRequest
<1>14. Rest
  BY <1>4, <1>5, <1>7, <1>8, <1>9, <1>10, <1>11, <1>12, <1>13 DEF Details!Next
<1>15. QED
  BY <1>1, <1>14 DEF Rest

LEMMA NextDetailsInv ==
    DetailsInv /\ Ends /\ [Details!ObservedNext]_detailsVars => DetailsInv' /\ Ends'
<1>1. ASSUME DetailsInv, Ends, Details!ObservedNext PROVE DetailsInv' /\ Ends'
  <2>1. Noted
    BY <1>1, AllNoted
  <2>2. Details!Next
    BY <1>1 DEF Details!ObservedNext
  <2>3. QED
    BY <1>1, <2>1, <2>2, QuietKeeps, AskKeepsDetails, OpenKeepsDetails, ServeKeepsDetails,
       ReceiveMembersKeepsDetails, ReceiveUpdateKeepsDetails, ReceiveAddKeepsDetails,
       ReceiveChangeKeepsDetails, ReceiveDeleteKeepsDetails, FailRequestKeepsDetails,
       RefuseKeepsDetails, ListKeepsDetails, EndsStay
       DEF Details!Next
<1>2. ASSUME DetailsInv, Ends, UNCHANGED detailsVars PROVE DetailsInv' /\ Ends'
  <2> USE DEF detailsVars
  <2>1. DetailsTyped' /\ OnScreen' /\ AsAsked' /\ ListComes'
    BY <1>2, Zenon DEF DetailsInv, DetailsTyped, OnScreen, AsAsked, ListComes
  <2>2. ASSUME NEW r \in Request PROVE Fits(load[r])'
    BY <1>2 DEF DetailsInv, Fits
  <2>3. Ends'
    BY <1>2 DEF Ends, Ending
  <2>4. QED
    BY <1>2, <2>1, <2>2, <2>3 DEF DetailsInv
<1>3. QED
  BY <1>1, <1>2

\* For any groups and any number of requests under way, edits and failures: what is
\* drafted, chosen or loaded in the details of one group stays with it, but for the
\* schedules GroupDetailsObserved names.
THEOREM DetailsAlwaysOwn == MCSpec => []DetailsStayOwn
<1>1. MCInit => DetailsInv /\ Ends
  BY InitDetailsInv DEF MCInit
<1>2. DetailsInv /\ Ends /\ [MCNext]_mcVars => DetailsInv' /\ Ends'
  BY NextDetailsInv DEF MCNext, PaneStep, DetailsStep, mcVars
<1>3. DetailsInv /\ Ends => DetailsStayOwn
  <2> SUFFICES ASSUME DetailsInv, Ends PROVE DetailsStayOwn
    OBVIOUS
  <2>1. Details!TypeOK
    <3>1. {picks} \cup {added[g] : g \in Group} \subseteq SUBSET Group
      BY DEF DetailsInv, DetailsTyped
    <3>2. {name[g] : g \in Group} \cup {picture[g] : g \in Group} \subseteq Group
      BY DEF DetailsInv, DetailsTyped, AsAsked
    <3>3. QED
      BY <3>1, <3>2, Zenon DEF DetailsInv, DetailsTyped, Details!TypeOK, Details!Origin, Details!NoGroup
  <2>2. Details!NamesStayApart /\ Details!NoDetailsOfDeleted
    <3>1. Details!NamesStayApart
      BY DEF DetailsInv, AsAsked, Details!NamesStayApart
    <3>2. Details!NoDetailsOfDeleted
      BY DEF DetailsInv, DetailsTyped, Ends, Ending, Details!NoDetailsOfDeleted, Details!Answered
    <3>3. QED
      BY <3>1, <3>2
  <2>3. Details!AddedWherePicked /\ Details!PictureIsOwn
    BY DEF DetailsInv, AsAsked, Details!AddedWherePicked, Details!PictureIsOwn
  <2>4. Details!ListBelongs
    BY DEF DetailsInv, ListComes, Loading, Details!ListBelongs, Details!Idle
  <2>5. QED
    BY <2>1, <2>2, <2>3, <2>4 DEF DetailsStayOwn
<1>4. QED
  BY <1>1, <1>2, <1>3, PTL DEF MCSpec
=============================================================================
