----------------------------- MODULE TypingProofs -----------------------------
(***************************************************************************)
(* Proofs about TypingTracker for any senders, targets, window and life:   *)
(* its invariants, and that it implements TypingIndicator. Then about      *)
(* TypingSystem, with the timers of both clients around it: who leaves a   *)
(* conversation has ended the typing there.                                *)
(***************************************************************************)
EXTENDS MCTypingTracker, Sequences, TLAPS

IInv == TypeOK /\ NoOrphanedIndicator /\ EntryHasItsTimer

USE ThrottleAssumption, ExpireAssumption DEF None

\* The tracker starts with no entry, no timer and nobody told.
LEMMA InitIInv == Init => IInv
BY DEF Init, IInv, TypeOK, NoOrphanedIndicator, EntryHasItsTimer

\* Dropping entries, with the receivers told, keeps everything in step.
LEMMA ClearKeepsIInv ==
    ASSUME IInv, NEW K \in SUBSET Pair,
           told' = [k \in Pair |-> told[k] /\ k \notin K],
           ClearEntries(K)
    PROVE  IInv'
<1>1. TypeOK'
  BY DEF IInv, TypeOK, ClearEntries
<1>2. \A k \in Pair : autoExpireTimer'[k] # None <=> autoExpireTimer[k] # None /\ k \notin K
  BY DEF ClearEntries
<1>3. NoOrphanedIndicator' /\ EntryHasItsTimer'
  BY <1>2 DEF IInv, TypeOK, NoOrphanedIndicator, EntryHasItsTimer, ClearEntries
<1>4. QED
  BY <1>1, <1>3 DEF IInv

\* StopTyping and AutoExpire tell the receivers of one pair.
LEMMA ToldOne ==
    ASSUME TypeOK, NEW k \in Pair, told' = [told EXCEPT ![k] = FALSE]
    PROVE  told' = [j \in Pair |-> told[j] /\ j \notin {k}]
BY DEF TypeOK

\* The disconnect path tells exactly the receivers of the entries it drops:
\* its lastIsTyping test never skips a pair that was told "typing".
LEMMA ToldSender ==
    ASSUME IInv, NEW s \in Sender, ClearTypingForSender(s)
    PROVE  \E K \in SUBSET Pair :
              /\ told' = [k \in Pair |-> told[k] /\ k \notin K]
              /\ ClearEntries(K)
             
<1>1. PICK K \in SUBSET Pair : K = {k \in state : k[1] = s}
  BY DEF IInv, TypeOK
<1>2. \A k \in K : lastIsTyping[k]
  BY <1>1 DEF IInv, EntryHasItsTimer
<1>3. told' = [k \in Pair |-> told[k] /\ k \notin K]
  BY <1>1, <1>2 DEF ClearTypingForSender
<1>4. ClearEntries(K)
  BY <1>1 DEF ClearTypingForSender
<1>5. QED
  BY <1>3, <1>4

\* Every function of the module, every timer and every tick keeps the invariant.
LEMMA NextIInv == IInv /\ [Next]_vars => IInv'
<1> SUFFICES ASSUME IInv, [Next]_vars PROVE IInv'
  OBVIOUS
<1> USE DEF IInv
<1>1. CASE UNCHANGED vars
  BY <1>1 DEF vars, TypeOK, NoOrphanedIndicator, EntryHasItsTimer
<1>2. ASSUME NEW k \in Pair, Refresh(k) PROVE IInv'
  BY <1>2 DEF Refresh, Throttled, TypeOK, NoOrphanedIndicator, EntryHasItsTimer
<1>3. ASSUME NEW k \in Pair, Forward(k) PROVE IInv'
  BY <1>3 DEF Forward, TypeOK, NoOrphanedIndicator, EntryHasItsTimer
<1>4. ASSUME NEW k \in Pair, StopTyping(k) \/ AutoExpire(k) PROVE IInv'
  <2>1. /\ told' = [told EXCEPT ![k] = FALSE]
        /\ ClearEntries({k})
       
    BY <1>4 DEF StopTyping, AutoExpire
  <2>2. QED
    BY <2>1, ToldOne, ClearKeepsIInv
<1>5. ASSUME NEW s \in Sender, ClearTypingForSender(s) PROVE IInv'
  <2>1. PICK K \in SUBSET Pair :
        /\ told' = [k \in Pair |-> told[k] /\ k \notin K]
        /\ ClearEntries(K)
       
    BY <1>5, ToldSender
  <2>2. QED
    BY <2>1, ClearKeepsIInv
<1>6. CASE Tick
  BY <1>6 DEF Tick, Older, TypeOK, NoOrphanedIndicator, EntryHasItsTimer
<1>7. QED
  BY <1>1, <1>2, <1>3, <1>4, <1>5, <1>6 DEF Next, RecordTyping

\* The invariant holds throughout.
THEOREM Invariant == Spec => []IInv
BY InitIInv, NextIInv, PTL DEF Spec

-----------------------------------------------------------------------------
\* A "typing" indicator is always covered by an armed timer: the tracker never
\* leaves an orphan, for any window, life and number of conversations.
THEOREM NeverOrphaned == Spec => []NoOrphanedIndicator
<1>1. IInv => NoOrphanedIndicator
  BY DEF IInv
<1>2. QED
  BY <1>1, Invariant, PTL

\* Entries, timers and what receivers were told stay in step.
THEOREM EntriesInStep == Spec => []EntryHasItsTimer
<1>1. IInv => EntryHasItsTimer
  BY DEF IInv
<1>2. QED
  BY <1>1, Invariant, PTL

-----------------------------------------------------------------------------
\* The refinement mapping: an indicator's age is the part of its timer that
\* has run.
ageOf == [k \in Pair |-> IF told[k] THEN AUTO_EXPIRE - autoExpireTimer[k] ELSE 0]

\* Dropping entries is the indicators going off.
LEMMA StopImplementsStop ==
    ASSUME IInv, NEW K \in SUBSET Pair,
           told' = [k \in Pair |-> told[k] /\ k \notin K],
           ClearEntries(K)
    PROVE  Indicator!Stop(K)
<1>1. ageOf' = [k \in Pair |-> IF k \in K THEN 0 ELSE ageOf[k]]
  BY DEF IInv, TypeOK, ClearEntries, ageOf
<1>2. QED
  BY <1>1 DEF Indicator!Stop, ageOf

\* A recorded typing event, forwarded or not, starts an indicator's life anew.
LEMMA TypeImplementsType ==
    ASSUME IInv, NEW k \in Pair, Refresh(k) \/ Forward(k)
    PROVE  Indicator!Type(k)
<1>1. told' = [told EXCEPT ![k] = TRUE]
  BY DEF IInv, TypeOK, EntryHasItsTimer, Refresh, Throttled, Forward
<1>2. autoExpireTimer' = [autoExpireTimer EXCEPT ![k] = AUTO_EXPIRE]
  BY DEF Refresh, Forward
<1>3. ageOf' = [ageOf EXCEPT ![k] = 0]
  <2>1. /\ told'[k]
        /\ autoExpireTimer'[k] = AUTO_EXPIRE
        /\ \A j \in Pair \ {k} : /\ told'[j] = told[j]
                                  /\ autoExpireTimer'[j] = autoExpireTimer[j]
    BY <1>1, <1>2 DEF IInv, TypeOK
  <2>2. ageOf'[k] = 0
    BY <2>1 DEF ageOf
  <2>3. \A j \in Pair \ {k} : ageOf'[j] = ageOf[j]
    BY <2>1 DEF ageOf
  <2>4. ageOf' = [j \in Pair |-> ageOf'[j]] /\ ageOf = [j \in Pair |-> ageOf[j]]
    BY DEF ageOf
  <2>5. QED
    BY <2>2, <2>3, <2>4
<1>4. QED
  BY <1>1, <1>3 DEF Indicator!Type, ageOf

\* Time never passes the end of an indicator's life: its timer fires first.
LEMMA TickImplementsTick ==
    ASSUME IInv, Tick
    PROVE  Indicator!Tick
<1>1. \A k \in Pair : told[k] => autoExpireTimer[k] \in 1..AUTO_EXPIRE
  BY DEF IInv, TypeOK, NoOrphanedIndicator, Tick
<1>2. told' = told
  BY DEF Tick
<1>3. \A k \in Pair : told[k] => ageOf[k] < AUTO_EXPIRE
  BY <1>1 DEF ageOf
<1>4. ageOf' = [k \in Pair |-> IF told[k] THEN ageOf[k] + 1 ELSE 0]
  BY <1>1, <1>2 DEF Tick, ageOf, IInv, TypeOK
<1>5. QED
  BY <1>2, <1>3, <1>4 DEF Indicator!Tick, ageOf

\* The tracker implements the indicator: no interleaving of typing, repeats
\* inside the window, stops, expiries and disconnects shows receivers more
\* than an indicator that dies AUTO_EXPIRE after its last event.
THEOREM ImplementsIndicator == Spec => IsIndicator
<1>1. Init => Indicator!Init
  BY DEF Init, Indicator!Init
<1>2. IInv /\ [Next]_vars => [Indicator!Next]_(Indicator!vars)
  <2> SUFFICES ASSUME IInv, [Next]_vars
               PROVE  Indicator!Next \/ UNCHANGED Indicator!vars
    OBVIOUS
  <2>1. CASE UNCHANGED vars
    BY <2>1 DEF vars, Indicator!vars
  <2>2. ASSUME NEW k \in Pair, Refresh(k) \/ Forward(k) PROVE Indicator!Next
    BY <2>2, TypeImplementsType DEF Indicator!Next
  <2>3. ASSUME NEW k \in Pair, StopTyping(k) \/ AutoExpire(k) PROVE Indicator!Next
    <3>1. told' = [told EXCEPT ![k] = FALSE] /\ ClearEntries({k})
      BY <2>3 DEF StopTyping, AutoExpire
    <3>2. told' = [j \in Pair |-> told[j] /\ j \notin {k}]
      BY <3>1, ToldOne DEF IInv
    <3>3. Indicator!Stop({k})
      BY <3>1, <3>2, StopImplementsStop
    <3>4. QED
      BY <3>3 DEF Indicator!Next
  <2>4. ASSUME NEW s \in Sender, ClearTypingForSender(s) PROVE Indicator!Next
    <3>1. PICK K \in SUBSET Pair :
          /\ told' = [k \in Pair |-> told[k] /\ k \notin K]
          /\ ClearEntries(K)
      BY <2>4, ToldSender
    <3>2. Indicator!Stop(K)
      BY <3>1, StopImplementsStop
    <3>3. QED
      BY <3>2 DEF Indicator!Next
  <2>5. CASE Tick
    BY <2>5, TickImplementsTick DEF Indicator!Next
  <2>6. QED
    BY <2>1, <2>2, <2>3, <2>4, <2>5 DEF Next, RecordTyping
<1>3. QED
  BY <1>1, <1>2, Invariant, PTL DEF Spec, IsIndicator, Indicator!Spec
-----------------------------------------------------------------------------
(* The indicator end to end. *)

Event == [to : Target, isTyping : BOOLEAN]

BoxOK ==
    /\ tab \in {"open", "gone", "closed", "reloaded"}
    /\ selectedUser \in Target \cup {NoOne}
    /\ isTypingRef \in BOOLEAN /\ isMessagesLoading \in BOOLEAN
    /\ typingTimeout \in {System!Off} \cup 0..IDLE
    /\ isTypingRef <=> typingTimeout # System!Off
    /\ sending \subseteq Target
    /\ loads \in 0..MaxLoads /\ (isMessagesLoading => loads > 0)
    /\ selectedUser = NoOne => ~isTypingRef /\ sending = {}

\* The tracker of the sender.
TrackerOK == System!Tracker!TypeOK /\ System!Tracker!EntryHasItsTimer

ScreensOK ==
    /\ typingUsers \in [Target -> BOOLEAN]
    /\ hideTimers \in [Target -> SUBSET (0..SHOW)]
    /\ System!ShownHasTimer

\* A tab that has gone has no text box, and once the server has noticed, nothing
\* of it is left.
GoneIsGone ==
    /\ tab \in {"gone", "closed"} =>
          /\ selectedUser = NoOne /\ typingTimeout = System!Off /\ ~isTypingRef
          /\ sending = {} /\ loads = 0 /\ ~isMessagesLoading
    /\ tab = "closed" => uplink = <<>> /\ \A t \in Target : ~said[<<Me, t>>]

SaidLast(t) == System!LastSaid(t)
Ended == tab = "open" /\ ~misdirected => \A t \in Target : SaidLast(t) => isTypingRef /\ selectedUser = t

SInv ==
    /\ BoxOK /\ uplink \in Seq(Event) /\ TrackerOK
    /\ downlink \in [Target -> Seq(BOOLEAN)] /\ ScreensOK
    /\ GoneIsGone /\ Ended

LEMMA Bounds == IDLE \in Nat /\ SHOW \in Nat /\ MaxLoads \in Nat /\ Life \in Nat \ {0} /\ NoOne \notin Target
BY SystemAssumption

USE Bounds DEF System!Off, System!Tracker!None

\* Dropping entries, with the receivers told, keeps everything in step.
LEMMA ClearKeepsTracker ==
    ASSUME TrackerOK, NEW K \in SUBSET ({Me} \X Target),
           said' = [k \in {Me} \X Target |-> said[k] /\ k \notin K],
           System!Tracker!ClearEntries(K)
    PROVE  TrackerOK'
<1> USE DEF TrackerOK, System!Tracker!TypeOK, System!Tracker!EntryHasItsTimer, System!Tracker!Pair,
            System!Tracker!ClearEntries
<1>1. System!Tracker!TypeOK'
  OBVIOUS
<1>2. \A k \in {Me} \X Target : expiry'[k] # -1 <=> expiry[k] # -1 /\ k \notin K
  OBVIOUS
<1>3. System!Tracker!EntryHasItsTimer'
  BY <1>2
<1>4. QED
  BY <1>1, <1>3

LEMMA TrackerOKKept ==
    ASSUME TrackerOK,
           \/ \E k \in {Me} \X Target : \/ System!Tracker!Refresh(k) \/ System!Tracker!Forward(k)
                                        \/ System!Tracker!StopTyping(k) \/ System!Tracker!AutoExpire(k)
           \/ System!Tracker!ClearTypingForSender(Me)
           \/ System!Tracker!Tick
           \/ UNCHANGED <<entries, last, sinceLast, expiry, said>>
    PROVE  TrackerOK'
<1>1. ASSUME NEW k \in {Me} \X Target, System!Tracker!Refresh(k) PROVE TrackerOK'
  BY <1>1 DEF System!Tracker!Refresh, System!Tracker!Throttled,
     TrackerOK, System!Tracker!TypeOK, System!Tracker!EntryHasItsTimer, System!Tracker!Pair
<1>2. ASSUME NEW k \in {Me} \X Target, System!Tracker!Forward(k) PROVE TrackerOK'
  BY <1>2 DEF System!Tracker!Forward,
     TrackerOK, System!Tracker!TypeOK, System!Tracker!EntryHasItsTimer, System!Tracker!Pair
<1>3. ASSUME NEW k \in {Me} \X Target, System!Tracker!StopTyping(k) \/ System!Tracker!AutoExpire(k)
      PROVE  TrackerOK'
  <2>1. said' = [said EXCEPT ![k] = FALSE] /\ System!Tracker!ClearEntries({k})
    BY <1>3 DEF System!Tracker!StopTyping, System!Tracker!AutoExpire
  <2>2. said' = [j \in {Me} \X Target |-> said[j] /\ j \notin {k}]
    BY <2>1 DEF TrackerOK, System!Tracker!TypeOK, System!Tracker!Pair
  <2>3. {k} \in SUBSET ({Me} \X Target)
    OBVIOUS
  <2>4. QED
    BY <2>1, <2>2, <2>3, ClearKeepsTracker
<1>4. CASE System!Tracker!ClearTypingForSender(Me)
  <2>1. PICK K \in SUBSET ({Me} \X Target) : K = {k \in entries : k[1] = Me}
    BY DEF TrackerOK, System!Tracker!TypeOK, System!Tracker!Pair
  <2>2. System!Tracker!ClearEntries(K)
    BY <1>4, <2>1 DEF System!Tracker!ClearTypingForSender
  <2>3. said' = [j \in {Me} \X Target |-> said[j] /\ j \notin K]
    BY <1>4, <2>1 DEF System!Tracker!ClearTypingForSender,
       TrackerOK, System!Tracker!EntryHasItsTimer, System!Tracker!Pair
  <2>4. QED
    BY <2>2, <2>3, ClearKeepsTracker
<1>5. CASE System!Tracker!Tick
  BY <1>5 DEF System!Tracker!Tick, System!Tracker!Older,
     TrackerOK, System!Tracker!TypeOK, System!Tracker!EntryHasItsTimer, System!Tracker!Pair
<1>6. CASE UNCHANGED <<entries, last, sinceLast, expiry, said>>
  BY <1>6 DEF TrackerOK, System!Tracker!TypeOK, System!Tracker!EntryHasItsTimer, System!Tracker!Pair
<1>7. QED
  BY <1>1, <1>2, <1>3, <1>4, <1>5, <1>6

LEMMA SequencesStay ==
    ASSUME NEW S, NEW q \in Seq(S)
    PROVE  /\ \A v \in S : Append(q, v) \in Seq(S)
           /\ q # <<>> => Head(q) \in S /\ Tail(q) \in Seq(S)
           /\ \A n \in 0..Len(q) : SubSeq(q, 1, n) \in Seq(S)
OBVIOUS

\* An event that is sent is the last about its conversation, and about no other.
LEMMA SentIsLast ==
    ASSUME uplink \in Seq(Event), NEW u \in Target, NEW v \in BOOLEAN,
           uplink' = Append(uplink, [to |-> u, isTyping |-> v]), said' = said
    PROVE  /\ SaidLast(u)' <=> v
           /\ \A t \in Target \ {u} : SaidLast(t)' <=> SaidLast(t)
<1>1. /\ Len(uplink) \in Nat /\ DOMAIN uplink = 1..Len(uplink) /\ DOMAIN uplink' = 1..(Len(uplink) + 1)
      /\ uplink'[Len(uplink) + 1] = [to |-> u, isTyping |-> v]
      /\ \A i \in 1..Len(uplink) : uplink'[i] = uplink[i]
  BY DEF Event
<1>2. Len(uplink) + 1 \in System!About(u)' /\ \A j \in System!About(u)' : j <= Len(uplink) + 1
  BY <1>1 DEF System!About
<1>3. \A i \in System!About(u)' : (\A j \in System!About(u)' : j <= i) => i = Len(uplink) + 1
  BY <1>1, <1>2 DEF System!About
<1>4. SaidLast(u)' <=> v
  BY <1>1, <1>2, <1>3 DEF SaidLast, System!LastSaid
<1>5. ASSUME NEW t \in Target \ {u} PROVE SaidLast(t)' <=> SaidLast(t)
  <2>1. System!About(t)' = System!About(t)
    BY <1>1 DEF System!About
  <2>2. \A i \in System!About(t) : uplink'[i] = uplink[i]
    BY <1>1 DEF System!About
  <2>3. QED
    BY <2>1, <2>2 DEF SaidLast, System!LastSaid
<1>6. QED
  BY <1>4, <1>5

\* An event that arrives was the last about its conversation, unless another follows.
LEMMA ArrivedWasSaid ==
    ASSUME uplink \in Seq(Event), uplink # <<>>, uplink' = Tail(uplink),
           said'[<<Me, Head(uplink).to>>] => Head(uplink).isTyping,
           \A t \in Target \ {Head(uplink).to} : said'[<<Me, t>>] => said[<<Me, t>>]
    PROVE  \A t \in Target : SaidLast(t)' => SaidLast(t)
<1>1. /\ Len(uplink) \in Nat \ {0} /\ DOMAIN uplink = 1..Len(uplink)
      /\ DOMAIN uplink' = 1..(Len(uplink) - 1)
      /\ \A i \in 1..(Len(uplink) - 1) : uplink'[i] = uplink[i + 1]
      /\ Head(uplink) = uplink[1]
  BY DEF Event
<1>2. SUFFICES ASSUME NEW t \in Target, SaidLast(t)' PROVE SaidLast(t)
  OBVIOUS
<1>3. \A i \in System!About(t)' : i + 1 \in System!About(t) /\ uplink'[i] = uplink[i + 1]
  BY <1>1 DEF System!About
<1>4. \A i \in System!About(t) \ {1} : i - 1 \in System!About(t)'
  BY <1>1 DEF System!About
<1>5. CASE System!About(t)' # {}
  <2>1. PICK i \in System!About(t)' : uplink'[i].isTyping /\ \A j \in System!About(t)' : j <= i
    BY <1>2, <1>5 DEF SaidLast, System!LastSaid
  <2>2. i + 1 \in System!About(t) /\ uplink[i + 1].isTyping
    BY <1>3, <2>1
  <2>3. \A j \in System!About(t) : j \in Nat /\ i \in Nat /\ (j = 1 \/ j - 1 <= i)
    BY <1>1, <1>4, <2>1 DEF System!About
  <2>4. \A j \in System!About(t) : j <= i + 1
    BY <2>3
  <2>5. QED
    BY <2>2, <2>4 DEF SaidLast, System!LastSaid
<1>6. CASE System!About(t)' = {}
  <2>1. said'[<<Me, t>>] /\ System!About(t) \subseteq {1}
    BY <1>2, <1>4, <1>6 DEF SaidLast, System!LastSaid
  <2>2. CASE t = Head(uplink).to
    <3>1. System!About(t) = {1} /\ uplink[1].isTyping
      BY <1>1, <2>1, <2>2 DEF System!About
    <3>2. QED
      BY <3>1 DEF SaidLast, System!LastSaid
  <2>3. CASE t # Head(uplink).to
    <3>1. System!About(t) = {} /\ said[<<Me, t>>]
      BY <1>1, <2>1, <2>3 DEF System!About
    <3>2. QED
      BY <3>1 DEF SaidLast, System!LastSaid
  <2>4. QED
    BY <2>2, <2>3
<1>7. QED
  BY <1>5, <1>6

\* What the tracker tells of its own accord is that typing has stopped.
LEMMA FewerSaid ==
    ASSUME UNCHANGED uplink, \A t \in Target : said'[<<Me, t>>] => said[<<Me, t>>]
    PROVE  \A t \in Target : SaidLast(t)' => SaidLast(t)
BY DEF SaidLast, System!LastSaid, System!About

\* What the sender's page does.
BoxStep ==
    \/ System!KeyPress \/ System!IdleTimeout \/ System!Close \/ System!ReceiveMessages
    \/ System!SendMessage \/ System!Vanish \/ System!OpenTab
    \/ \E t \in Target : System!Select(t) \/ System!ReceiveAnswer(t)

Sent(t, v) == uplink' = Append(uplink, [to |-> t, isTyping |-> v])

\* Typing is announced for the conversation that is open, and what ends it is
\* announced for the same, unless the answer of a send goes to another.
LEMMA BoxSays ==
    ASSUME SInv, BoxStep,
           misdirected' <=> misdirected \/ (isTypingRef /\ \E t \in Target \ {selectedUser} : System!ReceiveAnswer(t))
    PROVE  /\ UNCHANGED said
           /\ \/ tab' # "open"
              \/ tab = "closed" /\ UNCHANGED uplink
              \/ misdirected'
              \/ tab = "open" /\ UNCHANGED uplink /\ (isTypingRef => isTypingRef' /\ selectedUser' = selectedUser)
              \/ tab = "open" /\ isTypingRef /\ selectedUser \in Target /\ Sent(selectedUser, FALSE)
              \/ /\ tab = "open" /\ ~isTypingRef /\ selectedUser \in Target /\ Sent(selectedUser, TRUE)
                 /\ isTypingRef' /\ selectedUser' = selectedUser
<1> USE DEF SInv, BoxOK, GoneIsGone, System!Emit, System!StopTyping, System!Alive, System!trackerVars,
            System!screenVars, System!loadVars, Sent
<1>1. CASE System!KeyPress \/ System!IdleTimeout
  <2>1. CASE System!KeyPress
    BY <2>1 DEF System!KeyPress
  <2>2. CASE System!IdleTimeout
    <3>1. isTypingRef /\ selectedUser \in Target /\ tab' = tab /\ tab \in {"open", "reloaded"}
      BY <2>2 DEF System!IdleTimeout
    <3>2. QED
      BY <2>2, <3>1 DEF System!IdleTimeout
  <2>3. QED
    BY <1>1, <2>1, <2>2
<1>2. CASE System!Close \/ System!ReceiveMessages \/ \E t \in Target : System!Select(t)
  BY <1>2 DEF System!Close, System!ReceiveMessages, System!Select
<1>3. CASE System!SendMessage \/ System!Vanish \/ System!OpenTab
  BY <1>3 DEF System!SendMessage, System!Vanish, System!OpenTab
<1>4. CASE \E t \in Target : System!ReceiveAnswer(t)
  BY <1>4 DEF System!ReceiveAnswer
<1>5. QED
  BY <1>1, <1>2, <1>3, <1>4 DEF BoxStep

LEMMA BoxKeeps ==
    ASSUME SInv, BoxStep,
           misdirected' <=> misdirected \/ (isTypingRef /\ \E t \in Target \ {selectedUser} : System!ReceiveAnswer(t))
    PROVE  SInv'
<1>1. UNCHANGED <<entries, last, sinceLast, expiry, said, downlink, typingUsers, hideTimers>>
  BY DEF BoxStep, System!KeyPress, System!IdleTimeout, System!Close, System!ReceiveMessages, System!Select,
         System!SendMessage, System!Vanish, System!OpenTab, System!ReceiveAnswer,
         System!trackerVars, System!screenVars
<1>2. BoxOK' /\ GoneIsGone'
  <2> USE <1>1 DEF SInv, BoxOK, GoneIsGone, System!StopTyping, System!Alive, System!loadVars
  <2>1. CASE System!KeyPress
    BY <2>1 DEF System!KeyPress
  <2>2. CASE System!IdleTimeout
    <3>1. tab \notin {"gone", "closed"}
      BY <2>2 DEF System!IdleTimeout
    <3>2. QED
      BY <2>2, <3>1 DEF System!IdleTimeout
  <2>3. CASE System!Close
    BY <2>3 DEF System!Close
  <2>4. CASE System!ReceiveMessages
    <3>1. tab' = tab /\ tab \notin {"gone", "closed"}
      BY <2>4 DEF System!ReceiveMessages
    <3>2. loads' \in 0..MaxLoads /\ isMessagesLoading' = FALSE /\ selectedUser' = selectedUser
      BY <2>4 DEF System!ReceiveMessages
    <3>3. \/ isTypingRef' = FALSE /\ typingTimeout' = -1 /\ sending' = {}
          \/ UNCHANGED <<isTypingRef, typingTimeout, sending>>
      BY <2>4 DEF System!ReceiveMessages
    <3>4. BoxOK'
      <4>1. typingTimeout' \in {-1} \cup 0..IDLE /\ isTypingRef' \in BOOLEAN /\ sending' \subseteq Target
            /\ (isTypingRef' <=> typingTimeout' # -1)
        <5>1. CASE isTypingRef' = FALSE /\ typingTimeout' = -1 /\ sending' = {}
          BY <5>1
        <5>2. CASE UNCHANGED <<isTypingRef, typingTimeout, sending>>
          <6>1. /\ typingTimeout \in {-1} \cup 0..IDLE /\ isTypingRef \in BOOLEAN /\ sending \subseteq Target
                /\ (isTypingRef <=> typingTimeout # -1)
            OBVIOUS
          <6>2. QED
            BY <5>2, <6>1
        <5>3. QED
          BY <3>3, <5>1, <5>2
      <4>2. selectedUser' = NoOne => ~isTypingRef' /\ sending' = {}
        BY <3>2, <3>3
      <4>3. QED
        BY <3>1, <3>2, <4>1, <4>2
    <3>5. GoneIsGone'
      BY <3>1
    <3>6. QED
      BY <3>4, <3>5
  <2>5. ASSUME NEW t \in Target, System!Select(t) PROVE BoxOK' /\ GoneIsGone'
    <3>1. tab' = tab /\ tab \in {"open", "reloaded"} /\ selectedUser' = t /\ isTypingRef' = FALSE /\ typingTimeout' = -1
      BY <2>5 DEF System!Select
    <3>2. loads' \in 0..MaxLoads /\ loads' > 0 /\ isMessagesLoading' = TRUE
      BY <2>5 DEF System!Select
    <3>3. sending' \subseteq Target
      BY <2>5 DEF System!Select
    <3>4. QED
      BY <3>1, <3>2, <3>3
  <2>6. CASE System!SendMessage \/ System!OpenTab
    BY <2>6 DEF System!SendMessage, System!OpenTab
  <2>7. CASE System!Vanish
    <3>1. /\ tab' = "gone" /\ selectedUser' = NoOne /\ isTypingRef' = FALSE /\ typingTimeout' = -1
          /\ sending' = {} /\ isMessagesLoading' = FALSE /\ loads' = 0
      BY <2>7 DEF System!Vanish
    <3>2. 0 \in 0..MaxLoads
      OBVIOUS
    <3>3. QED
      BY <3>1, <3>2
  <2>8. ASSUME NEW t \in Target, System!ReceiveAnswer(t) PROVE BoxOK' /\ GoneIsGone'
    BY <2>8 DEF System!ReceiveAnswer
  <2>9. QED
    BY <2>1, <2>2, <2>3, <2>4, <2>5, <2>6, <2>7, <2>8 DEF BoxStep
<1>6. uplink' \in Seq(Event)
  <2>1. \/ UNCHANGED uplink
        \/ \E n \in 0..Len(uplink) : uplink' = SubSeq(uplink, 1, n)
        \/ \E u \in Target, v \in BOOLEAN : Sent(u, v)
    <3> USE DEF SInv, BoxOK, GoneIsGone, System!Emit, System!StopTyping, Sent
    <3>1. CASE System!KeyPress \/ System!IdleTimeout
      <4>1. CASE System!KeyPress
        BY <4>1 DEF System!KeyPress
      <4>2. CASE System!IdleTimeout
        <5>1. selectedUser \in Target
          BY <4>2 DEF System!IdleTimeout
        <5>2. QED
          BY <4>2, <5>1 DEF System!IdleTimeout
      <4>3. QED
        BY <3>1, <4>1, <4>2
    <3>2. CASE System!Close \/ System!ReceiveMessages \/ System!SendMessage \/ System!Vanish \/ System!OpenTab
      BY <3>2 DEF System!Close, System!ReceiveMessages, System!SendMessage, System!Vanish, System!OpenTab
    <3>3. ASSUME NEW t \in Target, System!Select(t) \/ System!ReceiveAnswer(t)
          PROVE  UNCHANGED uplink \/ \E u \in Target, v \in BOOLEAN : Sent(u, v)
      BY <3>3 DEF System!Select, System!ReceiveAnswer
    <3>4. QED
      BY <3>1, <3>2, <3>3 DEF BoxStep
  <2>2. uplink \in Seq(Event)
    BY DEF SInv
  <2>3. \A u \in Target, v \in BOOLEAN : [to |-> u, isTyping |-> v] \in Event
    BY DEF Event
  <2>4. QED
    BY <2>1, <2>2, <2>3, SequencesStay DEF Sent
<1>3. TrackerOK' /\ ScreensOK'
  BY <1>1, TrackerOKKept DEF SInv, ScreensOK, System!ShownHasTimer
<1>4. Ended'
  <2> SUFFICES ASSUME tab' = "open", ~misdirected', NEW t \in Target, SaidLast(t)'
               PROVE  isTypingRef' /\ selectedUser' = t
    BY DEF Ended
  <2>1. uplink \in Seq(Event) /\ UNCHANGED said /\ ~misdirected
    BY <1>1 DEF SInv
  <2>2. tab = "open" => (SaidLast(t) => isTypingRef /\ selectedUser = t)
    BY <2>1 DEF SInv, Ended
  <2>3. CASE tab = "closed" /\ UNCHANGED uplink
    BY <2>1, <2>3 DEF SInv, GoneIsGone, SaidLast, System!LastSaid, System!About
  <2>4. CASE tab = "open" /\ UNCHANGED uplink /\ (isTypingRef => isTypingRef' /\ selectedUser' = selectedUser)
    BY <2>1, <2>2, <2>4, FewerSaid
  <2>5. CASE tab = "open" /\ isTypingRef /\ selectedUser \in Target /\ Sent(selectedUser, FALSE)
    BY <2>1, <2>2, <2>5, SentIsLast DEF Sent
  <2>6. CASE /\ tab = "open" /\ ~isTypingRef /\ selectedUser \in Target /\ Sent(selectedUser, TRUE)
             /\ isTypingRef' /\ selectedUser' = selectedUser
    BY <2>1, <2>2, <2>6, SentIsLast DEF Sent
  <2>7. QED
    BY <2>3, <2>4, <2>5, <2>6, BoxSays
<1>5. QED
  BY <1>1, <1>2, <1>3, <1>4, <1>6 DEF SInv

\* What the server and the receivers do.
ServerStep ==
    \/ System!HandleTyping \/ System!NoticeGone \/ System!Tick
    \/ \E t \in Target : System!AutoExpire(t) \/ System!Receive(t) \/ System!Hide(t)

LEMMA ServerKeeps ==
    ASSUME SInv, ServerStep, misdirected' <=> misdirected
    PROVE  SInv'
<1>0. System!HandleTyping => /\ uplink \in Seq(Event) /\ uplink # <<>> /\ uplink' = Tail(uplink)
                             /\ Head(uplink).to \in Target /\ Head(uplink).isTyping \in BOOLEAN
  <2>1. uplink # <<>> => Head(uplink) \in Event
    BY SequencesStay DEF SInv
  <2>2. QED
    BY <2>1 DEF System!HandleTyping, SInv, Event
<1>1. TrackerOK'
  <2> USE TrackerOKKept DEF SInv
  <2>1. CASE System!HandleTyping
    <3>1. <<Me, Head(uplink).to>> \in {Me} \X Target
      BY <1>0, <2>1
    <3>2. QED
      BY <2>1, <3>1 DEF System!HandleTyping
  <2>2. CASE System!NoticeGone \/ System!Tick
    BY <2>2 DEF System!NoticeGone, System!Tick
  <2>3. ASSUME NEW t \in Target, System!AutoExpire(t) PROVE TrackerOK'
    BY <2>3 DEF System!AutoExpire
  <2>4. ASSUME NEW t \in Target, System!Receive(t) \/ System!Hide(t) PROVE TrackerOK'
    BY <2>4 DEF System!Receive, System!Hide, System!trackerVars
  <2>5. QED
    BY <2>1, <2>2, <2>3, <2>4 DEF ServerStep
<1>2. downlink' \in [Target -> Seq(BOOLEAN)]
  <2> USE DEF SInv, System!Tell
  <2>1. ASSUME NEW t \in Target, NEW v \in BOOLEAN, System!Tell(t, v) PROVE downlink' \in [Target -> Seq(BOOLEAN)]
    <3>1. Append(downlink[t], v) \in Seq(BOOLEAN)
      BY SequencesStay
    <3>2. QED
      BY <2>1, <3>1
  <2>2. CASE System!HandleTyping
    BY <1>0, <2>1, <2>2 DEF System!HandleTyping
  <2>3. CASE System!NoticeGone
    <3>1. \A t \in Target : Append(downlink[t], FALSE) \in Seq(BOOLEAN)
      BY SequencesStay
    <3>2. QED
      BY <2>3, <3>1 DEF System!NoticeGone
  <2>4. CASE System!Tick
    BY <2>4 DEF System!Tick
  <2>5. ASSUME NEW t \in Target, System!AutoExpire(t) \/ System!Hide(t)
        PROVE  downlink' \in [Target -> Seq(BOOLEAN)]
    BY <2>1, <2>5 DEF System!AutoExpire, System!Hide
  <2>6. ASSUME NEW t \in Target, System!Receive(t) PROVE downlink' \in [Target -> Seq(BOOLEAN)]
    <3>1. Tail(downlink[t]) \in Seq(BOOLEAN)
      BY <2>6, SequencesStay DEF System!Receive
    <3>2. QED
      BY <2>6, <3>1 DEF System!Receive
  <2>7. QED
    BY <2>2, <2>3, <2>4, <2>5, <2>6 DEF ServerStep
<1>3. ScreensOK'
  <2> USE DEF SInv, ScreensOK, System!ShownHasTimer, System!screenVars
  <2>1. CASE System!HandleTyping \/ System!NoticeGone
    BY <2>1 DEF System!HandleTyping, System!NoticeGone
  <2>2. CASE System!Tick
    BY <2>2 DEF System!Tick
  <2>3. ASSUME NEW t \in Target, System!AutoExpire(t) PROVE ScreensOK'
    BY <2>3 DEF System!AutoExpire
  <2>4. ASSUME NEW t \in Target, System!Receive(t) PROVE ScreensOK'
    <3>1. PICK v \in BOOLEAN : v = Head(downlink[t])
      <4>1. downlink[t] \in Seq(BOOLEAN) /\ downlink[t] # <<>>
        BY <2>4 DEF System!Receive
      <4>2. Head(downlink[t]) \in BOOLEAN
        BY <4>1, SequencesStay
      <4>3. QED
        BY <4>2
    <3>2. /\ typingUsers' = [typingUsers EXCEPT ![t] = v]
          /\ hideTimers' = [hideTimers EXCEPT ![t] = IF v THEN @ \cup {SHOW} ELSE @]
      BY <2>4, <3>1 DEF System!Receive
    <3>3. CASE v
      <4>1. typingUsers' = [typingUsers EXCEPT ![t] = TRUE] /\ hideTimers' = [hideTimers EXCEPT ![t] = @ \cup {SHOW}]
        BY <3>2, <3>3
      <4>2. \A u \in Target : hideTimers'[u] = IF u = t THEN hideTimers[u] \cup {SHOW} ELSE hideTimers[u]
        BY <4>1
      <4>3. SHOW \in 0..SHOW
        OBVIOUS
      <4>4. hideTimers' \in [Target -> SUBSET (0..SHOW)]
        BY <4>1, <4>3
      <4>5. \A u \in Target : typingUsers'[u] => hideTimers'[u] # {}
        BY <4>1, <4>2
      <4>6. QED
        BY <4>1, <4>4, <4>5
    <3>4. CASE ~v
      <4>1. typingUsers' = [typingUsers EXCEPT ![t] = FALSE] /\ hideTimers' = hideTimers
        BY <3>2, <3>4
      <4>2. QED
        BY <4>1
    <3>5. QED
      BY <3>3, <3>4
  <2>5. ASSUME NEW t \in Target, System!Hide(t) PROVE ScreensOK'
    BY <2>5 DEF System!Hide
  <2>6. QED
    BY <2>1, <2>2, <2>3, <2>4, <2>5 DEF ServerStep
<1>4. BoxOK' /\ uplink' \in Seq(Event)
  <2> USE DEF SInv, BoxOK, System!boxVars, System!loadVars
  <2>1. CASE System!HandleTyping
    BY <1>0, <2>1, SequencesStay DEF System!HandleTyping
  <2>2. CASE System!NoticeGone
    BY <2>2 DEF System!NoticeGone
  <2>3. CASE System!Tick
    BY <2>3 DEF System!Tick
  <2>4. ASSUME NEW t \in Target, System!AutoExpire(t) \/ System!Receive(t) \/ System!Hide(t)
        PROVE  UNCHANGED <<uplink, System!boxVars>>
    BY <2>4 DEF System!AutoExpire, System!Receive, System!Hide
  <2>5. CASE UNCHANGED <<uplink, System!boxVars>>
    BY <2>5
  <2>6. QED
    BY <2>1, <2>2, <2>3, <2>4, <2>5 DEF ServerStep
<1>5. \A t \in Target : SaidLast(t)' => SaidLast(t)
  <2>1. said \in [{Me} \X Target -> BOOLEAN]
    BY DEF SInv, TrackerOK, System!Tracker!TypeOK, System!Tracker!Pair
  <2>2. CASE System!HandleTyping
    <3>1. uplink \in Seq(Event) /\ uplink # <<>> /\ uplink' = Tail(uplink)
      BY <1>0, <2>2
    <3>2. PICK u \in Target : u = Head(uplink).to
      BY <1>0, <2>2
    <3>3. CASE Head(uplink).isTyping
      <4>1. System!Tracker!Refresh(<<Me, u>>) \/ System!Tracker!Forward(<<Me, u>>)
        BY <2>2, <3>2, <3>3 DEF System!HandleTyping
      <4>2. \A t \in Target \ {u} : said'[<<Me, t>>] => said[<<Me, t>>]
        BY <2>1, <4>1 DEF System!Tracker!Refresh, System!Tracker!Forward
      <4>3. QED
        BY <3>1, <3>2, <3>3, <4>2, ArrivedWasSaid
    <3>4. CASE ~Head(uplink).isTyping
      <4>1. said' = [said EXCEPT ![<<Me, u>>] = FALSE]
        BY <2>2, <3>2, <3>4 DEF System!HandleTyping, System!Tracker!StopTyping
      <4>2. /\ \A t \in Target \ {u} : said'[<<Me, t>>] => said[<<Me, t>>]
            /\ ~said'[<<Me, u>>]
        BY <2>1, <4>1
      <4>3. QED
        BY <3>1, <3>2, <4>2, ArrivedWasSaid
    <3>5. QED
      BY <3>3, <3>4
  <2>3. CASE System!NoticeGone
    BY <2>1, <2>3, FewerSaid DEF System!NoticeGone, System!Tracker!ClearTypingForSender, System!Tracker!Pair
  <2>4. CASE System!Tick
    BY <2>4, FewerSaid DEF System!Tick, System!Tracker!Tick
  <2>5. ASSUME NEW u \in Target, System!AutoExpire(u) PROVE \A t \in Target : SaidLast(t)' => SaidLast(t)
    <3>1. UNCHANGED uplink /\ said' = [said EXCEPT ![<<Me, u>>] = FALSE]
      BY <2>5 DEF System!AutoExpire, System!Tracker!AutoExpire
    <3>2. QED
      BY <2>1, <3>1, FewerSaid
  <2>6. ASSUME NEW u \in Target, System!Receive(u) \/ System!Hide(u)
        PROVE  \A t \in Target : SaidLast(t)' => SaidLast(t)
    BY <2>6, FewerSaid DEF System!Receive, System!Hide, System!trackerVars
  <2>7. QED
    BY <2>2, <2>3, <2>4, <2>5, <2>6 DEF ServerStep
<1>6. /\ UNCHANGED <<selectedUser, isTypingRef, sending, isMessagesLoading, loads>>
      /\ tab' = tab \/ (tab = "gone" /\ tab' = "closed")
      /\ typingTimeout = System!Off => typingTimeout' = System!Off
  BY DEF ServerStep, System!HandleTyping, System!NoticeGone, System!Tick, System!AutoExpire,
     System!Receive, System!Hide, System!boxVars, System!loadVars
<1>7. tab' = "closed" => uplink' = <<>> /\ \A t \in Target : ~said'[<<Me, t>>]
  <2>1. CASE System!NoticeGone
    <3>1. /\ \A k \in {Me} \X Target : said[k] => k \in entries /\ last[k] /\ k[1] = Me
          /\ uplink' = <<>>
      BY <2>1 DEF System!NoticeGone, SInv, TrackerOK, System!Tracker!EntryHasItsTimer, System!Tracker!Pair
    <3>2. \A k \in {Me} \X Target : ~said'[k]
      BY <2>1, <3>1 DEF System!NoticeGone, System!Tracker!ClearTypingForSender, System!Tracker!Pair
    <3>3. QED
      BY <3>1, <3>2
  <2>2. CASE System!HandleTyping
    BY <2>2 DEF System!HandleTyping, System!boxVars, SInv, GoneIsGone
  <2>3. CASE System!Tick
    BY <2>3 DEF System!Tick, System!Tracker!Tick, SInv, GoneIsGone
  <2>4. ASSUME NEW u \in Target, System!AutoExpire(u)
        PROVE  tab' = "closed" => uplink' = <<>> /\ \A t \in Target : ~said'[<<Me, t>>]
    <3>1. /\ UNCHANGED <<tab, uplink>> /\ said' = [said EXCEPT ![<<Me, u>>] = FALSE]
          /\ said \in [{Me} \X Target -> BOOLEAN]
      BY <2>4 DEF System!AutoExpire, System!Tracker!AutoExpire, System!boxVars,
         SInv, TrackerOK, System!Tracker!TypeOK, System!Tracker!Pair
    <3>2. QED
      BY <3>1 DEF SInv, GoneIsGone
  <2>5. ASSUME NEW u \in Target, System!Receive(u) \/ System!Hide(u)
        PROVE  tab' = "closed" => uplink' = <<>> /\ \A t \in Target : ~said'[<<Me, t>>]
    BY <2>5 DEF System!Receive, System!Hide, System!trackerVars, System!boxVars, SInv, GoneIsGone
  <2>6. QED
    BY <2>1, <2>2, <2>3, <2>4, <2>5 DEF ServerStep
<1>8. GoneIsGone'
  BY <1>6, <1>7 DEF GoneIsGone, SInv
<1>9. Ended'
  BY <1>5, <1>6 DEF Ended, SInv
<1>10. QED
  BY <1>1, <1>2, <1>3, <1>4, <1>8, <1>9 DEF SInv

LEMMA NextSInv == SInv /\ [System!ObservedNext]_systemVars => SInv'
<1>1. ASSUME SInv, System!ObservedNext PROVE SInv'
  <2>1. misdirected' <=> misdirected \/ (isTypingRef /\ \E t \in Target \ {selectedUser} : System!ReceiveAnswer(t))
    BY <1>1 DEF System!ObservedNext
  <2>2. BoxStep \/ ServerStep
    BY <1>1 DEF System!ObservedNext, System!Next, BoxStep, ServerStep
  <2>3. CASE BoxStep
    BY <1>1, <2>1, <2>3, BoxKeeps
  <2>4. CASE ~BoxStep
    <3>1. ServerStep /\ (misdirected' <=> misdirected)
      BY <2>1, <2>2, <2>4 DEF BoxStep
    <3>2. QED
      BY <1>1, <3>1, ServerKeeps
  <2>5. QED
    BY <2>3, <2>4
<1>2. ASSUME SInv, UNCHANGED systemVars PROVE SInv'
  <2> USE DEF systemVars, SInv
  <2>1. TrackerOK'
    BY <1>2, TrackerOKKept
  <2>2. BoxOK' /\ ScreensOK' /\ GoneIsGone'
    BY <1>2 DEF BoxOK, ScreensOK, GoneIsGone, System!ShownHasTimer
  <2>3. Ended'
    BY <1>2, FewerSaid DEF Ended
  <2>4. QED
    BY <1>2, <2>1, <2>2, <2>3
<1>3. QED
  BY <1>1, <1>2

\* Whatever is typed, sent, left, lost or delayed, and for any contacts, timers and
\* bounds: the last word about a conversation is "stopped" unless its box is being typed
\* in, and an indicator on a screen has a timer that will hide it.
THEOREM LeftConversationAlwaysEnded == MCSpec => []LeftConversationIsEnded
<1>1. MCInit => SInv
  <2> SUFFICES ASSUME System!ObservedInit PROVE SInv
    BY DEF MCInit
  <2> USE DEF System!ObservedInit, System!Init
  <2>1. BoxOK
    <3>1. loads \in 0..MaxLoads /\ typingTimeout \in {-1} \cup 0..IDLE
      OBVIOUS
    <3>2. QED
      BY <3>1 DEF BoxOK
  <2>2. TrackerOK
    BY DEF TrackerOK, System!Tracker!Init, System!Tracker!TypeOK, System!Tracker!EntryHasItsTimer, System!Tracker!Pair
  <2>3. uplink \in Seq(Event) /\ downlink \in [Target -> Seq(BOOLEAN)]
    OBVIOUS
  <2>4. ScreensOK /\ GoneIsGone
    BY DEF ScreensOK, GoneIsGone, System!ShownHasTimer
  <2>5. Ended
    BY DEF Ended, SaidLast, System!LastSaid, System!About, System!Tracker!Init, System!Tracker!Pair
  <2>6. QED
    BY <2>1, <2>2, <2>3, <2>4, <2>5 DEF SInv
<1>2. SInv /\ [MCNext]_mcVars => SInv'
  BY NextSInv DEF MCNext, TrackerStep, SystemStep, mcVars
<1>3. SInv => LeftConversationIsEnded
  <2> SUFFICES ASSUME SInv PROVE LeftConversationIsEnded
    OBVIOUS
  <2>1. System!TypeOK
    BY DEF SInv, BoxOK, TrackerOK, ScreensOK, Event, System!TypeOK
  <2>2. System!LeftConversationIsEnded
    BY DEF SInv, Ended, SaidLast, System!LeftConversationIsEnded
  <2>3. QED
    BY <2>1, <2>2 DEF SInv, ScreensOK, LeftConversationIsEnded
<1>4. QED
  BY <1>1, <1>2, <1>3, PTL DEF MCSpec
=============================================================================
