----------------------------- MODULE TypingTracker -----------------------------
(***************************************************************************)
(* The server-side typing tracker of one process                           *)
(* (backend/src/lib/typingTracker.js): a throttle and an auto-expire timer *)
(* for every (sender, target) pair that is typing.                         *)
(*                                                                         *)
(* Time advances in ticks; a timer that is due fires before the next tick. *)
(* Every function of the module is synchronous, so each is one action.     *)
(***************************************************************************)
EXTENDS Integers

CONSTANTS
    Sender, Target,
    THROTTLE,      \* ticks during which repeats are not forwarded
    AUTO_EXPIRE    \* ticks after which typing is taken to have stopped

ASSUME ThrottleAssumption == THROTTLE \in Nat \ {0}
ASSUME ExpireAssumption   == AUTO_EXPIRE \in Nat \ {0}

VARIABLES
    state,          \* the pairs that have an entry in the map of maps
    lastIsTyping,   \* entry.lastIsTyping
    sinceEmit,      \* ticks since entry.lastEmit, counted up to THROTTLE
    autoExpireTimer,\* ticks until entry.autoExpireTimer fires, or None
    told            \* the value emitted to the receivers last

vars == <<state, lastIsTyping, sinceEmit, autoExpireTimer, told>>

Pair == Sender \X Target
None == -1

Init ==
    /\ state = {}
    /\ lastIsTyping = [k \in Pair |-> FALSE]
    /\ sinceEmit = [k \in Pair |-> THROTTLE]
    /\ autoExpireTimer = [k \in Pair |-> None]
    /\ told = [k \in Pair |-> FALSE]

-----------------------------------------------------------------------------

\* getEntry creates an entry that has emitted nothing; clearEntry cancels the
\* timer and drops the entry, so the next getEntry starts afresh.
ClearEntries(K) ==
    /\ state' = state \ K
    /\ lastIsTyping' = [k \in Pair |-> lastIsTyping[k] /\ k \notin K]
    /\ sinceEmit' = [k \in Pair |-> IF k \in K THEN THROTTLE ELSE sinceEmit[k]]
    /\ autoExpireTimer' = [k \in Pair |-> IF k \in K THEN None ELSE autoExpireTimer[k]]

Throttled(k) == k \in state /\ lastIsTyping[k] /\ sinceEmit[k] < THROTTLE

\* recordTyping(true), a repeat inside the window: only the timer restarts.
Refresh(k) ==
    /\ Throttled(k)
    /\ autoExpireTimer' = [autoExpireTimer EXCEPT ![k] = AUTO_EXPIRE]
    /\ UNCHANGED <<state, lastIsTyping, sinceEmit, told>>

ForwardUntimed(k) ==  \* mutant: the timer is armed by repeats only
    /\ ~Throttled(k)
    /\ state' = state \cup {k}
    /\ told' = [told EXCEPT ![k] = TRUE]
    /\ sinceEmit' = [sinceEmit EXCEPT ![k] = 0]
    /\ lastIsTyping' = [lastIsTyping EXCEPT ![k] = TRUE]
    /\ UNCHANGED autoExpireTimer

\* recordTyping(true), forwarded.
Forward(k) ==
    /\ ~Throttled(k)
    /\ state' = state \cup {k}
    /\ told' = [told EXCEPT ![k] = TRUE]
    /\ sinceEmit' = [sinceEmit EXCEPT ![k] = 0]
    /\ lastIsTyping' = [lastIsTyping EXCEPT ![k] = TRUE]
    /\ autoExpireTimer' = [autoExpireTimer EXCEPT ![k] = AUTO_EXPIRE]

\* recordTyping(false): forwarded at once, and the entry is dropped.
StopTyping(k) ==
    /\ told' = [told EXCEPT ![k] = FALSE]
    /\ ClearEntries({k})

AutoExpireSilently(k) ==  \* mutant: the receivers are not told
    autoExpireTimer[k] = 0 /\ ClearEntries({k}) /\ UNCHANGED told
AutoExpire(k) ==
    /\ autoExpireTimer[k] = 0
    /\ told' = [told EXCEPT ![k] = FALSE]
    /\ ClearEntries({k})

\* clearTypingForSender: the sender's last tab has gone.
ClearTypingForSender(s) ==
    LET K == {k \in state : k[1] = s}
    IN  /\ told' = [k \in Pair |-> told[k] /\ ~(k \in K /\ lastIsTyping[k])]
        /\ ClearEntries(K)
    
Older(n) == IF n < THROTTLE THEN n + 1 ELSE n

Tick ==
    /\ \A k \in Pair : autoExpireTimer[k] # 0
    /\ autoExpireTimer' = [k \in Pair |->
            IF autoExpireTimer[k] = None THEN None ELSE autoExpireTimer[k] - 1]
    /\ sinceEmit' = [k \in Pair |-> Older(sinceEmit[k])]
    /\ UNCHANGED <<state, lastIsTyping, told>>

RecordTyping(k) == Refresh(k) \/ Forward(k) \/ StopTyping(k)

Next ==
    \/ \E k \in Pair : RecordTyping(k) \/ AutoExpire(k)
    \/ \E s \in Sender : ClearTypingForSender(s)
    \/ Tick

Spec == Init /\ [][Next]_vars

-----------------------------------------------------------------------------
\* Every variable stays in its domain.
TypeOK ==
    /\ state \subseteq Pair
    /\ lastIsTyping \in [Pair -> BOOLEAN]
    /\ sinceEmit \in [Pair -> 0..THROTTLE]
    /\ autoExpireTimer \in [Pair -> {None} \cup (0..AUTO_EXPIRE)]
    /\ told \in [Pair -> BOOLEAN]

\* The orphaned-indicator problem does not occur: receivers who were last told
\* "typing" are covered by an armed timer.
NoOrphanedIndicator ==
    \A k \in Pair : told[k] => autoExpireTimer[k] # None

\* No timer survives its entry, to say "stopped" over a later burst of typing,
\* no entry is kept without a timer that will one day remove it, and the entry
\* remembers what the receivers were told last.
EntryHasItsTimer ==
    \A k \in Pair : /\ k \in state <=> autoExpireTimer[k] # None
                    /\ k \in state <=> told[k]
                    /\ k \in state <=> lastIsTyping[k]

\* What receivers see is an indicator that never outlives its last event by
\* more than AUTO_EXPIRE.
Indicator == INSTANCE TypingIndicator WITH
    Conversation <- Pair,
    age <- [k \in Pair |-> IF told[k] THEN AUTO_EXPIRE - autoExpireTimer[k] ELSE 0]
IsIndicator == Indicator!Spec
=============================================================================
