------------------------- MODULE PresenceBroadcaster -------------------------
(***************************************************************************)
(* The debounced broadcast of the online-user list                         *)
(* (backend/src/lib/presenceBroadcaster.js), one per server process.       *)
(*                                                                         *)
(* The list is read from Redis when the window ends and emitted when the   *)
(* answer arrives; a process's reads are answered in the order asked, so   *)
(* the reads in flight are a queue.                                        *)
(***************************************************************************)
EXTENDS Integers, Sequences

CONSTANTS
    Process,    \* server processes
    List,       \* lists getOnlineUsers can return
    MaxReads    \* bound: reads of one process in flight at a time

VARIABLES
    timerId,        \* processes whose debounce timer is armed
    pendingFlush,   \* processes that owe their clients a broadcast
    asked,          \* reads sent to Redis and not yet executed there
    answers,        \* lists read and not yet emitted, oldest first
    flushAhead      \* emits the shutdown flush still waits for, its own last

vars == <<timerId, pendingFlush, asked, answers, flushAhead>>

Init ==
    /\ timerId = {}
    /\ pendingFlush = {}
    /\ asked = [i \in Process |-> 0]
    /\ answers = [i \in Process |-> <<>>]
    /\ flushAhead = [i \in Process |-> 0]

InFlight(i) == asked[i] + Len(answers[i])

ScheduleUnlessReading(i) ==  \* mutant: a signal during a read is dropped
    /\ pendingFlush' = IF InFlight(i) = 0 THEN pendingFlush \cup {i} ELSE pendingFlush
    /\ timerId' = IF InFlight(i) = 0 THEN timerId \cup {i} ELSE timerId
    /\ UNCHANGED <<asked, answers, flushAhead>>

\* schedulePresenceBroadcast: owe a broadcast, and arm the timer unless armed.
Schedule(i) ==
    /\ pendingFlush' = pendingFlush \cup {i}
    /\ timerId' = timerId \cup {i}
    /\ UNCHANGED <<asked, answers, flushAhead>>

\* getOnlineUsersFn() is called, if a broadcast is owed.
StartRead(i) ==
    /\ pendingFlush' = pendingFlush \ {i}
    /\ asked' = IF i \in pendingFlush THEN [asked EXCEPT ![i] = @ + 1] ELSE asked

TimerFires(i) ==
    /\ i \in timerId
    /\ InFlight(i) < MaxReads
    /\ timerId' = timerId \ {i}
    /\ StartRead(i)
    /\ UNCHANGED <<answers, flushAhead>>

\* Redis executes the oldest read.
Answer(i, list) ==
    /\ asked[i] > 0
    /\ asked' = [asked EXCEPT ![i] = @ - 1]
    /\ answers' = [answers EXCEPT ![i] = Append(@, list)]
    /\ UNCHANGED <<timerId, pendingFlush, flushAhead>>

\* The await returns and ioRef.emit runs.
Emit(i) ==
    /\ answers[i] # <<>>
    /\ answers' = [answers EXCEPT ![i] = Tail(@)]
    /\ flushAhead' = [flushAhead EXCEPT ![i] = IF @ > 0 THEN @ - 1 ELSE 0]
    /\ UNCHANGED <<timerId, pendingFlush, asked>>

FlushKeepsTimer(i) ==  \* mutant: no clearTimeout
    /\ timerId' = timerId
    /\ StartRead(i)
    /\ flushAhead' = [flushAhead EXCEPT
                        ![i] = IF i \in pendingFlush THEN InFlight(i) + 1 ELSE 0]
    /\ UNCHANGED answers

\* flushPresenceBroadcast: cancel the timer and broadcast at once what is owed.
Flush(i) ==
    /\ timerId' = timerId \ {i}
    /\ StartRead(i)
    /\ flushAhead' = [flushAhead EXCEPT
                        ![i] = IF i \in pendingFlush THEN InFlight(i) + 1 ELSE 0]
    /\ UNCHANGED answers

\* The promise flushPresenceBroadcast returned is settled.
FlushReturned(i) == flushAhead[i] = 0

\* The process is gone, and its timer and continuations with it.
Stop(i) ==
    /\ timerId' = timerId \ {i}
    /\ pendingFlush' = pendingFlush \ {i}
    /\ asked' = [asked EXCEPT ![i] = 0]
    /\ answers' = [answers EXCEPT ![i] = <<>>]
    /\ flushAhead' = [flushAhead EXCEPT ![i] = 0]

\* Every variable stays in its domain.
TypeOK ==
    /\ timerId \subseteq Process
    /\ pendingFlush \subseteq Process
    /\ asked \in [Process -> 0..MaxReads + 1]
    /\ answers \in [Process -> Seq(List)]
    /\ flushAhead \in [Process -> 0..MaxReads + 1]
=============================================================================
