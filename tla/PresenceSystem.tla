---------------------------- MODULE PresenceSystem ----------------------------
(***************************************************************************)
(* Presence end to end: the connection handlers (Presence), the debounced  *)
(* broadcaster of each process (PresenceBroadcaster), the shutdown         *)
(* sequence of backend/src/index.js, and the list every client holds       *)
(* (onlineUsers in the frontend's useAuthStore, replaced by each           *)
(* getOnlineUsers event).                                                  *)
(***************************************************************************)
EXTENDS Integers, Sequences, FiniteSets

CONSTANTS
    User, Socket, Instance, Owner, Home, MaxFaults, MaxCrashes, MaxReads,
    Signalled   \* processes the platform may stop

ASSUME HandlerAssumption ==
    /\ Owner \in [Socket -> User] /\ Home \in [Socket -> Instance]
    /\ IsFiniteSet(Socket)
    /\ MaxFaults \in Nat /\ MaxCrashes \in Nat
ASSUME SignalledAssumption == Signalled \subseteq Instance
ASSUME MaxReadsAssumption  == MaxReads \in Nat \ {0}

VARIABLES
    pc, open, userSocketMap, socket_user_map, userSockets, online_users,
    faults, crashes,
    timerId, pendingFlush, asked, answers, flushAhead,
    phase,      \* where each process stands between boot and exit
    told,       \* the list emitted last, by any process
    onlineUsers \* the list each client holds

P == INSTANCE Presence
B == INSTANCE PresenceBroadcaster WITH Process <- Instance, List <- SUBSET User

redisVars == <<socket_user_map, userSockets, online_users>>
presenceVars == <<pc, open, userSocketMap, redisVars, faults, crashes>>
broadcastVars == <<timerId, pendingFlush, asked, answers, flushAhead>>
clientVars == <<told, onlineUsers>>
vars == <<presenceVars, broadcastVars, phase, clientVars>>

Init ==
    /\ P!Init
    /\ B!Init
    /\ phase = [i \in Instance |-> "serving"]
    /\ told = {}
    /\ onlineUsers = [s \in Socket |-> {}]

-----------------------------------------------------------------------------
\* A server process accepts connections until its listener is closed.
Connect(s) ==
    /\ phase[Home[s]] \in {"serving", "flushing"}
    /\ P!Connect(s)
    /\ UNCHANGED <<broadcastVars, phase, clientVars>>

\* Handler steps that only talk to Redis.
Handle(s) ==
    /\ \/ P!HSet(s) \/ P!SAdd(s) \/ P!SCard(s) \/ P!SetUserOnline(s) \/ P!Listen(s)
       \/ P!HDel(s) \/ P!SRem(s) \/ P!SCardLeft(s) \/ P!SetUserOffline(s)
    /\ UNCHANGED <<broadcastVars, phase, clientVars>>

\* Handler steps that end in schedulePresenceBroadcast().
Announce(s) ==
    /\ P!AnnounceOnline(s) \/ P!AnnounceOffline(s)
    /\ B!Schedule(Home[s])
    /\ UNCHANGED <<phase, clientVars>>

Leave(s) ==
    /\ P!Disconnect(s) \/ P!DisconnectUnheard(s)
    /\ UNCHANGED <<broadcastVars, phase, clientVars>>

RedisRejects(s) ==
    /\ P!RedisRejects(s)
    /\ UNCHANGED <<broadcastVars, phase, clientVars>>

\* The debounce window ends.
TimerFires(i) ==
    /\ B!TimerFires(i)
    /\ UNCHANGED <<presenceVars, phase, clientVars>>

\* sMembers is executed; a rejected one makes getOnlineUsers return [].
ReadOnlineUsers(i) ==
    /\ B!Answer(i, online_users)
    /\ UNCHANGED <<presenceVars, phase, clientVars>>

ReadRejected(i) ==
    /\ faults < MaxFaults
    /\ B!Answer(i, {})
    /\ faults' = faults + 1
    /\ UNCHANGED <<pc, redisVars, open, userSocketMap, crashes, phase, clientVars>>

\* Every client connected to any process receives the list.
EmitOnlineUsers(i) ==
    /\ B!Emit(i)
    /\ told' = Head(answers[i])
    /\ onlineUsers' = [s \in Socket |-> IF s \in open THEN told' ELSE onlineUsers[s]]
    /\ UNCHANGED <<presenceVars, phase>>

-----------------------------------------------------------------------------
\* SIGTERM: the drain flag goes up and the pending broadcast is flushed.
Shutdown(i) ==
    /\ i \in Signalled
    /\ phase[i] = "serving"
    /\ phase' = [phase EXCEPT ![i] = "flushing"]
    /\ B!Flush(i)
    /\ UNCHANGED <<presenceVars, clientVars>>

\* The flush has returned: io.close() drops the sockets, and server.close()
\* stops accepting.
CloseSockets(i) ==
    /\ phase[i] = "flushing"
    /\ B!FlushReturned(i)
    /\ phase' = [phase EXCEPT ![i] = "closed"]
    /\ P!CloseAll(i) \/ (UNCHANGED presenceVars /\ \A s \in open : Home[s] # i)
    /\ UNCHANGED <<broadcastVars, clientVars>>

\* process.exit: once the databases are closed, or after 25 s wherever the
\* shutdown stands.  It waits for no handler.
Exit(i) ==
    /\ phase[i] \in {"flushing", "closed"}
    /\ phase' = [phase EXCEPT ![i] = "exited"]
    /\ P!Crash(i)
    /\ B!Stop(i)
    /\ UNCHANGED clientVars

Progress ==
    \/ \E s \in Socket : Handle(s) \/ Announce(s)
    \/ \E i \in Instance :
          \/ TimerFires(i) \/ ReadOnlineUsers(i) \/ EmitOnlineUsers(i)
          \/ CloseSockets(i)

Next ==
    \/ Progress
    \/ \E s \in Socket : Connect(s) \/ Leave(s) \/ RedisRejects(s)
    \/ \E i \in Instance : ReadRejected(i) \/ Shutdown(i) \/ Exit(i)

Spec == Init /\ [][Next]_vars

\* Handlers, timers, Redis and the shutdown sequence run on; clients, faults,
\* signals and the exit are not obliged to happen.
Fairness ==
    /\ \A s \in Socket : WF_vars(Handle(s) \/ Announce(s))
    /\ \A i \in Instance :
          /\ WF_vars(TimerFires(i))
          /\ WF_vars(ReadOnlineUsers(i))
          /\ WF_vars(EmitOnlineUsers(i))
FairSpec == Spec /\ Fairness

-----------------------------------------------------------------------------
\* Every variable stays in its domain.
TypeOK ==
    /\ P!TypeOK
    /\ B!TypeOK
    /\ phase \in [Instance -> {"serving", "flushing", "closed", "exited"}]
    /\ told \subseteq User
    /\ onlineUsers \in [Socket -> SUBSET User]

\* The timer is armed exactly while a broadcast is owed: a change signalled in
\* any interleaving with a firing timer or the shutdown flush still goes out,
\* and no timer is left to fire after the flush.
TimerIffPending == timerId = pendingFlush

\* With one process, the list clients were or will be told last is the true
\* one, unless a handler has yet to signal its change or a broadcast is owed:
\* coalescing signals in one window, and signals arriving while a read is in
\* flight, lose no change.
LastTold(i) == IF answers[i] = <<>> THEN told ELSE answers[i][Len(answers[i])]
NoChangeForgotten ==
    faults = 0 /\ crashes = 0 =>
        \A i \in Instance :
            \/ LastTold(i) = online_users
            \/ asked[i] > 0
            \/ i \in pendingFlush
            \/ \E s \in Socket : pc[s] \in {"announceOnline", "announceOffline"}

\* With one process and one tab per user, once tabs stop coming and going every
\* open tab comes to show the true list and stays with it.
Quiet == \A s \in Socket : pc[s] \in {"new", "listening", "done"}
Converges ==
    [](faults = 0 /\ crashes = 0) /\ <>[]Quiet =>
        <>[](\A s \in open : onlineUsers[s] = online_users)

\* The feature list: presence is correct across several tabs.  Once tabs stop
\* coming and going, every tab of a user comes to show what their others show.
TabsAgree ==
    [](faults = 0 /\ crashes = 0) /\ <>[]Quiet =>
        <>[](\A s, t \in open : Owner[s] = Owner[t] => onlineUsers[s] = onlineUsers[t])
=============================================================================
