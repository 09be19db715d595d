------------------------------ MODULE SystemProofs ------------------------------
(***************************************************************************)
(* Proofs about PresenceSystem and the components explored with it, for    *)
(* any users, tabs and processes. What PresenceProofs proves of the        *)
(* handlers holds with broadcasters, clients and the shutdown sequence     *)
(* around them, and no timer outlives what it is for; cached copies of a   *)
(* user document are fresh unless requests race; a lone tab is neither     *)
(* signed out by rotation nor signed in again; and a tab's socket is its   *)
(* user's.                                                                 *)
(***************************************************************************)
EXTENDS MCPresenceSystem, TabSession, SequenceTheorems, TLAPS

PP == INSTANCE PresenceProofs WITH overlapped <- FALSE

-----------------------------------------------------------------------------
(* The system, seen from the handlers. *)

\* Apart from a read that is rejected, every step of the system is a step of the
\* handlers or leaves them alone.
LEMMA StepsAreHandlers ==
    ASSUME [Next]_vars
    PROVE  \/ [PP!Next]_(PP!vars)
           \/ \E i \in Instance : ReadRejected(i)
<1> USE DEF P!Goto, PP!Goto, P!redisVars, PP!redisVars, P!processVars, PP!processVars,
            P!AddKey, PP!AddKey, P!DelKey, PP!DelKey, P!AddMember, PP!AddMember,
            P!RemMember, PP!RemMember, P!AddOnline, PP!AddOnline, P!RemOnline, PP!RemOnline,
            P!Connecting, PP!Connecting
<1>1. CASE UNCHANGED vars \/ UNCHANGED presenceVars
  BY <1>1 DEF vars, presenceVars, redisVars, PP!vars
<1>2. ASSUME NEW s \in Socket, Connect(s)
      PROVE  PP!Connect(s)
  BY <1>2 DEF Connect, P!Connect, PP!Connect
<1>3. ASSUME NEW s \in Socket, Handle(s)
      PROVE  PP!Progress(s)
  <2>1. P!HSet(s) => PP!HSet(s)
    BY DEF P!HSet, PP!HSet
  <2>2. P!SAdd(s) => PP!SAdd(s)
    BY DEF P!SAdd, PP!SAdd
  <2>3. P!SCard(s) => PP!SCard(s)
    BY DEF P!SCard, PP!SCard, P!Cardinality, PP!Cardinality
  <2>4. P!SetUserOnline(s) => PP!SetUserOnline(s)
    BY DEF P!SetUserOnline, PP!SetUserOnline
  <2>5. P!Listen(s) => PP!Listen(s)
    BY DEF P!Listen, PP!Listen
  <2>6. P!HDel(s) => PP!HDel(s)
    BY DEF P!HDel, PP!HDel
  <2>7. P!SRem(s) => PP!SRem(s)
    BY DEF P!SRem, PP!SRem
  <2>8. P!SCardLeft(s) => PP!SCardLeft(s)
    BY DEF P!SCardLeft, PP!SCardLeft
  <2>9. P!SetUserOffline(s) => PP!SetUserOffline(s)
    BY DEF P!SetUserOffline, PP!SetUserOffline
  <2>10. QED
    BY <1>3, <2>1, <2>2, <2>3, <2>4, <2>5, <2>6, <2>7, <2>8, <2>9 DEF Handle, PP!Progress
<1>4. ASSUME NEW s \in Socket, Announce(s)
      PROVE  PP!Progress(s)
  BY <1>4 DEF Announce, P!AnnounceOnline, PP!AnnounceOnline, P!AnnounceOffline,
     PP!AnnounceOffline, PP!Progress
<1>5. ASSUME NEW s \in Socket, Leave(s)
      PROVE  PP!Disconnect(s) \/ PP!DisconnectUnheard(s)
  BY <1>5 DEF Leave, P!Disconnect, PP!Disconnect, P!DisconnectUnheard, PP!DisconnectUnheard
<1>6. ASSUME NEW s \in Socket, RedisRejects(s)
      PROVE  PP!RedisRejects(s)
  <2>1. P!Executed(s) => PP!Executed(s)
    BY DEF P!Executed, PP!Executed
  <2>2. P!RedisCommands = PP!RedisCommands /\ P!AfterFault(pc[s]) = PP!AfterFault(pc[s])
    BY DEF P!RedisCommands, PP!RedisCommands, P!AfterFault, PP!AfterFault
  <2>3. QED
    BY <1>6, <2>1, <2>2 DEF RedisRejects, P!RedisRejects, PP!RedisRejects
<1>7. ASSUME NEW i \in Instance, CloseSockets(i)
      PROVE  PP!CloseAll(i) \/ UNCHANGED presenceVars
  BY <1>7 DEF CloseSockets, P!CloseAll, PP!CloseAll
<1>8. ASSUME NEW i \in Instance, Exit(i)
      PROVE  PP!Crash(i)
  BY <1>8 DEF Exit, P!Crash, PP!Crash
<1>9. ASSUME NEW i \in Instance, TimerFires(i) \/ ReadOnlineUsers(i) \/ EmitOnlineUsers(i) \/ Shutdown(i)
      PROVE  UNCHANGED presenceVars
  BY <1>9 DEF TimerFires, ReadOnlineUsers, EmitOnlineUsers, Shutdown
<1>10. QED
  BY <1>1, <1>2, <1>3, <1>4, <1>5, <1>6, <1>7, <1>8, <1>9 DEF Next, Progress, PP!Next

LEMMA SocketsFinite == PP!IsFiniteSet(Socket)
BY HandlerAssumption DEF IsFiniteSet, PP!IsFiniteSet

LEMMA HandlersKeep == PP!IInv /\ [PP!Next]_(PP!vars) => PP!IInv'
BY PP!NextTypeOK, PP!NextHandlersInv, PP!NextNoGhost, HandlerAssumption, SocketsFinite
   DEF PP!IInv, PP!HandlersInv

\* A rejected read counts as a fault, after which the handlers promise their
\* types and little else.
LEMMA RejectedReadKeeps ==
    ASSUME PP!IInv, NEW i \in Instance, ReadRejected(i)
    PROVE  PP!IInv'
<1>1. /\ faults' \in 1..MaxFaults
      /\ UNCHANGED <<pc, redisVars, open, userSocketMap, crashes>>
  BY HandlerAssumption DEF ReadRejected, PP!IInv, PP!TypeOK
<1>2. PP!TypeOK'
  BY <1>1 DEF PP!IInv, PP!TypeOK, redisVars
<1>3. PP!OpenIsAttended'
  BY <1>1 DEF PP!IInv, PP!OpenIsAttended
<1>4. PP!TrackingIsTracked' /\ PP!TrackedIsTracking' /\ PP!NoGhostOnline'
  BY <1>1 DEF PP!TrackingIsTracked, PP!TrackedIsTracking, PP!NoGhostOnline
<1>5. QED
  BY <1>2, <1>3, <1>4 DEF PP!IInv

LEMMA InitHandlers == Init => PP!IInv
<1>1. Init => PP!Init
  BY DEF Init, P!Init, PP!Init
<1>2. PP!Init => PP!IInv
  BY PP!InitTypeOK, PP!InitHandlersInv, HandlerAssumption, SocketsFinite
     DEF PP!IInv, PP!HandlersInv, PP!NoGhostOnline, PP!Init
<1>3. QED
  BY <1>1, <1>2

\* The handlers' invariant holds in the whole system.
LEMMA HandlersInSystem == Spec => []PP!IInv
<1>1. PP!IInv /\ [Next]_vars => PP!IInv'
  BY StepsAreHandlers, HandlersKeep, RejectedReadKeeps
<1>2. QED
  BY <1>1, InitHandlers, PTL DEF Spec

\* With shutdowns, debounced broadcasts and rejected reads around the handlers,
\* still nobody stays online with an empty socket set.
THEOREM GhostFreeSystem == Spec => []P!NoGhostOnline
<1>1. PP!IInv => P!NoGhostOnline
  BY DEF PP!IInv, PP!NoGhostOnline, P!NoGhostOnline, PP!SocketsOf, P!SocketsOf
<1>2. QED
  BY <1>1, HandlersInSystem, PTL

-----------------------------------------------------------------------------
(* The broadcasters and the clients. *)

Phase == {"serving", "flushing", "closed", "exited"}

\* The flush of a shutdown may put one read more in flight than timers do.
ReadsBounded ==
    \A i \in Instance :
        asked[i] + Len(answers[i]) <= IF phase[i] = "serving" THEN MaxReads ELSE MaxReads + 1

SInv ==
    /\ timerId \subseteq Instance
    /\ asked \in [Instance -> Nat]
    /\ answers \in [Instance -> Seq(SUBSET User)]
    /\ flushAhead \in [Instance -> 0..MaxReads + 1]
    /\ phase \in [Instance -> Phase]
    /\ told \subseteq User
    /\ onlineUsers \in [Socket -> SUBSET User]
    /\ ReadsBounded
    /\ TimerIffPending

LEMMA InitSInv == Init => SInv
<1> SUFFICES ASSUME Init PROVE SInv
  OBVIOUS
<1>1. answers \in [Instance -> Seq(SUBSET User)] /\ \A i \in Instance : Len(answers[i]) = 0
  BY DEF Init, B!Init
<1>2. QED
  BY <1>1, MaxReadsAssumption DEF Init, B!Init, SInv, ReadsBounded, TimerIffPending, Phase

LEMMA BroadcasterSteps ==
    ASSUME PP!IInv, SInv, NEW i \in Instance,
           \/ TimerFires(i) \/ ReadOnlineUsers(i) \/ ReadRejected(i) \/ EmitOnlineUsers(i)
    PROVE  SInv'
<1>1. /\ answers[i] \in Seq(SUBSET User) /\ Len(answers[i]) \in Nat /\ asked[i] \in Nat
      /\ online_users \subseteq User
  BY LenProperties DEF SInv, PP!IInv, PP!TypeOK
<1>2. CASE TimerFires(i)
  BY <1>1, <1>2, MaxReadsAssumption
     DEF TimerFires, B!TimerFires, B!StartRead, B!InFlight, SInv, ReadsBounded, TimerIffPending,
         clientVars
<1>3. ASSUME NEW list \in SUBSET User, B!Answer(i, list), UNCHANGED <<phase, told, onlineUsers>>
      PROVE  SInv'
  <2>1. Append(answers[i], list) \in Seq(SUBSET User) /\ Len(Append(answers[i], list)) = Len(answers[i]) + 1
    BY <1>1, AppendProperties
  <2>2. /\ asked' = [asked EXCEPT ![i] = asked[i] - 1] /\ asked[i] > 0
        /\ answers' = [answers EXCEPT ![i] = Append(answers[i], list)]
        /\ UNCHANGED <<timerId, pendingFlush, flushAhead>>
    BY <1>3 DEF B!Answer
  <2>3. asked' \in [Instance -> Nat] /\ answers' \in [Instance -> Seq(SUBSET User)]
    BY <1>1, <2>1, <2>2 DEF SInv
  <2>4. ReadsBounded'
    BY <1>1, <1>3, <2>1, <2>2 DEF SInv, ReadsBounded
  <2>5. QED
    BY <1>3, <2>2, <2>3, <2>4 DEF SInv, TimerIffPending
<1>4. CASE ReadOnlineUsers(i)
  BY <1>1, <1>3, <1>4 DEF ReadOnlineUsers, clientVars
<1>5. CASE ReadRejected(i)
  BY <1>3, <1>5 DEF ReadRejected, clientVars
<1>6. CASE EmitOnlineUsers(i)
  <2>1. /\ answers[i] # << >> /\ answers' = [answers EXCEPT ![i] = Tail(answers[i])]
        /\ flushAhead' = [flushAhead EXCEPT ![i] = IF flushAhead[i] > 0 THEN flushAhead[i] - 1 ELSE 0]
        /\ UNCHANGED <<timerId, pendingFlush, asked, phase>>
        /\ told' = Head(answers[i])
        /\ onlineUsers' = [s \in Socket |-> IF s \in open THEN told' ELSE onlineUsers[s]]
    BY <1>6 DEF EmitOnlineUsers, B!Emit
  <2>2. /\ Head(answers[i]) \in SUBSET User /\ Tail(answers[i]) \in Seq(SUBSET User)
        /\ Len(Tail(answers[i])) = Len(answers[i]) - 1
    BY <1>1, <2>1, HeadTailProperties
  <2>3. answers' \in [Instance -> Seq(SUBSET User)] /\ told' \subseteq User
    BY <2>1, <2>2 DEF SInv
  <2>4. onlineUsers' \in [Socket -> SUBSET User]
    BY <2>1, <2>3 DEF SInv
  <2>5. flushAhead' \in [Instance -> 0..MaxReads + 1]
    BY <2>1, MaxReadsAssumption DEF SInv
  <2>6. ReadsBounded'
    BY <1>1, <2>1, <2>2, MaxReadsAssumption DEF SInv, ReadsBounded, Phase
  <2>7. QED
    BY <2>1, <2>3, <2>4, <2>5, <2>6 DEF SInv, TimerIffPending
<1>7. QED
  BY <1>2, <1>4, <1>5, <1>6

LEMMA ShutdownSteps ==
    ASSUME SInv, NEW i \in Instance, Shutdown(i) \/ CloseSockets(i) \/ Exit(i)
    PROVE  SInv'
<1>1. answers[i] \in Seq(SUBSET User) /\ Len(answers[i]) \in Nat /\ asked[i] \in Nat
  BY LenProperties DEF SInv
<1>2. CASE Shutdown(i)
  <2>1. /\ phase[i] = "serving" /\ phase' = [phase EXCEPT ![i] = "flushing"]
        /\ timerId' = timerId \ {i} /\ pendingFlush' = pendingFlush \ {i}
        /\ asked' = IF i \in pendingFlush THEN [asked EXCEPT ![i] = asked[i] + 1] ELSE asked
        /\ flushAhead' = [flushAhead EXCEPT
                            ![i] = IF i \in pendingFlush THEN asked[i] + Len(answers[i]) + 1 ELSE 0]
        /\ UNCHANGED <<answers, told, onlineUsers>>
    BY <1>2 DEF Shutdown, B!Flush, B!StartRead, B!InFlight, clientVars
  <2>2. asked[i] + Len(answers[i]) <= MaxReads
    BY <2>1 DEF SInv, ReadsBounded
  <2>3. flushAhead' \in [Instance -> 0..MaxReads + 1]
    BY <1>1, <2>1, <2>2, MaxReadsAssumption DEF SInv
  <2>4. asked' \in [Instance -> Nat] /\ phase' \in [Instance -> Phase]
    BY <1>1, <2>1 DEF SInv, Phase
  <2>5. ReadsBounded'
    BY <1>1, <2>1, <2>2, MaxReadsAssumption DEF SInv, ReadsBounded
  <2>6. QED
    BY <2>1, <2>3, <2>4, <2>5 DEF SInv, TimerIffPending
<1>3. CASE CloseSockets(i)
  <2>1. /\ phase[i] = "flushing" /\ phase' = [phase EXCEPT ![i] = "closed"]
        /\ UNCHANGED <<broadcastVars, told, onlineUsers>>
    BY <1>3 DEF CloseSockets, clientVars
  <2>2. QED
    BY <2>1 DEF SInv, ReadsBounded, TimerIffPending, broadcastVars, Phase
<1>4. CASE Exit(i)
  <2>1. /\ phase[i] # "serving" /\ phase' = [phase EXCEPT ![i] = "exited"]
        /\ timerId' = timerId \ {i} /\ pendingFlush' = pendingFlush \ {i}
        /\ asked' = [asked EXCEPT ![i] = 0] /\ answers' = [answers EXCEPT ![i] = << >>]
        /\ flushAhead' = [flushAhead EXCEPT ![i] = 0]
        /\ UNCHANGED <<told, onlineUsers>>
    BY <1>4 DEF Exit, B!Stop, clientVars
  <2>2. << >> \in Seq(SUBSET User) /\ Len(<< >>) = 0
    BY EmptySeq
  <2>3. /\ answers' \in [Instance -> Seq(SUBSET User)] /\ asked' \in [Instance -> Nat]
        /\ flushAhead' \in [Instance -> 0..MaxReads + 1] /\ phase' \in [Instance -> Phase]
    BY <2>1, <2>2, MaxReadsAssumption DEF SInv, Phase
  <2>4. ReadsBounded'
    BY <2>1, <2>2, MaxReadsAssumption DEF SInv, ReadsBounded
  <2>5. QED
    BY <2>1, <2>3, <2>4 DEF SInv, TimerIffPending
<1>5. QED
  BY <1>2, <1>3, <1>4

LEMMA NextSInv == PP!IInv /\ SInv /\ [Next]_vars => SInv'
<1> SUFFICES ASSUME PP!IInv, SInv, [Next]_vars PROVE SInv'
  OBVIOUS
<1>1. CASE UNCHANGED <<broadcastVars, phase, clientVars>>
  BY <1>1 DEF SInv, ReadsBounded, TimerIffPending, broadcastVars, clientVars
<1>2. ASSUME NEW s \in Socket, Announce(s) PROVE SInv'
  <2>1. Home[s] \in Instance
    BY HandlerAssumption
  <2>2. QED
    BY <1>2, <2>1 DEF Announce, B!Schedule, SInv, ReadsBounded, TimerIffPending, clientVars
<1>3. ASSUME NEW s \in Socket, Connect(s) \/ Handle(s) \/ Leave(s) \/ RedisRejects(s)
      PROVE  UNCHANGED <<broadcastVars, phase, clientVars>>
  BY <1>3 DEF Connect, Handle, Leave, RedisRejects
<1>4. CASE UNCHANGED vars
  BY <1>1, <1>4 DEF vars
<1>5. QED
  BY <1>1, <1>2, <1>3, <1>4, BroadcasterSteps, ShutdownSteps DEF Next, Progress

LEMMA SystemInv == Spec => [](PP!IInv /\ SInv)
<1>1. PP!IInv /\ [Next]_vars => PP!IInv'
  BY StepsAreHandlers, HandlersKeep, RejectedReadKeeps
<1>2. QED
  BY <1>1, InitHandlers, InitSInv, NextSInv, PTL DEF Spec

\* Handlers, broadcasters, shutdown and clients keep their types; the reads of a
\* process in flight stay bounded although the flush does not wait for them.
THEOREM TypeCorrect == Spec => []TypeOK
<1>1. PP!IInv /\ SInv => TypeOK
  <2> SUFFICES ASSUME PP!IInv, SInv PROVE TypeOK
    OBVIOUS
  <2>1. P!TypeOK
    BY DEF PP!IInv, PP!TypeOK, P!TypeOK, PP!Underway, P!Underway, PP!Settled, P!Settled,
       PP!Connecting, P!Connecting, PP!Disconnecting, P!Disconnecting
  <2>2. asked \in [Instance -> 0..MaxReads + 1]
    <3>1. ASSUME NEW i \in Instance PROVE asked[i] \in 0..MaxReads + 1
      <4>1. Len(answers[i]) \in Nat /\ asked[i] \in Nat
        BY LenProperties DEF SInv
      <4>2. asked[i] + Len(answers[i]) <= IF phase[i] = "serving" THEN MaxReads ELSE MaxReads + 1
        BY DEF SInv, ReadsBounded
      <4>3. asked[i] + Len(answers[i]) <= MaxReads + 1
        BY <4>1, <4>2, MaxReadsAssumption
      <4>4. QED
        BY <4>1, <4>3, MaxReadsAssumption
    <3>2. QED
      BY <3>1 DEF SInv
  <2>3. B!TypeOK
    BY <2>2 DEF SInv, TimerIffPending, B!TypeOK
  <2>4. QED
    BY <2>1, <2>3 DEF SInv, Phase, TypeOK
<1>2. QED
  BY <1>1, SystemInv, PTL

\* A timer is armed exactly while its process owes a broadcast, also across the
\* flush and the exit of a process.
THEOREM TimerAlwaysPending == Spec => []TimerIffPending
<1>1. SInv => TimerIffPending
  BY DEF SInv
<1>2. QED
  BY <1>1, SystemInv, PTL

-----------------------------------------------------------------------------
(* One process. *)

OneProcess == \A i, j \in Instance : i = j

Announcing == \E s \in Socket : pc[s] \in {"announceOnline", "announceOffline"}

\* The handlers change the list of who is online only on their way to announcing
\* it, and go past the announcement only by making it.
LEMMA HandlersAnnounce ==
    ASSUME OneProcess, PP!IInv, SInv, NoChangeForgotten, faults' = 0, crashes' = 0,
           \E s \in Socket : \/ Connect(s) \/ Handle(s) \/ Announce(s) \/ Leave(s) \/ RedisRejects(s),
           NEW i \in Instance
    PROVE  \/ LastTold(i)' = online_users' \/ asked'[i] > 0
           \/ i \in pendingFlush' \/ Announcing'
<1>1. PICK s \in Socket : \/ Connect(s) \/ Handle(s) \/ Announce(s) \/ Leave(s) \/ RedisRejects(s)
  OBVIOUS
<1>2. faults \in Nat /\ crashes \in Nat /\ pc \in [Socket -> PP!Underway \cup PP!Settled]
  BY HandlerAssumption DEF PP!IInv, PP!TypeOK
<1>3. CASE Announce(s)
  <2>1. Home[s] = i
    BY HandlerAssumption DEF OneProcess
  <2>2. QED
    BY <1>3, <2>1 DEF Announce, B!Schedule
<1>4. CASE RedisRejects(s)
  BY <1>2, <1>4 DEF RedisRejects, P!RedisRejects
<1>5. CASE Connect(s) \/ Handle(s) \/ Leave(s)
  <2>1. /\ UNCHANGED <<broadcastVars, clientVars, faults, crashes>>
        /\ \/ pc'[s] \in {"announceOnline", "announceOffline"}
           \/ /\ online_users' = online_users
              /\ \A t \in Socket : pc[t] \in {"announceOnline", "announceOffline"} => pc'[t] = pc[t]
    <3>1. CASE Connect(s) \/ Leave(s)
      BY <1>2, <3>1 DEF Connect, Leave, P!Connect, P!Disconnect, P!DisconnectUnheard, P!Goto, P!redisVars
    <3>2. CASE Handle(s)
      <4>1. CASE P!HSet(s) \/ P!HDel(s)
        BY <1>2, <3>2, <4>1 DEF Handle, P!HSet, P!HDel, P!AddKey, P!DelKey, P!Goto, P!processVars
      <4>2. CASE P!SAdd(s) \/ P!SRem(s)
        BY <1>2, <3>2, <4>2 DEF Handle, P!SAdd, P!SRem, P!AddMember, P!RemMember, P!Goto, P!processVars
      <4>3. CASE P!SCard(s) \/ P!SCardLeft(s) \/ P!Listen(s)
        BY <1>2, <3>2, <4>3 DEF Handle, P!SCard, P!SCardLeft, P!Listen, P!Goto, P!processVars, P!redisVars
      <4>4. CASE P!SetUserOnline(s) \/ P!SetUserOffline(s)
        BY <1>2, <3>2, <4>4 DEF Handle, P!SetUserOnline, P!SetUserOffline, P!Goto, P!processVars
      <4>5. QED
        BY <3>2, <4>1, <4>2, <4>3, <4>4 DEF Handle
    <3>3. QED
      BY <1>5, <3>1, <3>2
  <2>2. CASE pc'[s] \in {"announceOnline", "announceOffline"}
    BY <2>2 DEF Announcing
  <2>3. CASE online_users' = online_users
             /\ \A t \in Socket : pc[t] \in {"announceOnline", "announceOffline"} => pc'[t] = pc[t]
    BY <2>1, <2>3 DEF NoChangeForgotten, LastTold, Announcing, broadcastVars, clientVars
  <2>4. QED
    BY <2>1, <2>2, <2>3
<1>6. QED
  BY <1>1, <1>3, <1>4, <1>5

\* A read answers with the list there is; an emit tells the oldest answer and
\* leaves the newest one.
LEMMA ReadsTell ==
    ASSUME PP!IInv, SInv, NoChangeForgotten, faults' = 0, crashes' = 0, NEW i \in Instance,
           OneProcess, TimerFires(i) \/ ReadOnlineUsers(i) \/ EmitOnlineUsers(i)
    PROVE  \/ LastTold(i)' = online_users' \/ asked'[i] > 0
           \/ i \in pendingFlush' \/ Announcing'
<1>1. answers[i] \in Seq(SUBSET User) /\ Len(answers[i]) \in Nat /\ asked[i] \in Nat
  BY LenProperties DEF SInv
<1>2. /\ UNCHANGED presenceVars
      /\ \/ LastTold(i) = online_users \/ asked[i] > 0
         \/ i \in pendingFlush \/ Announcing
  BY DEF TimerFires, ReadOnlineUsers, EmitOnlineUsers, presenceVars, NoChangeForgotten, Announcing
<1>3. CASE TimerFires(i)
  BY <1>1, <1>2, <1>3 DEF TimerFires, B!TimerFires, B!StartRead, LastTold, SInv, TimerIffPending,
     clientVars, presenceVars, redisVars, Announcing
<1>4. CASE ReadOnlineUsers(i)
  <2>1. answers'[i] = Append(answers[i], online_users) /\ online_users \in SUBSET User
    BY <1>4 DEF ReadOnlineUsers, B!Answer, SInv, PP!IInv, PP!TypeOK
  <2>2. /\ answers'[i] # << >> /\ Len(answers'[i]) = Len(answers[i]) + 1
        /\ answers'[i][Len(answers[i]) + 1] = online_users
    BY <1>1, <2>1, AppendProperties
  <2>3. QED
    BY <1>2, <2>2 DEF LastTold, presenceVars, redisVars
<1>5. CASE EmitOnlineUsers(i)
  <2>1. /\ answers[i] # << >> /\ answers'[i] = Tail(answers[i]) /\ told' = Head(answers[i])
        /\ UNCHANGED <<asked, pendingFlush>>
    BY <1>5 DEF EmitOnlineUsers, B!Emit, SInv
  <2>2. LastTold(i)' = LastTold(i)
    <3>1. /\ Len(Tail(answers[i])) = Len(answers[i]) - 1 /\ Head(answers[i]) = answers[i][1]
          /\ Len(answers[i]) >= 1
          /\ \A n \in 1..Len(Tail(answers[i])) : Tail(answers[i])[n] = answers[i][n + 1]
          /\ Tail(answers[i]) \in Seq(SUBSET User)
      BY <1>1, <2>1, HeadTailProperties
    <3> DEFINE rest == Tail(answers[i])
    <3> HIDE DEF rest
    <3>2. CASE Len(answers[i]) = 1
      <4>1. rest \in Seq(SUBSET User) /\ Len(rest) = 0
        BY <3>1, <3>2 DEF rest
      <4>2. rest = << >>
        BY <4>1, EmptySeq
      <4>3. QED
        BY <2>1, <3>1, <3>2, <4>2 DEF LastTold, rest
    <3>3. CASE Len(answers[i]) # 1
      <4>1. Len(rest) \in Nat /\ Len(rest) >= 1 /\ Len(rest) = Len(answers[i]) - 1
        <5>1. Len(rest) = Len(answers[i]) - 1 /\ Len(answers[i]) >= 1
          BY <3>1 DEF rest
        <5>2. Len(answers[i]) \in Nat
          BY <1>1
        <5>3. \A m, n \in Nat : n >= 1 /\ n # 1 /\ m = n - 1 => m >= 1
          OBVIOUS
        <5>4. Len(rest) \in Nat
          BY <3>1, LenProperties DEF rest
        <5>5. QED
          BY <3>3, <5>1, <5>2, <5>3, <5>4
      <4>2. rest # << >>
        BY <4>1, EmptySeq
      <4>3. rest[Len(rest)] = answers[i][Len(answers[i])]
        BY <1>1, <3>1, <4>1 DEF rest
      <4>4. QED
        BY <2>1, <4>2, <4>3 DEF LastTold, rest
    <3>4. QED
      BY <3>2, <3>3
  <2>3. QED
    BY <1>2, <2>1, <2>2 DEF presenceVars, redisVars, Announcing
<1>6. QED
  BY <1>3, <1>4, <1>5

LEMMA NothingForgottenNext ==
    ASSUME OneProcess, PP!IInv, SInv, NoChangeForgotten, [Next]_vars
    PROVE  NoChangeForgotten'
<1> SUFFICES ASSUME faults' = 0, crashes' = 0, NEW i \in Instance
             PROVE  \/ LastTold(i)' = online_users' \/ asked'[i] > 0
                    \/ i \in pendingFlush' \/ Announcing'
  BY DEF NoChangeForgotten, Announcing
<1>1. faults \in Nat /\ crashes \in Nat /\ asked \in [Instance -> Nat]
  BY HandlerAssumption DEF SInv, PP!IInv, PP!TypeOK
<1>2. CASE UNCHANGED vars
  BY <1>2 DEF vars, presenceVars, redisVars, broadcastVars, clientVars, NoChangeForgotten, LastTold,
     Announcing
<1>3. ASSUME NEW j \in Instance, ReadRejected(j) \/ Exit(j) PROVE FALSE
  BY <1>1, <1>3 DEF ReadRejected, Exit, P!Crash
<1>4. CASE Shutdown(i)
  BY <1>1, <1>4 DEF Shutdown, B!Flush, B!StartRead, LastTold, presenceVars, redisVars, clientVars,
     NoChangeForgotten, Announcing
<1>5. CASE CloseSockets(i)
  <2>1. /\ UNCHANGED <<broadcastVars, told, online_users, faults, crashes>>
        /\ \A s \in Socket : pc[s] # "listening" => pc'[s] = pc[s]
    BY <1>5 DEF CloseSockets, P!CloseAll, P!redisVars, presenceVars, redisVars, clientVars
  <2>2. QED
    BY <2>1 DEF NoChangeForgotten, LastTold, Announcing, broadcastVars
<1>6. \A j \in Instance : j = i
  BY DEF OneProcess
<1>7. QED
  BY <1>2, <1>3, <1>4, <1>5, <1>6, HandlersAnnounce, ReadsTell DEF Next, Progress

\* With one process, the list told last is the true one or a broadcast of it is
\* under way, for any number of tabs that come and go meanwhile.
THEOREM NothingForgotten ==
    ASSUME OneProcess
    PROVE  Spec => []NoChangeForgotten
<1>1. Init => NoChangeForgotten
  BY DEF Init, P!Init, B!Init, NoChangeForgotten, LastTold
<1>2. PP!IInv /\ SInv /\ NoChangeForgotten /\ [Next]_vars => NoChangeForgotten'
  BY NothingForgottenNext
<1>3. QED
  BY <1>1, <1>2, SystemInv, PTL DEF Spec

-----------------------------------------------------------------------------
(* The cached copy of a user document. *)

\* Requests stay in their handlers, and what they have read was once the document.
CacheTyped ==
    /\ Cache!TypeOK
    /\ req = [r \in Request |-> req[r]]

\* While no write has met a read that missed, none is under way with one, and what
\* was read is what a read would find.
CacheInStep ==
    ~raced /\ ~signedIn /\ cacheFaults = 0 =>
        /\ ~Cache!Overlap
        /\ \A r \in Request : Cache!At(r, "cacheUser") => req[r].user = doc
        /\ (\A r \in Request : ~Cache!At(r, "deleteCachedUser")) => Cache!Fresh

LEMMA CacheNextTyped ==
    ASSUME CacheTyped, Cache!Next
    PROVE  CacheTyped'
<1> USE CacheAssumption DEF CacheTyped, Cache!TypeOK, Cache!At, Cache!Go, Cache!Begin, Cache!Idle,
        Cache!None, Cache!RedisFails, Cache!RedisWorks
<1>1. ASSUME NEW r \in Request, Cache!GetCachedUser(r) PROVE CacheTyped'
  BY <1>1 DEF Cache!GetCachedUser
<1>2. ASSUME NEW r \in Request, Cache!Write(r) PROVE CacheTyped'
  BY <1>2 DEF Cache!Write
<1>3. ASSUME NEW r \in Request, Cache!OAuthSignIn(r) PROVE CacheTyped'
  BY <1>3 DEF Cache!OAuthSignIn
<1>4. ASSUME NEW r \in Request, Cache!FindById(r) PROVE CacheTyped'
  BY <1>4 DEF Cache!FindById
<1>5. ASSUME NEW r \in Request, Cache!CacheUser(r) PROVE CacheTyped'
  BY <1>5 DEF Cache!CacheUser
<1>6. ASSUME NEW r \in Request, Cache!DeleteCachedUser(r) PROVE CacheTyped'
  BY <1>6 DEF Cache!DeleteCachedUser
<1>7. CASE Cache!Tick
  BY <1>7 DEF Cache!Tick
<1>8. QED
  BY <1>1, <1>2, <1>3, <1>4, <1>5, <1>6, <1>7 DEF Cache!Next, Cache!Progress

\* A write begins by making every read under way a race, and ends by emptying the
\* cache; the fill of a read that no write met is the document.
LEMMA CacheNextInStep ==
    ASSUME CacheTyped, CacheInStep, Cache!ObservedNext
    PROVE  CacheInStep'
<1> SUFFICES ASSUME ~raced', ~signedIn', cacheFaults' = 0 PROVE CacheInStep'
  BY DEF CacheInStep
<1>1. Cache!Next /\ ~raced /\ ~signedIn /\ ~Cache!Overlap'
  BY DEF Cache!ObservedNext
<1>2. cacheFaults \in Nat
  BY CacheAssumption DEF CacheTyped, Cache!TypeOK
<1> USE <1>1, <1>2, CacheAssumption DEF CacheInStep, CacheTyped, Cache!Overlap, Cache!At, Cache!Go,
        Cache!Begin, Cache!Idle, Cache!None, Cache!RedisFails, Cache!RedisWorks, Cache!Fresh,
        Cache!TypeOK
<1>3. ASSUME NEW r \in Request, Cache!GetCachedUser(r) PROVE CacheInStep'
  BY <1>3 DEF Cache!GetCachedUser
<1>4. ASSUME NEW r \in Request, Cache!Write(r) PROVE CacheInStep'
  BY <1>4 DEF Cache!Write
<1>5. ASSUME NEW r \in Request, Cache!OAuthSignIn(r) PROVE CacheInStep'
  BY <1>5 DEF Cache!ObservedNext
<1>6. ASSUME NEW r \in Request, Cache!FindById(r) PROVE CacheInStep'
  BY <1>6 DEF Cache!FindById
<1>7. ASSUME NEW r \in Request, Cache!CacheUser(r) PROVE CacheInStep'
  BY <1>7 DEF Cache!CacheUser
<1>8. ASSUME NEW r \in Request, Cache!DeleteCachedUser(r) PROVE CacheInStep'
  BY <1>8 DEF Cache!DeleteCachedUser
<1>9. CASE Cache!Tick
  BY <1>9 DEF Cache!Tick
<1>10. QED
  BY <1>3, <1>4, <1>5, <1>6, <1>7, <1>8, <1>9 DEF Cache!Next, Cache!Progress

\* For any number of requests, writes and failures and any life of an entry: unless
\* a write meets a read that missed, or a sign-in skips the deletion, the next
\* request sees every write that has returned.
THEOREM FreshAlwaysUnlessRaced == MCSpec => []FreshUnlessRaced
<1>1. MCInit => CacheTyped /\ CacheInStep
  BY CacheAssumption DEF MCInit, Cache!ObservedInit, Cache!Init, CacheTyped, CacheInStep,
     Cache!TypeOK, Cache!Overlap, Cache!At, Cache!Idle, Cache!Fresh, Cache!None
<1>2. CacheTyped /\ CacheInStep /\ [MCNext]_mcVars => (CacheTyped /\ CacheInStep)'
  <2> SUFFICES ASSUME CacheTyped, CacheInStep, [MCNext]_mcVars
               PROVE  (CacheTyped /\ CacheInStep)'
    OBVIOUS
  <2>1. CASE Cache!ObservedNext
    BY <2>1, CacheNextTyped, CacheNextInStep DEF Cache!ObservedNext
  <2>2. CASE UNCHANGED cacheVars
    BY <2>2 DEF cacheVars, CacheTyped, CacheInStep, Cache!TypeOK, Cache!Overlap, Cache!At,
       Cache!Fresh
  <2>3. QED
    BY <2>1, <2>2 DEF MCNext, SystemStep, CacheStep, mcVars
<1>3. CacheTyped /\ CacheInStep => FreshUnlessRaced
  BY DEF CacheTyped, CacheInStep, FreshUnlessRaced, Cache!FreshUnlessRaced,
     Cache!NextRequestSeesWrite
<1>4. QED
  BY <1>1, <1>2, <1>3, PTL DEF MCSpec

-----------------------------------------------------------------------------
(* The tokens of a browser. *)

\* The forms of a request that names tokens up to n.
RefreshStates(n) ==
    {Tokens!Idle}
    \cup [at : {"sent"}, boot : BOOLEAN, token : 0..n]
    \cup [at : {"verified"}, boot : BOOLEAN, token : 1..n]
    \cup [at : {"answered"}, boot : BOOLEAN, ok : {TRUE}, token : 1..n, cookie : BOOLEAN]
    \cup [at : {"answered"}, boot : BOOLEAN, ok : {FALSE}, token : {0}, cookie : BOOLEAN]

CallStates(n) ==
    {Tokens!Idle}
    \cup [at : {"sent", "ok", "401", "waiting", "woken"}, tab : Tab,
          kind : {"api", "logout"}, token : 0..n, retry : BOOLEAN]

TokensTyped ==
    /\ Tokens!TypeOK
    /\ refresh \in [Tab -> RefreshStates(issued)]
    /\ call \in [Call -> CallStates(issued)]

\* While the user is logged in the cookie is good, or its successor is on the way,
\* and no call has been told that there is none.
SignedIn(t) ==
    /\ jar # 0 /\ (jar \in revokedRefresh => refresh[t].at = "answered")
    /\ refresh[t].at \in {"sent", "verified"} => refresh[t].token = jar
    /\ refresh[t].at = "answered" => refresh[t].ok /\ refresh[t].token \notin revokedRefresh
    /\ \A c \in Call : call[c].at = "woken" => call[c].token # 0
    /\ t \in authUser \/ (refresh[t] # Tokens!Idle /\ refresh[t].boot)

\* While they are not, there is no cookie, and only a page that is being loaded asks
\* for a token, in vain.
SignedOut(t) ==
    /\ jar = 0 /\ authUser = {}
    /\ \A c \in Call : call[c] = Tokens!Idle
    /\ refresh[t] # Tokens!Idle =>
          refresh[t].at # "verified" /\ refresh[t].boot /\ refresh[t].token = 0

LoneTab ==
    ~disturbed /\ losses = 0 =>
        \A t \in Tab : IF loggedIn THEN SignedIn(t) ELSE SignedOut(t)

OneTab == \A s, t \in Tab : s = t

\* What the server has issued since changes no form.
LEMMA FormsGrow ==
    ASSUME NEW m \in Nat, NEW n \in Nat, m <= n
    PROVE  RefreshStates(m) \subseteq RefreshStates(n) /\ CallStates(m) \subseteq CallStates(n)
<1>1. 0..m \subseteq 0..n /\ 1..m \subseteq 1..n
  OBVIOUS
<1>2. QED
  BY <1>1 DEF RefreshStates, CallStates

\* A step sets one refresh, one call, or neither.
LEMMA FormsKept ==
    ASSUME TokensTyped, issued' \in Nat, issued <= issued',
           \/ UNCHANGED refresh
           \/ \E t \in Tab : \E h \in RefreshStates(issued') : refresh' = [refresh EXCEPT ![t] = h],
           \/ UNCHANGED call
           \/ \E c \in Call : \E h \in CallStates(issued') : call' = [call EXCEPT ![c] = h]
    PROVE  /\ refresh' \in [Tab -> RefreshStates(issued')]
           /\ call' \in [Call -> CallStates(issued')]
<1>1. issued \in Nat
  BY TokenAssumption DEF TokensTyped, Tokens!TypeOK
<1>2. /\ refresh \in [Tab -> RefreshStates(issued')]
      /\ call \in [Call -> CallStates(issued')]
  BY <1>1, FormsGrow DEF TokensTyped
<1>3. QED
  BY <1>2

\* A request under way is one of these.
LEMMA Forms ==
    ASSUME TokensTyped
    PROVE  /\ \A t \in Tab : refresh[t].at # "idle" => refresh[t].boot \in BOOLEAN
           /\ \A t \in Tab : refresh[t].at = "sent" =>
                 refresh[t] \in [at : {"sent"}, boot : BOOLEAN, token : 0..issued]
           /\ \A t \in Tab : refresh[t].at = "verified" =>
                 refresh[t] \in [at : {"verified"}, boot : BOOLEAN, token : 1..issued]
           /\ \A t \in Tab : refresh[t].at = "answered" =>
                 /\ refresh[t].token \in 0..issued
                 /\ \/ refresh[t].ok = TRUE /\ refresh[t].token # 0
                    \/ refresh[t].ok = FALSE /\ refresh[t].token = 0
           /\ \A t \in Tab : refresh[t].at = "idle" <=> refresh[t] = Tokens!Idle
           /\ \A c \in Call : call[c].at # "idle" =>
                 call[c] \in [at : {"sent", "ok", "401", "waiting", "woken"}, tab : Tab,
                              kind : {"api", "logout"}, token : 0..issued, retry : BOOLEAN]
           /\ \A c \in Call : call[c].at = "idle" <=> call[c] = Tokens!Idle
<1>1. ASSUME NEW h \in RefreshStates(issued)
      PROVE  /\ h.at # "idle" => h.boot \in BOOLEAN
             /\ h.at = "sent" => h \in [at : {"sent"}, boot : BOOLEAN, token : 0..issued]
             /\ h.at = "verified" => h \in [at : {"verified"}, boot : BOOLEAN, token : 1..issued]
             /\ h.at = "answered" => /\ h.token \in 0..issued
                                     /\ \/ h.ok = TRUE /\ h.token # 0
                                        \/ h.ok = FALSE /\ h.token = 0
             /\ h.at = "idle" <=> h = Tokens!Idle
  <2>1. CASE h = Tokens!Idle
    BY <2>1 DEF Tokens!Idle
  <2>2. CASE h \in [at : {"sent"}, boot : BOOLEAN, token : 0..issued]
    BY <2>2 DEF Tokens!Idle
  <2>3. CASE h \in [at : {"verified"}, boot : BOOLEAN, token : 1..issued]
    BY <2>3 DEF Tokens!Idle
  <2>4. CASE h \in [at : {"answered"}, boot : BOOLEAN, ok : {TRUE}, token : 1..issued,
                 cookie : BOOLEAN]
    <3>1. h.token \in 1..issued /\ h.token # 0 /\ h.token \in 0..issued
      BY <2>4, TokenAssumption DEF TokensTyped, Tokens!TypeOK
    <3>2. h.at \in {"answered"} /\ h.boot \in BOOLEAN /\ h.ok \in {TRUE}
      BY <2>4
    <3>3. h.ok = TRUE /\ h.at = "answered"
      BY <3>2, Zenon
    <3>4. h # Tokens!Idle
      BY <3>3, SMT DEF Tokens!Idle
    <3>5. QED
      BY <3>1, <3>2, <3>3, <3>4
  <2>5. CASE h \in [at : {"answered"}, boot : BOOLEAN, ok : {FALSE}, token : {0},
                 cookie : BOOLEAN]
    <3>1. h.token = 0 /\ h.token \in 0..issued
      BY <2>5, TokenAssumption DEF TokensTyped, Tokens!TypeOK
    <3>2. h.at \in {"answered"} /\ h.boot \in BOOLEAN /\ h.ok \in {FALSE}
      BY <2>5
    <3>3. h.ok = FALSE /\ h.at = "answered"
      BY <3>2, Zenon
    <3>4. h # Tokens!Idle
      BY <3>3, SMT DEF Tokens!Idle
    <3>5. QED
      BY <3>1, <3>2, <3>3, <3>4
  <2>6. QED
    BY <2>1, <2>2, <2>3, <2>4, <2>5 DEF RefreshStates
<1>2. ASSUME NEW h \in CallStates(issued)
      PROVE  /\ h.at # "idle" =>
                   h \in [at : {"sent", "ok", "401", "waiting", "woken"}, tab : Tab,
                          kind : {"api", "logout"}, token : 0..issued, retry : BOOLEAN]
             /\ h.at = "idle" <=> h = Tokens!Idle
  BY DEF CallStates, Tokens!Idle
<1>3. QED
  BY <1>1, <1>2 DEF TokensTyped

\* The answers of the server, and a request that has been lost.
LEMMA AnswersTyped ==
    ASSUME NEW n \in Nat, NEW t \in Tab, refresh[t].boot \in BOOLEAN
    PROVE  /\ Tokens!Answer(refresh[t], FALSE, 0) \in RefreshStates(n)
           /\ \A k \in 1..n : Tokens!Answer(refresh[t], TRUE, k) \in RefreshStates(n)
BY DEF Tokens!Answer, RefreshStates

LEMMA IssuedIsNat == Tokens!TypeOK => issued \in Nat
BY TokenAssumption DEF Tokens!TypeOK

\* Pages, refreshes and the passing of time keep the forms.
LEMMA TabsTyped ==
    ASSUME TokensTyped, NEW t \in Tab,
           \/ Tokens!CheckAuth(t) \/ Tokens!Login(t) \/ Tokens!RefreshProgress(t)
           \/ Tokens!LoseRefresh(t)
    PROVE  TokensTyped'
<1> USE TokenAssumption DEF Tokens!TypeOK, Tokens!GoRefresh, Tokens!SignIn, Tokens!SignOut,
        Tokens!serverVars, Tokens!tabVars
<1>0. Tokens!TypeOK
  BY DEF TokensTyped
<1>1. CASE Tokens!CheckAuth(t)
  <2>1. [at |-> "sent", boot |-> TRUE, token |-> jar] \in RefreshStates(issued)
    BY <1>0 DEF RefreshStates
  <2>2. Tokens!TypeOK'
    BY <1>0, <1>1 DEF Tokens!CheckAuth
  <2>3. QED
    BY <1>0, <1>1, <2>1, <2>2, FormsKept DEF Tokens!CheckAuth, Tokens!PostRefresh, TokensTyped
<1>2. CASE Tokens!Login(t)
  <2>1. Tokens!TypeOK'
    BY <1>0, <1>2 DEF Tokens!Login
  <2>2. QED
    BY <1>0, <1>2, <2>1, FormsKept DEF Tokens!Login, TokensTyped
<1>3. CASE Tokens!VerifyRefresh(t)
  <2>1. refresh[t] \in [at : {"sent"}, boot : BOOLEAN, token : 0..issued]
    BY <1>3, Forms DEF Tokens!VerifyRefresh, Tokens!IsJtiRevoked
  <2>2. Tokens!Answer(refresh[t], FALSE, 0) \in RefreshStates(issued)
    <3>1. refresh[t].boot \in BOOLEAN /\ issued \in Nat
      BY <1>0, <2>1, IssuedIsNat
    <3>2. QED
      BY <3>1, AnswersTyped
  <2>3. refresh[t].token # 0 => [refresh[t] EXCEPT !.at = "verified"] \in RefreshStates(issued)
    <3>1. ASSUME refresh[t].token # 0
          PROVE  [refresh[t] EXCEPT !.at = "verified"]
                   \in [at : {"verified"}, boot : BOOLEAN, token : 1..issued]
      BY <1>0, <2>1, <3>1, IssuedIsNat
    <3>2. QED
      BY <3>1 DEF RefreshStates
  <2>4. Tokens!TypeOK'
    BY <1>0, <1>3 DEF Tokens!VerifyRefresh, Tokens!IsJtiRevoked
  <2>5. QED
    BY <1>0, <1>3, <2>2, <2>3, <2>4, FormsKept DEF Tokens!VerifyRefresh, Tokens!IsJtiRevoked, TokensTyped
<1>4. CASE Tokens!Rotate(t)
  <2>1. refresh[t] \in [at : {"verified"}, boot : BOOLEAN, token : 1..issued]
    BY <1>4, Forms DEF Tokens!Rotate, Tokens!RevokeJti
  <2>2. Tokens!TypeOK'
    BY <1>0, <1>4, <2>1 DEF Tokens!Rotate, Tokens!RevokeJti
  <2>3. Tokens!Answer(refresh[t], TRUE, issued') \in RefreshStates(issued')
    <3>1. refresh[t].boot \in BOOLEAN /\ issued' \in Nat /\ issued' \in 1..issued'
      BY <1>0, <1>4, <2>1, IssuedIsNat DEF Tokens!Rotate, Tokens!RevokeJti
    <3>2. QED
      BY <3>1, AnswersTyped
  <2>4. issued' \in Nat /\ issued <= issued' /\ UNCHANGED call
    BY <1>0, <1>4, IssuedIsNat DEF Tokens!Rotate, Tokens!RevokeJti
  <2>5. QED
    BY <1>4, <2>2, <2>3, <2>4, FormsKept DEF Tokens!Rotate, Tokens!RevokeJti, TokensTyped
<1>5. CASE Tokens!ReceiveRefresh(t)
  <2>1. refresh[t].token \in 0..issued
    BY <1>5, Forms DEF Tokens!ReceiveRefresh
  <2>2. Tokens!TypeOK'
    BY <1>0, <1>5, <2>1 DEF Tokens!ReceiveRefresh
  <2>3. refresh' \in [Tab -> RefreshStates(issued')]
    BY <1>5 DEF Tokens!ReceiveRefresh, TokensTyped, RefreshStates
  <2>4. call' \in [Call -> CallStates(issued')]
    <3>1. CASE UNCHANGED call
      BY <1>5, <3>1 DEF Tokens!ReceiveRefresh, TokensTyped
    <3>2. CASE Tokens!WakeWaiting(t, refresh[t].token)
      <4>1. \A c \in Call : call[c].at = "waiting" =>
              [call[c] EXCEPT !.at = "woken", !.token = refresh[t].token] \in CallStates(issued)
        <5> SUFFICES ASSUME NEW c \in Call, call[c].at = "waiting"
                     PROVE  [call[c] EXCEPT !.at = "woken", !.token = refresh[t].token]
                              \in CallStates(issued)
          OBVIOUS
        <5>1. call[c] \in [at : {"sent", "ok", "401", "waiting", "woken"}, tab : Tab,
                           kind : {"api", "logout"}, token : 0..issued, retry : BOOLEAN]
          BY Forms
        <5>2. [call[c] EXCEPT !.at = "woken", !.token = refresh[t].token]
                \in [at : {"sent", "ok", "401", "waiting", "woken"}, tab : Tab,
                     kind : {"api", "logout"}, token : 0..issued, retry : BOOLEAN]
          BY <2>1, <5>1
        <5>3. QED
          BY <5>2 DEF CallStates
      <4>2. QED
        BY <1>5, <3>2, <4>1 DEF Tokens!ReceiveRefresh, Tokens!WakeWaiting, TokensTyped
    <3>3. QED
      BY <1>5, <3>1, <3>2 DEF Tokens!ReceiveRefresh
  <2>5. QED
    BY <2>2, <2>3, <2>4 DEF TokensTyped
<1>6. CASE Tokens!LoseRefresh(t)
  <2>1. Tokens!Answer(refresh[t], FALSE, 0) \in RefreshStates(issued)
    <3>1. refresh[t].boot \in BOOLEAN /\ issued \in Nat
      BY <1>0, <1>6, Forms, IssuedIsNat DEF Tokens!LoseRefresh
    <3>2. QED
      BY <3>1, AnswersTyped
  <2>2. Tokens!TypeOK'
    BY <1>0, <1>6 DEF Tokens!LoseRefresh
  <2>3. QED
    BY <1>0, <1>6, <2>1, <2>2, FormsKept DEF Tokens!LoseRefresh, TokensTyped
<1>7. QED
  BY <1>1, <1>2, <1>3, <1>4, <1>5, <1>6 DEF Tokens!RefreshProgress

\* So do the calls.
LEMMA CallsTyped ==
    ASSUME TokensTyped, NEW c \in Call, Tokens!CallProgress(c) \/ Tokens!LoseCall(c)
    PROVE  TokensTyped'
<1> USE TokenAssumption DEF Tokens!TypeOK, Tokens!GoCall, Tokens!SignIn, Tokens!SignOut,
        Tokens!serverVars, Tokens!tabVars
<1> DEFINE h == call[c]
<1>0. Tokens!TypeOK
  BY DEF TokensTyped
<1>1. /\ call[c].at # "idle" /\ UNCHANGED issued
      /\ h \in [at : {"sent", "ok", "401", "waiting", "woken"}, tab : Tab,
                kind : {"api", "logout"}, token : 0..issued, retry : BOOLEAN]
  <2>1. call[c].at # "idle" /\ UNCHANGED issued
    BY DEF Tokens!CallProgress, Tokens!Serve, Tokens!ReceiveOK, Tokens!Receive401,
       Tokens!Receive401Again, Tokens!Retry, Tokens!GiveUp, Tokens!LoseCall, Tokens!Fail
  <2>2. QED
    BY <2>1, Forms
<1>2. Tokens!Idle \in CallStates(issued)
  BY DEF CallStates
<1>3. \A at \in {"ok", "401", "waiting"} : [h EXCEPT !.at = at] \in CallStates(issued)
  BY <1>1 DEF CallStates
<1>4. [h EXCEPT !.at = "sent", !.retry = TRUE] \in CallStates(issued)
  BY <1>1 DEF CallStates
<1> HIDE DEF h
<1>5. CASE Tokens!Serve(c)
  <2>1. Tokens!TypeOK'
    BY <1>0, <1>1, <1>5 DEF Tokens!Serve, Tokens!Accepted, Tokens!RevokeJti,
       Tokens!IsJtiRevoked, h
  <2>2. QED
    BY <1>0, <1>1, <1>3, <1>5, <2>1, FormsKept DEF Tokens!Serve, TokensTyped, h
<1>6. CASE Tokens!ReceiveOK(c) \/ Tokens!GiveUp(c) \/ Tokens!Receive401Again(c)
           \/ Tokens!LoseCall(c)
  <2>1. Tokens!TypeOK'
    <3>1. h.tab \in Tab
      BY <1>1
    <3>2. losses' \in 0..MaxLosses
      BY <1>0, <1>6 DEF Tokens!ReceiveOK, Tokens!GiveUp, Tokens!Receive401Again,
         Tokens!LoseCall, Tokens!Fail
    <3>3. /\ jar' \in 0..issued /\ accessToken' \in [Tab -> 0..issued] /\ authUser' \subseteq Tab
          /\ loggedIn' \in BOOLEAN /\ UNCHANGED <<expired, revokedAccess, revokedRefresh>>
      <4>1. 0 \in 0..issued
        BY <1>0
      <4>2. CASE Tokens!ReceiveOK(c)
        BY <1>0, <4>1, <4>2, <3>1 DEF Tokens!ReceiveOK, h
      <4>3. CASE Tokens!GiveUp(c)
        BY <1>0, <4>1, <4>3, <3>1 DEF Tokens!GiveUp, h
      <4>4. CASE Tokens!Fail(c)
        BY <1>0, <4>1, <4>4, <3>1 DEF Tokens!Fail, h
      <4>5. QED
        BY <1>6, <4>2, <4>3, <4>4 DEF Tokens!Receive401Again, Tokens!LoseCall
    <3>4. QED
      BY <1>0, <1>1, <3>2, <3>3
  <2>2. UNCHANGED refresh /\ call' = [call EXCEPT ![c] = Tokens!Idle]
    BY <1>6 DEF Tokens!ReceiveOK, Tokens!GiveUp, Tokens!Receive401Again, Tokens!LoseCall, Tokens!Fail
  <2>3. QED
    BY <1>0, <1>1, <1>2, <2>1, <2>2, FormsKept DEF TokensTyped
<1>7. CASE Tokens!Receive401(c)
  <2>1. Tokens!TypeOK'
    BY <1>0, <1>7 DEF Tokens!Receive401
  <2>2. [at |-> "sent", boot |-> FALSE, token |-> jar] \in RefreshStates(issued)
    BY <1>0 DEF RefreshStates
  <2>3. QED
    BY <1>0, <1>1, <1>3, <1>7, <2>1, <2>2, FormsKept
       DEF Tokens!Receive401, Tokens!PostRefresh, Tokens!GoRefresh, TokensTyped, h
<1>8. CASE Tokens!Retry(c)
  <2>1. Tokens!TypeOK'
    BY <1>0, <1>1, <1>8 DEF Tokens!Retry, h
  <2>2. QED
    BY <1>0, <1>1, <1>4, <1>8, <2>1, FormsKept DEF Tokens!Retry, TokensTyped, h
<1>9. QED
  BY <1>5, <1>6, <1>7, <1>8 DEF Tokens!CallProgress

\* Requests keep their form, and name tokens that were issued.
LEMMA TokensNextTyped ==
    ASSUME TokensTyped, Tokens!Next
    PROVE  TokensTyped'
<1>1. ASSUME NEW t \in Tab, NEW c \in Call, NEW kind \in {"api", "logout"}, Tokens!Send(c, t, kind)
      PROVE  TokensTyped'
  <2>1. [at |-> "sent", tab |-> t, kind |-> kind, token |-> accessToken[t], retry |-> FALSE]
          \in CallStates(issued)
    BY DEF CallStates, TokensTyped, Tokens!TypeOK
  <2>2. Tokens!TypeOK' /\ issued \in Nat
    BY <1>1, TokenAssumption DEF TokensTyped, Tokens!TypeOK, Tokens!Send, Tokens!serverVars, Tokens!tabVars
  <2>3. QED
    BY <1>1, <2>1, <2>2, FormsKept
       DEF Tokens!Send, Tokens!GoCall, TokensTyped, Tokens!serverVars, Tokens!tabVars
<1>2. ASSUME NEW k \in 1..MaxTokens, Tokens!ExpireAccess(k) PROVE TokensTyped'
  BY <1>2 DEF TokensTyped, Tokens!TypeOK, Tokens!ExpireAccess, Tokens!tabVars
<1>3. QED
  BY <1>1, <1>2, TabsTyped, CallsTyped DEF Tokens!Next

\* A step that a lone tab takes keeps it signed in or out as its user is.
LEMMA LoneTabNext ==
    ASSUME OneTab, TokensTyped, LoneTab, Tokens!ObservedNext
    PROVE  LoneTab'
<1> SUFFICES ASSUME ~disturbed', losses' = 0, NEW t \in Tab
             PROVE  IF loggedIn' THEN SignedIn(t)' ELSE SignedOut(t)'
  BY DEF LoneTab
<1>1. Tokens!Next /\ ~disturbed /\ ~Tokens!Disturbed
  BY DEF Tokens!ObservedNext
<1>2. /\ losses \in Nat /\ issued \in Nat /\ jar \in 0..issued /\ loggedIn \in BOOLEAN
      /\ revokedRefresh \subseteq 1..issued /\ authUser \subseteq Tab
      /\ refresh = [s \in Tab |-> refresh[s]] /\ call = [c \in Call |-> call[c]]
  BY TokenAssumption DEF TokensTyped, Tokens!TypeOK
<1>3. \A s \in Tab : s = t
  BY DEF OneTab
<1>4. losses = 0 => IF loggedIn THEN SignedIn(t) ELSE SignedOut(t)
  BY <1>1 DEF LoneTab
<1> USE DEF SignedIn, SignedOut, Tokens!GoRefresh, Tokens!GoCall, Tokens!SignIn, Tokens!SignOut,
        Tokens!serverVars, Tokens!tabVars, Tokens!Idle
<1>5. CASE Tokens!CheckAuth(t)
  <2>1. \A c \in Call : call[c] = Tokens!Idle
    BY <1>3, <1>5, Forms DEF Tokens!CheckAuth, Tokens!CallsOf
  <2>2. QED
    BY <1>2, <1>3, <1>4, <1>5, <2>1 DEF Tokens!CheckAuth, Tokens!PostRefresh
<1>6. CASE Tokens!Login(t)
  <2>1. ~loggedIn /\ loggedIn' /\ jar' = issued + 1 /\ t \in authUser'
        /\ UNCHANGED <<refresh, call, revokedRefresh>>
    BY <1>2, <1>4, <1>6 DEF Tokens!Login
  <2>2. refresh'[t] = Tokens!Idle /\ \A c \in Call : call'[c] = Tokens!Idle
    BY <1>1, <2>1 DEF Tokens!Disturbed, Tokens!Busy
  <2>3. jar' # 0 /\ jar' \notin revokedRefresh
    BY <1>2, <2>1
  <2>4. QED
    BY <2>1, <2>2, <2>3
<1>7. CASE Tokens!VerifyRefresh(t)
  <2>1. refresh[t] \in [at : {"sent"}, boot : BOOLEAN, token : 0..issued]
    BY <1>7, Forms DEF Tokens!VerifyRefresh, Tokens!IsJtiRevoked
  <2>2. QED
    BY <1>2, <1>4, <1>7, <2>1 DEF Tokens!VerifyRefresh, Tokens!IsJtiRevoked, Tokens!Answer
<1>8. CASE Tokens!Rotate(t)
  <2>1. refresh[t] \in [at : {"verified"}, boot : BOOLEAN, token : 1..issued]
    BY <1>8, Forms DEF Tokens!Rotate, Tokens!RevokeJti
  <2>2. issued + 1 \notin revokedRefresh \cup {refresh[t].token}
    BY <1>2, <2>1
  <2>3. QED
    BY <1>2, <1>4, <1>8, <2>1, <2>2 DEF Tokens!Rotate, Tokens!RevokeJti, Tokens!Answer
<1>9. CASE Tokens!ReceiveRefresh(t)
  <2>1. \/ refresh[t].ok = TRUE /\ refresh[t].token # 0
        \/ refresh[t].ok = FALSE /\ refresh[t].token = 0
    BY <1>9, Forms DEF Tokens!ReceiveRefresh
  <2>2. refresh[t].boot \in BOOLEAN /\ refresh[t] # Tokens!Idle
    BY <1>9, Forms DEF Tokens!ReceiveRefresh
  <2>3. CASE refresh[t].boot
    BY <1>2, <1>3, <1>4, <1>9, <2>1, <2>2, <2>3 DEF Tokens!ReceiveRefresh
  <2>4. CASE ~refresh[t].boot
    <3>1. loggedIn /\ refresh[t].ok = TRUE
      BY <1>2, <1>4, <1>9, <2>1, <2>2, <2>4 DEF Tokens!ReceiveRefresh
    <3>2. \A c \in Call : call'[c].at = "woken" => call'[c].token # 0
      <4>1. ASSUME NEW c \in Call
            PROVE  \/ call'[c] = [call[c] EXCEPT !.at = "woken", !.token = refresh[t].token]
                   \/ call'[c] = call[c]
        BY <1>9, <2>4 DEF Tokens!ReceiveRefresh, Tokens!WakeWaiting
      <4>2. \A c \in Call : call[c].at = "woken" => call[c].token # 0
        BY <1>4, <1>9, <3>1 DEF Tokens!ReceiveRefresh
      <4>3. ASSUME NEW c \in Call, call[c].at # "idle"
            PROVE  [call[c] EXCEPT !.at = "woken", !.token = refresh[t].token].token # 0
        <5>1. call[c] \in [at : {"sent", "ok", "401", "waiting", "woken"}, tab : Tab,
                           kind : {"api", "logout"}, token : 0..issued, retry : BOOLEAN]
          BY <4>3, Forms
        <5>2. refresh[t].token # 0
          BY <2>1, <3>1
        <5>3. QED
          BY <5>1, <5>2
      <4>4. ASSUME NEW c \in Call, call[c].at = "idle"
            PROVE  call'[c] = call[c]
        BY <1>2, <1>9, <2>4, <4>4, Forms
           DEF Tokens!ReceiveRefresh, Tokens!WakeWaiting, Tokens!CallsOf
      <4>5. QED
        BY <4>1, <4>2, <4>3, <4>4
    <3>3. QED
      BY <1>2, <1>4, <1>9, <2>1, <2>4, <3>1, <3>2 DEF Tokens!ReceiveRefresh
  <2>5. QED
    BY <2>2, <2>3, <2>4
<1>10. CASE Tokens!LoseRefresh(t)
  BY <1>2, <1>10 DEF Tokens!LoseRefresh
<1>11. ASSUME NEW c \in Call, NEW kind, Tokens!Send(c, t, kind)
       PROVE  IF loggedIn' THEN SignedIn(t)' ELSE SignedOut(t)'
  BY <1>2, <1>4, <1>11 DEF Tokens!Send
<1>12. ASSUME NEW c \in Call, Tokens!Serve(c)
       PROVE  IF loggedIn' THEN SignedIn(t)' ELSE SignedOut(t)'
  BY <1>2, <1>4, <1>12 DEF Tokens!Serve
<1>13. ASSUME NEW c \in Call, Tokens!ReceiveOK(c)
       PROVE  IF loggedIn' THEN SignedIn(t)' ELSE SignedOut(t)'
  <2>1. loggedIn /\ losses = 0 /\ call[c] # Tokens!Idle
    BY <1>2, <1>4, <1>13 DEF Tokens!ReceiveOK
  <2>2. CASE call[c].kind = "logout"
    <3>1. refresh'[t] = Tokens!Idle /\ \A d \in Call : call'[d] = Tokens!Idle
      BY <1>1, <1>13, <2>1, <2>2 DEF Tokens!ReceiveOK, Tokens!Disturbed, Tokens!Busy
    <3>2. call[c].tab = t
      BY <1>3, <2>1, Forms
    <3>3. QED
      BY <1>2, <1>3, <1>13, <2>2, <3>1, <3>2 DEF Tokens!ReceiveOK
  <2>3. CASE call[c].kind # "logout"
    BY <1>2, <1>4, <1>13, <2>1, <2>3 DEF Tokens!ReceiveOK
  <2>4. QED
    BY <2>2, <2>3
<1>14. ASSUME NEW c \in Call, Tokens!Receive401(c)
       PROVE  IF loggedIn' THEN SignedIn(t)' ELSE SignedOut(t)'
  <2>1. loggedIn /\ losses = 0 /\ call[c].tab = t
    BY <1>2, <1>3, <1>4, <1>14, Forms DEF Tokens!Receive401
  <2>2. QED
    BY <1>2, <1>4, <1>14, <2>1 DEF Tokens!Receive401, Tokens!PostRefresh
<1>15. ASSUME NEW c \in Call, Tokens!Receive401Again(c)
       PROVE  IF loggedIn' THEN SignedIn(t)' ELSE SignedOut(t)'
  <2>1. loggedIn /\ losses = 0
    BY <1>2, <1>4, <1>15 DEF Tokens!Receive401Again
  <2>2. CASE call[c].kind = "logout"
    <3>1. ~Tokens!LogoutSucceeds
      BY <1>2, <1>15 DEF Tokens!LogoutSucceeds, Tokens!Receive401Again, Tokens!Fail
    <3>2. loggedIn' = FALSE
      BY <1>15, <2>2 DEF Tokens!Receive401Again, Tokens!Fail
    <3>3. QED
      BY <1>1, <2>1, <3>1, <3>2 DEF Tokens!Disturbed
  <2>3. CASE call[c].kind # "logout"
    BY <1>2, <1>4, <1>15, <2>1, <2>3 DEF Tokens!Receive401Again, Tokens!Fail
  <2>4. QED
    BY <2>2, <2>3
<1>16. ASSUME NEW c \in Call, Tokens!Retry(c)
       PROVE  IF loggedIn' THEN SignedIn(t)' ELSE SignedOut(t)'
  BY <1>2, <1>4, <1>16 DEF Tokens!Retry
<1>17. ASSUME NEW c \in Call, Tokens!GiveUp(c)
       PROVE  IF loggedIn' THEN SignedIn(t)' ELSE SignedOut(t)'
  BY <1>2, <1>4, <1>17 DEF Tokens!GiveUp
<1>18. ASSUME NEW c \in Call, Tokens!LoseCall(c)
       PROVE  FALSE
  BY <1>2, <1>18 DEF Tokens!LoseCall
<1>19. ASSUME NEW k \in 1..MaxTokens, Tokens!ExpireAccess(k)
       PROVE  IF loggedIn' THEN SignedIn(t)' ELSE SignedOut(t)'
  BY <1>2, <1>4, <1>19 DEF Tokens!ExpireAccess
<1>20. QED
  BY <1>1, <1>3, <1>5, <1>6, <1>7, <1>8, <1>9, <1>10, <1>11, <1>12, <1>13, <1>14, <1>15,
     <1>16, <1>17, <1>18, <1>19
     DEF Tokens!Next, Tokens!RefreshProgress, Tokens!CallProgress

\* For any number of calls, expiries, rotations and reloads: a browser with one tab
\* is signed out by a failing refresh only when its session is over, and stays signed
\* out once its user has logged out, unless a login or logout meets another request.
THEOREM LoneTabAlwaysRight ==
    ASSUME OneTab
    PROVE  TabSpec => []LoneTabIsRight
<1>1. TabInit => TokensTyped /\ LoneTab
  <2> SUFFICES ASSUME TabInit PROVE TokensTyped /\ LoneTab
    OBVIOUS
  <2>1. Tokens!Init /\ disturbed = FALSE
    BY DEF TabInit, Tokens!ObservedInit
  <2>2. Tokens!TypeOK
    <3>1. 0 \in 0..MaxTokens /\ 0 \in 0..0 /\ 0 \in 0..MaxLosses
      BY TokenAssumption
    <3>2. QED
      BY <2>1, <3>1 DEF Tokens!Init, Tokens!TypeOK
  <2>3. refresh \in [Tab -> RefreshStates(issued)] /\ call \in [Call -> CallStates(issued)]
    BY <2>1 DEF Tokens!Init, RefreshStates, CallStates
  <2>4. LoneTab
    BY <2>1 DEF Tokens!Init, LoneTab, SignedOut
  <2>5. QED
    BY <2>2, <2>3, <2>4 DEF TokensTyped
<1>2. TokensTyped /\ LoneTab /\ [TokenStep \/ SocketStep]_tabVars => (TokensTyped /\ LoneTab)'
  <2> SUFFICES ASSUME TokensTyped, LoneTab, [TokenStep \/ SocketStep]_tabVars
               PROVE  (TokensTyped /\ LoneTab)'
    OBVIOUS
  <2>1. CASE Tokens!ObservedNext
    BY <2>1, TokensNextTyped, LoneTabNext DEF Tokens!ObservedNext
  <2>2. CASE UNCHANGED tokenVars
    BY <2>2 DEF tokenVars, TokensTyped, LoneTab, SignedIn, SignedOut, Tokens!TypeOK
  <2>3. QED
    BY <2>1, <2>2 DEF TokenStep, SocketStep, tabVars
<1>3. TokensTyped /\ LoneTab => LoneTabIsRight
  <2> SUFFICES ASSUME TokensTyped, LoneTab PROVE LoneTabIsRight
    OBVIOUS
  <2>1. Tokens!LoneTabStaysIn
    BY DEF LoneTab, SignedIn, Tokens!LoneTabStaysIn, Tokens!FailedRefreshes
  <2>2. Tokens!LoneTabStaysOut
    BY DEF TokensTyped, Tokens!TypeOK, LoneTab, SignedOut, Tokens!LoneTabStaysOut
  <2>3. QED
    BY <2>1, <2>2 DEF TokensTyped, LoneTabIsRight
<1>4. QED
  BY <1>1, <1>2, <1>3, PTL DEF TabSpec

-----------------------------------------------------------------------------
(* The socket of a tab. *)

SocketState == {"none", "down", "dialing", "accepted", "refused", "error", "connected", "off"}

SocketsTyped ==
    /\ holder \in Seq(Account) /\ dead \subseteq 1..Len(holder)
    /\ tabJar \in Sockets!Anybody /\ tabUser \in Sockets!Anybody
    /\ tabToken \in 0..Len(holder)
    /\ tabRefresh \in [at : {"idle", "sent", "answered"}, token : 0..Len(holder)]
    /\ logout \in [at : {"idle", "sent"}, token : 0..Len(holder)]
    /\ socket \in [at : SocketState, auth : 0..Len(holder), sent : 0..Len(holder),
                   user : Sockets!Anybody]
    /\ drops \in 0..MaxDrops /\ tabFaults \in 0..MaxTabFaults

\* Everything a signed-in tab holds, and all that is on its way to it, is its user's.
OwnSocket ==
    /\ tabJar \in {NoUser, tabUser}
    /\ tabToken # 0 /\ holder[tabToken] = tabUser
    /\ tabRefresh.at = "answered" /\ tabRefresh.token # 0 => holder[tabRefresh.token] = tabUser
    /\ socket # Sockets!NoSocket => socket.auth = tabToken
    /\ socket.sent # 0 => holder[socket.sent] = tabUser
    /\ socket.at \in {"accepted", "connected"} => socket.user = tabUser

SocketInStep ==
    ~left /\ ~mixed =>
        IF tabUser = NoUser THEN socket.at \in {"none", "off"} /\ tabRefresh.at = "idle"
                            ELSE OwnSocket

\* A token that is issued is the last one, and leaves the others whose they were.
LEMMA IssueAppends ==
    ASSUME holder \in Seq(Account), NEW u \in Account, Sockets!Issue(u)
    PROVE  /\ holder' \in Seq(Account) /\ Len(holder) \in Nat /\ Len(holder') = Len(holder) + 1
           /\ holder'[Len(holder')] = u
           /\ \A k \in 1..Len(holder) : holder'[k] = holder[k]
           /\ UNCHANGED dead
BY AppendProperties, LenProperties DEF Sockets!Issue

LEMMA HolderIsSeq ==
    ASSUME SocketsTyped
    PROVE  /\ Len(holder) \in Nat /\ Sockets!Issued = 1..Len(holder)
           /\ \A k \in 1..Len(holder) : holder[k] \in Account
BY LenProperties, ElementOfSeq DEF SocketsTyped, Sockets!Issued

\* What a step does to the socket, to the refresh and to the logout.
LEMMA SocketsShaped ==
    ASSUME SocketsTyped, Sockets!Next
    PROVE  /\ Len(holder) \in Nat /\ Len(holder') \in Nat /\ Len(holder) <= Len(holder')
           /\ holder' \in Seq(Account) /\ dead' \subseteq 1..Len(holder')
<1> USE HolderIsSeq DEF Sockets!tokens
<1>1. ASSUME NEW u \in Account, Sockets!Issue(u)
      PROVE  /\ Len(holder) \in Nat /\ Len(holder') \in Nat /\ Len(holder) <= Len(holder')
             /\ holder' \in Seq(Account) /\ dead' \subseteq 1..Len(holder')
  <2>1. holder \in Seq(Account) /\ dead \subseteq 1..Len(holder)
    BY DEF SocketsTyped
  <2>2. /\ holder' \in Seq(Account) /\ Len(holder) \in Nat /\ Len(holder') = Len(holder) + 1
        /\ dead' = dead
    BY <1>1, <2>1, IssueAppends
  <2>3. QED
    BY <2>1, <2>2
<1>2. ASSUME UNCHANGED holder, dead' \subseteq dead \cup Sockets!Issued
      PROVE  /\ Len(holder) \in Nat /\ Len(holder') \in Nat /\ Len(holder) <= Len(holder')
             /\ holder' \in Seq(Account) /\ dead' \subseteq 1..Len(holder')
  BY <1>2 DEF SocketsTyped
<1>3. tabJar = NoUser \/ tabJar \in Account
  BY DEF SocketsTyped, Sockets!Anybody
<1>4. ASSUME NEW u \in Account, Sockets!Login(u) PROVE Sockets!Issue(u)
  BY <1>4 DEF Sockets!Login
<1>5. CASE Sockets!Reload \/ Sockets!ServeRefresh
  BY <1>1, <1>2, <1>3, <1>5 DEF Sockets!Reload, Sockets!ServeRefresh
<1>6. CASE Sockets!BeginLogout \/ Sockets!ExpireCookie \/ Sockets!BeginRefresh
           \/ Sockets!LoseRefresh \/ Sockets!ReceiveRefresh
  BY <1>2, <1>6 DEF Sockets!BeginLogout, Sockets!ExpireCookie, Sockets!BeginRefresh,
     Sockets!LoseRefresh, Sockets!ReceiveRefresh
<1>7. CASE Sockets!EndLogout
  BY <1>2, <1>7 DEF Sockets!EndLogout, Sockets!Accepted
<1>8. ASSUME NEW k \in Sockets!Issued, Sockets!ExpireAccess(k)
      PROVE  UNCHANGED holder /\ dead' \subseteq dead \cup Sockets!Issued
  BY <1>8 DEF Sockets!ExpireAccess
<1>9. CASE Sockets!SocketProgress \/ Sockets!HandshakeError \/ Sockets!Drop
  BY <1>2, <1>9 DEF Sockets!SocketProgress, Sockets!Dial, Sockets!Connected, Sockets!ConnectError,
     Sockets!Handshake, Sockets!HandshakeError, Sockets!Drop
<1>10. QED
  BY <1>1, <1>2, <1>4, <1>5, <1>6, <1>7, <1>8, <1>9 DEF Sockets!Next

LEMMA SocketsNextTyped ==
    ASSUME SocketsTyped, Sockets!Next
    PROVE  SocketsTyped'
<1> DEFINE n == Len(holder')
<1> DEFINE Sock == [at : SocketState, auth : 0..n, sent : 0..n, user : Sockets!Anybody]
<1>1. /\ n \in Nat /\ holder' \in Seq(Account) /\ dead' \subseteq 1..n
      /\ 0 \in 0..n /\ 0..Len(holder) \subseteq 0..n
  BY SocketsShaped
<1>2. /\ tabJar \in Sockets!Anybody /\ tabUser \in Sockets!Anybody /\ NoUser \in Sockets!Anybody
      /\ tabToken \in 0..n
      /\ tabRefresh \in [at : {"idle", "sent", "answered"}, token : 0..n]
      /\ logout \in [at : {"idle", "sent"}, token : 0..n]
      /\ socket \in Sock
      /\ drops \in 0..MaxDrops /\ tabFaults \in 0..MaxTabFaults
  BY <1>1 DEF SocketsTyped, Sockets!Anybody
<1>3. Sockets!NoSocket \in Sock
  BY <1>1, <1>2 DEF Sockets!NoSocket, SocketState
<1>4. Sockets!Idle \in [at : {"idle", "sent", "answered"}, token : 0..n]
      /\ Sockets!Idle \in [at : {"idle", "sent"}, token : 0..n]
  BY <1>1 DEF Sockets!Idle
<1>5. /\ \A k \in 0..n : /\ [at |-> "down", auth |-> k, sent |-> 0, user |-> NoUser] \in Sock
                        /\ [socket EXCEPT !.auth = k] \in Sock
                        /\ [Sockets!NoSocket EXCEPT !.at = "down", !.auth = k] \in Sock
      /\ \A u \in Sockets!Anybody :
            /\ [socket EXCEPT !.at = "down", !.user = u] \in Sock
            /\ [socket EXCEPT !.at = "accepted", !.user = u] \in Sock
      /\ [socket EXCEPT !.at = "dialing", !.sent = socket.auth] \in Sock
      /\ [socket EXCEPT !.at = "refused"] \in Sock /\ [socket EXCEPT !.at = "error"] \in Sock
      /\ [socket EXCEPT !.at = "connected"] \in Sock /\ [socket EXCEPT !.at = "off"] \in Sock
  BY <1>1, <1>2 DEF Sockets!NoSocket, SocketState
<1>6. \A k \in 0..n :
        /\ [at |-> "sent", token |-> k] \in [at : {"idle", "sent", "answered"}, token : 0..n]
        /\ [at |-> "answered", token |-> k] \in [at : {"idle", "sent", "answered"}, token : 0..n]
        /\ [at |-> "sent", token |-> k] \in [at : {"idle", "sent"}, token : 0..n]
  OBVIOUS
<1>7. /\ tabRefresh.token \in 0..n /\ socket.auth \in 0..n
      /\ \A k \in 1..Len(holder) : holder[k] \in Sockets!Anybody
  BY <1>2, HolderIsSeq DEF Sockets!Anybody
<1>8. \A u \in Account : Sockets!Issue(u) => n \in 0..n /\ u \in Sockets!Anybody
  BY <1>1 DEF Sockets!Anybody
<1>9. tabJar = NoUser \/ tabJar \in Account
  BY DEF SocketsTyped, Sockets!Anybody
<1> HIDE DEF n, Sock
<1> DEFINE Typed == /\ tabJar' \in Sockets!Anybody /\ tabUser' \in Sockets!Anybody
                    /\ tabToken' \in 0..n
                    /\ tabRefresh' \in [at : {"idle", "sent", "answered"}, token : 0..n]
                    /\ logout' \in [at : {"idle", "sent"}, token : 0..n]
                    /\ socket' \in Sock
                    /\ drops' \in 0..MaxDrops /\ tabFaults' \in 0..MaxTabFaults
<1> SUFFICES Typed
  BY <1>1 DEF SocketsTyped, n, Sock
<1> USE DEF Sockets!SignOut, Sockets!tokens, Sockets!session, Sockets!bounds
<1>10. ASSUME NEW u \in Account, Sockets!Login(u) PROVE Typed
  BY <1>2, <1>5, <1>8, <1>10 DEF Sockets!Login, Sockets!ConnectSocket, n
<1>11. ASSUME NEW k \in Sockets!Issued, Sockets!ExpireAccess(k) PROVE Typed
  BY <1>2, <1>11 DEF Sockets!ExpireAccess
<1>12. CASE Sockets!Reload
  BY <1>1, <1>2, <1>3, <1>5, <1>8, <1>9, <1>12 DEF Sockets!Reload, n
<1>13. CASE Sockets!BeginLogout
  BY <1>2, <1>6, <1>13 DEF Sockets!BeginLogout
<1>14. CASE Sockets!ExpireCookie
  BY <1>2, <1>14 DEF Sockets!ExpireCookie
<1>15. CASE Sockets!BeginRefresh
  BY <1>1, <1>2, <1>6, <1>15 DEF Sockets!BeginRefresh
<1>16. CASE Sockets!EndLogout
  BY <1>1, <1>2, <1>4, <1>5, <1>16 DEF Sockets!EndLogout
<1>17. CASE Sockets!ServeRefresh
  BY <1>1, <1>2, <1>6, <1>8, <1>9, <1>17 DEF Sockets!ServeRefresh, n
<1>18. CASE Sockets!LoseRefresh
  <2>1. tabFaults' \in 0..MaxTabFaults
    BY <1>2, <1>18, TabAssumption DEF Sockets!LoseRefresh
  <2>2. QED
    BY <1>1, <1>2, <1>6, <1>18, <2>1 DEF Sockets!LoseRefresh
<1>19. CASE Sockets!ReceiveRefresh
  <2>1. /\ tabRefresh' = Sockets!Idle /\ tabToken' = tabRefresh.token
        /\ UNCHANGED <<logout, drops, tabFaults>>
        /\ socket' = Sockets!NoSocket \/ socket' = [socket EXCEPT !.auth = tabRefresh.token]
        /\ tabUser' = NoUser \/ tabUser' = tabUser
    BY <1>19 DEF Sockets!ReceiveRefresh, Sockets!SetAccessToken
  <2>2. tabJar' \in Sockets!Anybody
    <3>1. tabRefresh.token \in 0..Len(holder)
      BY DEF SocketsTyped
    <3>2. tabRefresh.token # 0 => tabRefresh.token \in 1..Len(holder)
      BY <3>1, HolderIsSeq
    <3>3. QED
      BY <1>2, <1>7, <1>19, <3>2 DEF Sockets!ReceiveRefresh
  <2>3. socket' \in Sock
    BY <1>2, <1>3, <1>5, <1>7, <2>1
  <2>4. QED
    BY <1>2, <1>4, <1>7, <2>1, <2>2, <2>3
<1>20. CASE Sockets!Dial
  BY <1>2, <1>5, <1>7, <1>20 DEF Sockets!Dial
<1>21. CASE Sockets!Handshake
  <2>1. Sockets!Accepted(socket.sent) => holder[socket.sent] \in Sockets!Anybody
    BY <1>7, HolderIsSeq DEF Sockets!Accepted
  <2>2. QED
    BY <1>2, <1>5, <1>21, <2>1 DEF Sockets!Handshake
<1>22. CASE Sockets!Connected
  BY <1>2, <1>5, <1>22 DEF Sockets!Connected
<1>23. CASE Sockets!ConnectError
  BY <1>1, <1>2, <1>3, <1>5, <1>23 DEF Sockets!ConnectError
<1>24. CASE Sockets!HandshakeError
  <2>1. tabFaults' \in 0..MaxTabFaults
    BY <1>2, <1>24, TabAssumption DEF Sockets!HandshakeError
  <2>2. QED
    BY <1>2, <1>5, <1>24, <2>1 DEF Sockets!HandshakeError
<1>25. CASE Sockets!Drop
  <2>1. drops' \in 0..MaxDrops
    BY <1>2, <1>25, TabAssumption DEF Sockets!Drop
  <2>2. QED
    BY <1>2, <1>5, <1>25, <2>1 DEF Sockets!Drop
<1>26. QED
  BY <1>10, <1>11, <1>12, <1>13, <1>14, <1>15, <1>16, <1>17, <1>18, <1>19, <1>20, <1>21, <1>22,
     <1>23, <1>24, <1>25 DEF Sockets!Next, Sockets!SocketProgress

LEMMA SocketsNextInStep ==
    ASSUME SocketsTyped, SocketInStep, Sockets!ObservedNext
    PROVE  SocketInStep'
<1> SUFFICES ASSUME ~left', ~mixed' PROVE SocketInStep'
  BY DEF SocketInStep
<1>0. /\ Sockets!Next /\ ~left /\ ~mixed /\ ~Sockets!Leaves
      /\ tabUser' # tabUser => tabRefresh' = Sockets!Idle
  BY DEF Sockets!ObservedNext
<1> USE TabAssumption, HolderIsSeq, <1>0
    DEF SocketsTyped, SocketInStep, OwnSocket, SocketState, Sockets!Anybody, Sockets!SignOut,
        Sockets!NoSocket, Sockets!Idle, Sockets!tokens, Sockets!session, Sockets!bounds
<1>1. ASSUME NEW u \in Account, Sockets!Login(u) PROVE SocketInStep'
  BY <1>1, IssueAppends DEF Sockets!Login, Sockets!ConnectSocket
<1>2. ASSUME NEW k \in Sockets!Issued, Sockets!ExpireAccess(k) PROVE SocketInStep'
  BY <1>2 DEF Sockets!ExpireAccess
<1>3. CASE Sockets!Reload
  <2>1. CASE tabJar = NoUser
    BY <1>3, <2>1 DEF Sockets!Reload
  <2>2. CASE tabJar # NoUser
    <3>1. tabJar \in Account /\ Sockets!Issue(tabJar)
      BY <1>3, <2>2 DEF Sockets!Reload
    <3>2. /\ Len(holder') # 0 /\ holder'[Len(holder')] = tabJar
      BY <3>1, IssueAppends
    <3>3. /\ tabUser' = tabJar /\ tabToken' = Len(holder') /\ tabJar' = tabJar
          /\ tabRefresh' = tabRefresh /\ tabRefresh.at = "idle"
          /\ socket'.auth = Len(holder') /\ socket'.sent = 0 /\ socket'.at = "down"
      BY <1>3, <2>2 DEF Sockets!Reload
    <3>4. QED
      BY <3>1, <3>2, <3>3
  <2>3. QED
    BY <2>1, <2>2
<1>4. CASE Sockets!BeginLogout \/ Sockets!ExpireCookie \/ Sockets!BeginRefresh
  BY <1>4 DEF Sockets!BeginLogout, Sockets!ExpireCookie, Sockets!BeginRefresh
<1>5. CASE Sockets!EndLogout
  BY <1>5 DEF Sockets!EndLogout, Sockets!Accepted, Sockets!Leaves
<1>6. CASE Sockets!ServeRefresh
  <2>1. CASE tabJar = NoUser
    BY <1>6, <2>1 DEF Sockets!ServeRefresh
  <2>2. CASE tabJar # NoUser
    BY <1>6, <2>2, IssueAppends DEF Sockets!ServeRefresh
  <2>3. QED
    BY <2>1, <2>2
<1>7. CASE Sockets!LoseRefresh
  BY <1>7 DEF Sockets!LoseRefresh
<1>8. CASE Sockets!ReceiveRefresh
  BY <1>8 DEF Sockets!ReceiveRefresh, Sockets!SetAccessToken, Sockets!Leaves
<1>9. CASE Sockets!Dial
  BY <1>9 DEF Sockets!Dial
<1>10. CASE Sockets!Connected
  BY <1>10 DEF Sockets!Connected
<1>11. CASE Sockets!ConnectError
  BY <1>11 DEF Sockets!ConnectError
<1>12. CASE Sockets!Handshake
  BY <1>12 DEF Sockets!Handshake, Sockets!Accepted
<1>13. CASE Sockets!HandshakeError
  BY <1>13 DEF Sockets!HandshakeError
<1>14. CASE Sockets!Drop
  BY <1>14 DEF Sockets!Drop
<1>15. QED
  BY <1>1, <1>2, <1>3, <1>4, <1>5, <1>6, <1>7, <1>8, <1>9, <1>10, <1>11, <1>12, <1>13, <1>14
     DEF Sockets!Next, Sockets!SocketProgress

\* For any number of tokens, expiries, lost transports and changes of the user: until
\* a sign-out leaves a socket behind, a tab's socket dials with the tab's token and
\* is its user's.
THEOREM SocketAlwaysFollows == TabSpec => []SocketFollowsUser
<1>1. TabInit => SocketsTyped /\ SocketInStep
  <2> SUFFICES ASSUME TabInit PROVE SocketsTyped /\ SocketInStep
    OBVIOUS
  <2>1. Sockets!Init
    BY DEF TabInit, Sockets!ObservedInit
  <2>2. << >> \in Seq(Account) /\ Len(<< >>) = 0 /\ 0 \in 0..MaxDrops /\ 0 \in 0..MaxTabFaults
    BY EmptySeq, TabAssumption
  <2>3. QED
    BY <2>1, <2>2 DEF Sockets!Init, SocketsTyped, SocketInStep, SocketState, Sockets!Anybody,
       Sockets!NoSocket, Sockets!Idle
<1>2. SocketsTyped /\ SocketInStep /\ [TokenStep \/ SocketStep]_tabVars => (SocketsTyped /\ SocketInStep)'
  <2> SUFFICES ASSUME SocketsTyped, SocketInStep, [TokenStep \/ SocketStep]_tabVars
               PROVE  (SocketsTyped /\ SocketInStep)'
    OBVIOUS
  <2>1. CASE Sockets!ObservedNext
    BY <2>1, SocketsNextTyped, SocketsNextInStep DEF Sockets!ObservedNext
  <2>2. CASE UNCHANGED socketVars
    BY <2>2 DEF socketVars, SocketsTyped, SocketInStep, OwnSocket
  <2>3. QED
    BY <2>1, <2>2 DEF TokenStep, SocketStep, tabVars
<1>3. SocketsTyped /\ SocketInStep => SocketFollowsUser
  <2> SUFFICES ASSUME SocketsTyped, SocketInStep PROVE SocketFollowsUser
    OBVIOUS
  <2>1. Sockets!TypeOK
    BY HolderIsSeq DEF SocketsTyped, Sockets!TypeOK
  <2>2. Sockets!AuthInStep /\ Sockets!SocketFollowsUser
    BY DEF SocketInStep, OwnSocket, Sockets!AuthInStep, Sockets!SocketFollowsUser,
       Sockets!SocketIsOwn
  <2>3. QED
    BY <2>1, <2>2 DEF SocketFollowsUser
<1>4. QED
  BY <1>1, <1>2, <1>3, PTL DEF TabSpec
=============================================================================
