---------------------------- MODULE PresenceProofs ----------------------------
(***************************************************************************)
(* Proofs about Presence for any number of users, tabs and processes and   *)
(* any bound on faults and crashes: what holds in every interleaving of    *)
(* the handlers, and what holds as long as two handlers of one user do not *)
(* overlap.                                                                *)
(***************************************************************************)
EXTENDS PresenceObserved, FiniteSetTheorems, TLAPS

\* The handler has added its socket and not yet removed it.
Tracking == {"sCard", "setOnline", "announceOnline", "findGroups",
             "listening", "hDel", "sRem"}

\* A handler between its sAdd and its sRem finds its socket in the set.
TrackingIsTracked ==
    faults = 0 =>
        \A s \in Socket : pc[s] \in Tracking => s \in userSockets[Owner[s]]

\* Nothing else is in the set, but for what a crash left there.
TrackedIsTracking ==
    faults = 0 =>
        \A s \in Socket :
            s \in userSockets[Owner[s]] => pc[s] \in Tracking \cup {"crashed"}

\* A transport that is up belongs to a handler that is connecting or listening.
OpenIsAttended ==
    \A s \in open : pc[s] \in Connecting \cup {"listening"}

IInv ==
    /\ TypeOK
    /\ OpenIsAttended
    /\ TrackingIsTracked
    /\ TrackedIsTracking
    /\ NoGhostOnline

-----------------------------------------------------------------------------
USE OwnerAssumption, HomeAssumption, BoundAssumption
    DEF Connecting, Disconnecting, Underway, Settled, RedisCommands

\* No handler, no socket and an empty Redis are well typed.
LEMMA InitTypeOK == Init => TypeOK
BY DEF Init, TypeOK

\* Every step of a handler keeps the variables in their domains.
LEMMA ProgressTypeOK ==
    ASSUME TypeOK, NEW s \in Socket, Progress(s)
    PROVE  TypeOK'
<1>1. CASE HSet(s) \/ SAdd(s) \/ SCard(s)
  BY <1>1 DEF TypeOK, HSet, SAdd, SCard, Goto, AddKey, AddMember, redisVars,
              processVars
<1>2. CASE SetUserOnline(s) \/ AnnounceOnline(s) \/ Listen(s)
  BY <1>2 DEF TypeOK, SetUserOnline, AnnounceOnline, Listen, Goto, AddOnline,
              redisVars, processVars
<1>3. CASE HDel(s) \/ SRem(s) \/ SCardLeft(s)
  BY <1>3 DEF TypeOK, HDel, SRem, SCardLeft, Goto, DelKey, RemMember,
              redisVars, processVars
<1>4. CASE SetUserOffline(s) \/ AnnounceOffline(s)
  BY <1>4 DEF TypeOK, SetUserOffline, AnnounceOffline, Goto, RemOnline,
              redisVars, processVars
<1>5. QED
  BY <1>1, <1>2, <1>3, <1>4 DEF Progress

\* A rejected command moves the handler on, whether or not it was executed.
LEMMA RejectTypeOK ==
    ASSUME TypeOK, NEW s \in Socket, RedisRejects(s)
    PROVE  TypeOK'
<1>1. /\ pc' \in [Socket -> Underway \cup Settled]
      /\ faults' \in 0..MaxFaults
  BY DEF TypeOK, RedisRejects, AfterFault
<1>2. /\ socket_user_map' \subseteq Socket
      /\ userSockets' \in [User -> SUBSET Socket]
      /\ online_users' \subseteq User
  BY DEF TypeOK, RedisRejects, Executed, AddKey, DelKey, AddMember, RemMember,
         AddOnline, RemOnline, redisVars
<1>3. QED
  BY <1>1, <1>2 DEF TypeOK, RedisRejects

\* So does every other step: connections, disconnections, shutdowns, crashes.
LEMMA NextTypeOK == TypeOK /\ [Next]_vars => TypeOK'
<1> SUFFICES ASSUME TypeOK, [Next]_vars PROVE TypeOK'
  OBVIOUS
<1>1. CASE UNCHANGED vars
  BY <1>1 DEF TypeOK, vars, redisVars, processVars
<1>2. ASSUME NEW s \in Socket, Connect(s) \/ Disconnect(s) \/ DisconnectUnheard(s)
      PROVE TypeOK'
  BY <1>2 DEF TypeOK, Connect, Disconnect, DisconnectUnheard, Goto, redisVars
<1>3. ASSUME NEW s \in Socket, Progress(s)
      PROVE TypeOK'
  BY <1>3, ProgressTypeOK
<1>4. ASSUME NEW s \in Socket, RedisRejects(s)
      PROVE TypeOK'
  BY <1>4, RejectTypeOK
<1>5. ASSUME NEW i \in Instance, CloseAll(i)
      PROVE TypeOK'
  BY <1>5 DEF TypeOK, CloseAll, redisVars
<1>6. ASSUME NEW i \in Instance, Crash(i)
      PROVE TypeOK'
  BY <1>6 DEF TypeOK, Crash, redisVars
<1>7. QED
  BY <1>1, <1>2, <1>3, <1>4, <1>5, <1>6 DEF Next

\* The variables of the connection handlers and of Redis keep their types in
\* every behaviour, with rejected commands and crashes.
THEOREM TypeCorrect == Spec => []TypeOK
<1>1. QED
  BY InitTypeOK, NextTypeOK, PTL DEF Spec

-----------------------------------------------------------------------------
\* The conjuncts about single handlers, step by step.
HandlersInv == OpenIsAttended /\ TrackingIsTracked /\ TrackedIsTracking

USE DEF Tracking

\* Before the first connection nothing is tracked.
LEMMA InitHandlersInv == Init => HandlersInv
BY DEF Init, HandlersInv, OpenIsAttended, TrackingIsTracked, TrackedIsTracking

\* The commands of a handler touch their own socket's entries only.
LEMMA ProgressHandlersInv ==
    ASSUME TypeOK, HandlersInv, NEW s \in Socket, Progress(s)
    PROVE  HandlersInv'
<1> USE DEF TypeOK, HandlersInv, OpenIsAttended, TrackingIsTracked,
            TrackedIsTracking, Goto, processVars, redisVars
<1>1. CASE HSet(s) \/ SCard(s) \/ AnnounceOnline(s) \/ Listen(s)
  BY <1>1 DEF HSet, SCard, AnnounceOnline, Listen, AddKey
<1>2. CASE SAdd(s)
  BY <1>2 DEF SAdd, AddMember
<1>3. CASE SetUserOnline(s) \/ SetUserOffline(s)
  BY <1>3 DEF SetUserOnline, SetUserOffline, AddOnline, RemOnline
<1>4. CASE HDel(s) \/ SCardLeft(s) \/ AnnounceOffline(s)
  BY <1>4 DEF HDel, SCardLeft, AnnounceOffline, DelKey
<1>5. CASE SRem(s)
  BY <1>5 DEF SRem, RemMember
<1>6. QED
  BY <1>1, <1>2, <1>3, <1>4, <1>5 DEF Progress

\* So do the steps that start, drop, reject or kill a handler.
LEMMA NextHandlersInv == TypeOK /\ HandlersInv /\ [Next]_vars => HandlersInv'
<1> SUFFICES ASSUME TypeOK, HandlersInv, [Next]_vars PROVE HandlersInv'
  OBVIOUS
<1> USE DEF HandlersInv, OpenIsAttended, TrackingIsTracked, TrackedIsTracking
<1>1. CASE UNCHANGED vars
  BY <1>1 DEF vars, redisVars, processVars
<1>2. ASSUME NEW s \in Socket, Connect(s) \/ Disconnect(s) \/ DisconnectUnheard(s)
      PROVE HandlersInv'
  BY <1>2 DEF TypeOK, Connect, Disconnect, DisconnectUnheard, Goto, redisVars
<1>3. ASSUME NEW s \in Socket, Progress(s)
      PROVE HandlersInv'
  BY <1>3, ProgressHandlersInv
<1>4. ASSUME NEW s \in Socket, RedisRejects(s)
      PROVE HandlersInv'
  <2>1. faults' # 0
    BY <1>4 DEF RedisRejects, TypeOK
  <2>2. /\ open' = open
        /\ pc'[s] \in Connecting \/ pc[s] \notin Connecting \cup {"listening"}
        /\ \A t \in Socket \ {s} : pc'[t] = pc[t]
    BY <1>4 DEF RedisRejects, AfterFault, TypeOK
  <2>3. QED
    BY <2>1, <2>2 DEF TypeOK
<1>5. ASSUME NEW i \in Instance, CloseAll(i)
      PROVE HandlersInv'
  BY <1>5 DEF TypeOK, CloseAll, redisVars
<1>6. ASSUME NEW i \in Instance, Crash(i)
      PROVE HandlersInv'
  BY <1>6 DEF TypeOK, Crash, redisVars
<1>7. QED
  BY <1>1, <1>2, <1>3, <1>4, <1>5, <1>6 DEF Next

-----------------------------------------------------------------------------
\* NoGhostOnline, which needs the handlers' invariant: a handler about to set
\* its user online holds a socket in the set, so only a removal can empty the
\* set of an online user, and the remover is then bound to look at it.
LEMMA ProgressNoGhost ==
    ASSUME TypeOK, HandlersInv, NoGhostOnline, NEW s \in Socket, Progress(s)
    PROVE  NoGhostOnline'
<1> USE DEF TypeOK, NoGhostOnline, SocketsOf, Goto, processVars, redisVars
<1>1. CASE HSet(s) \/ SCard(s) \/ AnnounceOnline(s) \/ Listen(s)
  BY <1>1 DEF HSet, SCard, AnnounceOnline, Listen, AddKey
<1>2. CASE SAdd(s)
  BY <1>2 DEF SAdd, AddMember
<1>3. CASE SetUserOnline(s)
  BY <1>3 DEF SetUserOnline, AddOnline, HandlersInv, TrackingIsTracked
<1>4. CASE HDel(s) \/ AnnounceOffline(s)
  BY <1>4 DEF HDel, AnnounceOffline, DelKey
<1>5. CASE SRem(s)
  BY <1>5 DEF SRem, RemMember
<1>6. CASE SCardLeft(s)
  BY <1>6 DEF SCardLeft
<1>7. CASE SetUserOffline(s)
  BY <1>7 DEF SetUserOffline, RemOnline
<1>8. QED
  BY <1>1, <1>2, <1>3, <1>4, <1>5, <1>6, <1>7 DEF Progress

\* Neither do connections, transports going down, faults and crashes.
LEMMA NextNoGhost ==
    TypeOK /\ HandlersInv /\ NoGhostOnline /\ [Next]_vars => NoGhostOnline'
<1> SUFFICES ASSUME TypeOK, HandlersInv, NoGhostOnline, [Next]_vars
             PROVE  NoGhostOnline'
  OBVIOUS
<1> USE DEF NoGhostOnline, SocketsOf
<1>1. CASE UNCHANGED vars
  BY <1>1 DEF vars, redisVars, processVars
<1>2. ASSUME NEW s \in Socket, Connect(s) \/ Disconnect(s) \/ DisconnectUnheard(s)
      PROVE NoGhostOnline'
  BY <1>2 DEF TypeOK, Connect, Disconnect, DisconnectUnheard, Goto, redisVars
<1>3. ASSUME NEW s \in Socket, Progress(s)
      PROVE NoGhostOnline'
  BY <1>3, ProgressNoGhost
<1>4. ASSUME NEW s \in Socket, RedisRejects(s)
      PROVE NoGhostOnline'
  BY <1>4 DEF RedisRejects, TypeOK
<1>5. ASSUME NEW i \in Instance, CloseAll(i)
      PROVE NoGhostOnline'
  BY <1>5 DEF TypeOK, CloseAll, redisVars
<1>6. ASSUME NEW i \in Instance, Crash(i)
      PROVE NoGhostOnline'
  BY <1>6 DEF TypeOK, Crash
<1>7. QED
  BY <1>1, <1>2, <1>3, <1>4, <1>5, <1>6 DEF Next

-----------------------------------------------------------------------------
\* The strengthened invariant holds throughout.
THEOREM Inductive == Spec => []IInv
<1>1. Init => IInv
  BY InitTypeOK, InitHandlersInv DEF IInv, HandlersInv, NoGhostOnline, Init
<1>2. IInv /\ [Next]_vars => IInv'
  BY NextTypeOK, NextHandlersInv, NextNoGhost DEF IInv, HandlersInv
<1>3. QED
  BY <1>1, <1>2, PTL DEF Spec

\* Nobody stays online with an empty socket set: the disconnect handler that
\* emptied it is about to take the user off, whatever other tabs do meanwhile.
THEOREM GhostFree == Spec => []NoGhostOnline
<1>1. IInv => NoGhostOnline
  BY DEF IInv
<1>2. QED
  BY <1>1, Inductive, PTL

\* A live tab that is listened to is counted in its user's set.
THEOREM LiveTracked == Spec => []LiveSocketTracked
<1>1. IInv => LiveSocketTracked
  BY DEF IInv, LiveSocketTracked, TrackingIsTracked, TypeOK
<1>2. QED
  BY <1>1, Inductive, PTL

\* A disconnect that was heard and finished leaves nothing in Redis; what is
\* left there was left by an unheard disconnect or a crash.
THEOREM StaleExplained == Spec => []StaleEntryHasCause
<1>1. IInv => StaleEntryHasCause
  BY DEF IInv, StaleEntryHasCause, TrackedIsTracking, TypeOK
<1>2. QED
  BY <1>1, Inductive, PTL

-----------------------------------------------------------------------------
\* The reverse lookup.  A handler between its hSet and its hDel has its socket
\* in the hash, and without a crash no handler stops on the way.
KeyedIsKept ==
    faults = 0 /\ crashes = 0 =>
        \A s \in Socket :
            /\ pc[s] # "crashed"
            /\ pc[s] \in ({"sAdd"} \cup Tracking) \ {"sRem"} => s \in socket_user_map

LEMMA NextKeyedIsKept == TypeOK /\ KeyedIsKept /\ [Next]_vars => KeyedIsKept'
<1> SUFFICES ASSUME TypeOK, KeyedIsKept, [Next]_vars PROVE KeyedIsKept'
  OBVIOUS
<1> USE DEF TypeOK, KeyedIsKept, Goto, processVars, redisVars
<1>1. CASE UNCHANGED vars
  BY <1>1 DEF vars
<1>2. ASSUME NEW s \in Socket, Connect(s) \/ Disconnect(s) \/ DisconnectUnheard(s)
      PROVE  KeyedIsKept'
  BY <1>2 DEF Connect, Disconnect, DisconnectUnheard
<1>3. ASSUME NEW s \in Socket, Progress(s) PROVE KeyedIsKept'
  <2>1. CASE HSet(s) \/ HDel(s)
    BY <2>1 DEF HSet, HDel, AddKey, DelKey
  <2>2. CASE SAdd(s) \/ SRem(s)
    BY <2>2 DEF SAdd, SRem, AddMember, RemMember
  <2>3. CASE SetUserOnline(s) \/ SetUserOffline(s)
    BY <2>3 DEF SetUserOnline, SetUserOffline, AddOnline, RemOnline
  <2>4. CASE SCard(s) \/ AnnounceOnline(s) \/ Listen(s) \/ SCardLeft(s) \/ AnnounceOffline(s)
    BY <2>4 DEF SCard, AnnounceOnline, Listen, SCardLeft, AnnounceOffline
  <2>5. QED
    BY <1>3, <2>1, <2>2, <2>3, <2>4 DEF Progress
<1>4. ASSUME NEW s \in Socket, RedisRejects(s) PROVE KeyedIsKept'
  BY <1>4 DEF RedisRejects
<1>5. ASSUME NEW i \in Instance, CloseAll(i) PROVE KeyedIsKept'
  BY <1>5 DEF CloseAll
<1>6. ASSUME NEW i \in Instance, Crash(i) PROVE KeyedIsKept'
  BY <1>6 DEF Crash
<1>7. QED
  BY <1>1, <1>2, <1>3, <1>4, <1>5, <1>6 DEF Next

\* A socket in its user's set is found by the reverse lookup, but for the moment
\* between the two removals of its own disconnect handler.
THEOREM OwnerKnown == Spec => []TrackedHasOwner
<1>1. Init => KeyedIsKept
  BY DEF Init, KeyedIsKept
<1>2. IInv /\ KeyedIsKept => TrackedHasOwner
  BY DEF IInv, KeyedIsKept, TrackedIsTracking, TrackedHasOwner
<1>3. QED
  BY <1>1, <1>2, Inductive, TypeCorrect, NextKeyedIsKept, PTL DEF Spec

-----------------------------------------------------------------------------
(* Handlers of one user that do not overlap. *)

\* Where the handler of a user's tab stands between a change of the set and the
\* change of online_users that it leads to.
Deciding == {"sCard", "setOnline", "sCardLeft", "setOffline"}

\* What a handler that is alone may conclude about its user.
OnlineInStep ==
    ~overlapped /\ faults = 0 /\ crashes = 0 =>
        /\ \A u \in User :
              (\A s \in SocketsOf(u) : pc[s] \notin Deciding) =>
                  (u \in online_users <=> userSockets[u] # {})
        /\ \A s \in Socket :
              /\ pc[s] = "sCard" => (Owner[s] \in online_users <=> userSockets[Owner[s]] # {s})
              /\ pc[s] = "sCardLeft" => Owner[s] \in online_users
              /\ pc[s] = "setOffline" => userSockets[Owner[s]] = {}
        /\ ~Overlap

\* A set with one member that is known is the set of that member.
LEMMA OnlyMember ==
    ASSUME TypeOK, NEW u \in User, NEW s \in userSockets[u]
    PROVE  Cardinality(userSockets[u]) = 1 <=> userSockets[u] = {s}
<1>1. IsFiniteSet(userSockets[u])
  BY FiniteAssumption, FS_Subset DEF TypeOK
<1>2. QED
  BY <1>1, FS_Singleton

\* The commands of a handler keep its user's state in step with its set.
LEMMA ProgressOnlineInStep ==
    ASSUME TypeOK, HandlersInv, OnlineInStep, NEW s \in Socket, Progress(s),
           overlapped' = (overlapped \/ Overlap')
    PROVE  OnlineInStep'
<1> SUFFICES ASSUME ~overlapped', faults' = 0, crashes' = 0 PROVE OnlineInStep'
  BY DEF OnlineInStep
<1>1. /\ ~overlapped /\ ~Overlap /\ ~Overlap' /\ faults = 0 /\ crashes = 0
      /\ \A t \in Socket : t # s => pc'[t] = pc[t]
  BY DEF OnlineInStep, Progress, HSet, SAdd, SCard, SetUserOnline, AnnounceOnline, Listen,
     HDel, SRem, SCardLeft, SetUserOffline, AnnounceOffline, Goto, processVars, TypeOK
<1>2. /\ pc[s] \in Underway
      /\ \A t \in Socket : t # s /\ Owner[t] = Owner[s] => pc[t] \notin Underway
  BY <1>1 DEF Overlap, Progress, HSet, SAdd, SCard, SetUserOnline, AnnounceOnline, Listen,
     HDel, SRem, SCardLeft, SetUserOffline, AnnounceOffline, Goto
<1> USE <1>1, <1>2 DEF TypeOK, OnlineInStep, SocketsOf, Deciding, Goto, processVars, redisVars,
        HandlersInv, TrackingIsTracked, TrackedIsTracking
<1>3. CASE HSet(s) \/ AnnounceOnline(s) \/ Listen(s) \/ HDel(s) \/ AnnounceOffline(s)
  BY <1>3 DEF HSet, AnnounceOnline, Listen, HDel, AnnounceOffline, AddKey, DelKey
<1>4. CASE SAdd(s)
  BY <1>4 DEF SAdd, AddMember
<1>5. CASE SCard(s)
  BY <1>5, OnlyMember DEF SCard
<1>6. CASE SetUserOnline(s) \/ SetUserOffline(s)
  BY <1>6 DEF SetUserOnline, SetUserOffline, AddOnline, RemOnline
<1>7. CASE SRem(s)
  BY <1>7 DEF SRem, RemMember
<1>8. CASE SCardLeft(s)
  BY <1>8 DEF SCardLeft
<1>9. QED
  BY <1>3, <1>4, <1>5, <1>6, <1>7, <1>8 DEF Progress

\* Tabs that come and go begin a handler each; faults and crashes end the claim.
LEMMA NextOnlineInStep ==
    ASSUME TypeOK, HandlersInv, OnlineInStep, [ObservedNext]_observedVars
    PROVE  OnlineInStep'
<1> USE DEF TypeOK, OnlineInStep, SocketsOf, Deciding, redisVars, processVars
<1>1. CASE UNCHANGED observedVars
  BY <1>1 DEF observedVars, vars, Overlap
<1>2. ASSUME NEW s \in Socket, Connect(s) \/ Disconnect(s) \/ DisconnectUnheard(s),
             overlapped' = (overlapped \/ Overlap')
      PROVE  OnlineInStep'
  <2>1. CASE Connect(s)
    BY <1>2, <2>1 DEF Connect, Goto
  <2>2. CASE Disconnect(s)
    BY <1>2, <2>2 DEF Disconnect, Goto
  <2>3. CASE DisconnectUnheard(s)
    BY <1>2, <2>3 DEF DisconnectUnheard, Overlap
  <2>4. QED
    BY <1>2, <2>1, <2>2, <2>3
<1>3. ASSUME NEW i \in Instance, CloseAll(i), overlapped' = (overlapped \/ Overlap')
      PROVE  OnlineInStep'
  BY <1>3 DEF CloseAll
<1>4. ASSUME NEW s \in Socket, RedisRejects(s) PROVE OnlineInStep'
  BY <1>4 DEF RedisRejects
<1>5. ASSUME NEW i \in Instance, Crash(i) PROVE OnlineInStep'
  BY <1>5 DEF Crash
<1>6. QED
  BY <1>1, <1>2, <1>3, <1>4, <1>5, ProgressOnlineInStep DEF ObservedNext, Next

\* As long as no two handlers of a user overlap, whoever has none under way is
\* shown online exactly if one of their sockets is recorded.
THEOREM OnlineAlwaysTracked == ObservedSpec => []OnlineIffTracked
<1>1. ObservedInit => OnlineInStep
  BY DEF ObservedInit, Init, OnlineInStep, Overlap
<1>2. OnlineInStep => OnlineIffTracked
  BY DEF OnlineInStep, OnlineIffTracked, Deciding
<1>3. ObservedInit => TypeOK /\ HandlersInv
  BY InitTypeOK, InitHandlersInv DEF ObservedInit
<1>4. TypeOK /\ HandlersInv /\ [ObservedNext]_observedVars => (TypeOK /\ HandlersInv)'
  <2>1. [ObservedNext]_observedVars => [Next]_vars
    BY DEF ObservedNext, observedVars
  <2>2. QED
    BY <2>1, NextTypeOK, NextHandlersInv
<1>5. QED
  BY <1>1, <1>2, <1>3, <1>4, NextOnlineInStep, PTL DEF ObservedSpec
=============================================================================
