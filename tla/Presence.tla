------------------------------ MODULE Presence ------------------------------
(***************************************************************************)
(* Online presence as kept by the Socket.IO connection handler             *)
(* (backend/src/lib/socket.js) in Redis (backend/src/lib/redis.js).        *)
(*                                                                         *)
(* Every tab is a socket.  A handler runs once per connection and once per *)
(* disconnection; every await on Redis or MongoDB is a point where any     *)
(* other handler, of the same process or of another instance, may run, so  *)
(* pc[s] names the command the handler of s is about to have executed.     *)
(* The two handlers of one socket never overlap: "disconnect" only gets a  *)
(* listener after the connection handler has passed its last await.        *)
(***************************************************************************)
EXTENDS Integers, FiniteSets

CONSTANTS
    User,        \* user ids
    Socket,      \* socket ids; an id is used for one connection only
    Instance,    \* server processes behind the load balancer
    Owner,       \* the authenticated user of each socket
    Home,        \* the process each socket is connected to
    MaxFaults,   \* bound: Redis commands that are rejected
    MaxCrashes   \* bound: process crashes

ASSUME OwnerAssumption  == Owner \in [Socket -> User]
ASSUME HomeAssumption   == Home \in [Socket -> Instance]
ASSUME FiniteAssumption == IsFiniteSet(Socket)
ASSUME BoundAssumption  == MaxFaults \in Nat /\ MaxCrashes \in Nat

VARIABLES
    pc,             \* where the handlers of each socket stand
    open,           \* sockets whose transport is up
    userSocketMap,  \* per-process micro-cache, flattened to its sockets
    socket_user_map,\* Redis hash socketId -> userId, as the set of its keys
    userSockets,    \* Redis sets user:<id>:sockets
    online_users,   \* Redis set online_users
    faults,         \* Redis commands rejected so far
    crashes         \* process crashes so far

redisVars == <<socket_user_map, userSockets, online_users>>
processVars == <<open, userSocketMap, faults, crashes>>
vars == <<pc, redisVars, processVars>>

Connecting    == {"hSet", "sAdd", "sCard", "setOnline", "announceOnline",
                  "findGroups"}
Disconnecting == {"hDel", "sRem", "sCardLeft", "setOffline",
                  "announceOffline"}
Underway      == Connecting \cup Disconnecting
RedisCommands == {"hSet", "sAdd", "sCard", "setOnline",
                  "hDel", "sRem", "sCardLeft", "setOffline"}
Settled       == {"new", "listening", "done", "crashed"}

SocketsOf(u) == {s \in Socket : Owner[s] = u}

-----------------------------------------------------------------------------
Init ==
    /\ pc = [s \in Socket |-> "new"]
    /\ open = {}
    /\ userSocketMap = {}
    /\ socket_user_map = {}
    /\ userSockets = [u \in User |-> {}]
    /\ online_users = {}
    /\ faults = 0
    /\ crashes = 0

Goto(s, from, to) ==
    /\ pc[s] = from
    /\ pc' = [pc EXCEPT ![s] = to]

\* What each command does to Redis.
AddKey(s)    == /\ socket_user_map' = socket_user_map \cup {s}
                /\ UNCHANGED <<userSockets, online_users>>
DelKey(s)    == /\ socket_user_map' = socket_user_map \ {s}
                /\ UNCHANGED <<userSockets, online_users>>
AddMember(s) == /\ userSockets' = [userSockets EXCEPT ![Owner[s]] = @ \cup {s}]
                /\ UNCHANGED <<socket_user_map, online_users>>
RemMemberDropsKey(s) ==  \* mutant: DEL of the user's whole set
    /\ userSockets' = [userSockets EXCEPT ![Owner[s]] = {}]
    /\ UNCHANGED <<socket_user_map, online_users>>
RemMember(s) == /\ userSockets' = [userSockets EXCEPT ![Owner[s]] = @ \ {s}]
                /\ UNCHANGED <<socket_user_map, online_users>>
AddOnline(s) == /\ online_users' = online_users \cup {Owner[s]}
                /\ UNCHANGED <<socket_user_map, userSockets>>
RemOnline(s) == /\ online_users' = online_users \ {Owner[s]}
                /\ UNCHANGED <<socket_user_map, userSockets>>

\* The handshake succeeded: the handler joins the user's room, tracks the
\* socket in the process, and issues the first command of addUserSocket.
Connect(s) ==
    /\ Goto(s, "new", "hSet")
    /\ open' = open \cup {s}
    /\ userSocketMap' = userSocketMap \cup {s}
    /\ UNCHANGED <<redisVars, faults, crashes>>

\* addUserSocket: three commands, each awaited.  isFirstConnection is the
\* count being exactly one at the moment it is read.
HSet(s)  == Goto(s, "hSet", "sAdd") /\ AddKey(s) /\ UNCHANGED processVars
SAdd(s)  == Goto(s, "sAdd", "sCard") /\ AddMember(s) /\ UNCHANGED processVars
SCardBeforeAdd(s) ==  \* mutant: expects the count before the add
    /\ Goto(s, "sCard", IF Cardinality(userSockets[Owner[s]]) = 0
                        THEN "setOnline" ELSE "findGroups")
    /\ UNCHANGED <<redisVars, processVars>>
SCard(s) ==
    /\ Goto(s, "sCard", IF Cardinality(userSockets[Owner[s]]) = 1
                        THEN "setOnline" ELSE "findGroups")
    /\ UNCHANGED <<redisVars, processVars>>

SetUserOnline(s) ==
    Goto(s, "setOnline", "announceOnline") /\ AddOnline(s) /\ UNCHANGED processVars

\* The lastSeen write has been answered: schedulePresenceBroadcast() runs and
\* the group memberships are queried.
AnnounceOnline(s) ==
    /\ Goto(s, "announceOnline", "findGroups")
    /\ UNCHANGED <<redisVars, processVars>>

\* The query resolved, or rejected into the handler's catch; either way the
\* "disconnect" listener is registered now, and only now.
Listen(s) ==
    /\ Goto(s, "findGroups", "listening")
    /\ UNCHANGED <<redisVars, processVars>>

\* The transport goes down and a listener hears of it.
Disconnect(s) ==
    /\ s \in open
    /\ Goto(s, "listening", "hDel")
    /\ open' = open \ {s}
    /\ userSocketMap' = userSocketMap \ {s}
    /\ UNCHANGED <<redisVars, faults, crashes>>

\* The transport goes down while the connection handler is still awaiting:
\* the event has no listener, and the handler carries on regardless.
DisconnectUnheard(s) ==
    /\ s \in open
    /\ pc[s] \in Connecting
    /\ open' = open \ {s}
    /\ UNCHANGED <<pc, userSocketMap, redisVars, faults, crashes>>

\* io.close() at shutdown: every socket of the process goes down at once, heard
\* by those handlers that already listen.
CloseAll(i) ==
    LET here == {s \in open : Home[s] = i}
        heard == {s \in here : pc[s] = "listening"}
    IN  /\ here # {}
        /\ pc' = [s \in Socket |-> IF s \in heard THEN "hDel" ELSE pc[s]]
        /\ open' = open \ here
        /\ userSocketMap' = userSocketMap \ heard
        /\ UNCHANGED <<redisVars, faults, crashes>>

HDelOnly(s) ==  \* mutant: the set entry is not removed
    Goto(s, "hDel", "sCardLeft") /\ DelKey(s) /\ UNCHANGED processVars

\* removeUserSocket: three commands, each awaited.
HDel(s) == Goto(s, "hDel", "sRem") /\ DelKey(s) /\ UNCHANGED processVars
SRem(s) == Goto(s, "sRem", "sCardLeft") /\ RemMember(s) /\ UNCHANGED processVars
SCardLeftOffByOne(s) ==  \* mutant: expects the count before the removal
    /\ Goto(s, "sCardLeft", IF Cardinality(userSockets[Owner[s]]) = 1
                            THEN "setOffline" ELSE "done")
    /\ UNCHANGED <<redisVars, processVars>>
SCardLeft(s) ==
    /\ Goto(s, "sCardLeft", IF userSockets[Owner[s]] = {}
                            THEN "setOffline" ELSE "done")
    /\ UNCHANGED <<redisVars, processVars>>

SetUserOffline(s) ==
    Goto(s, "setOffline", "announceOffline") /\ RemOnline(s) /\ UNCHANGED processVars

AnnounceOffline(s) ==
    /\ Goto(s, "announceOffline", "done")
    /\ UNCHANGED <<redisVars, processVars>>

\* Where a handler goes when the command at pc is rejected: both helpers turn
\* a rejection into the count 0, which is not a first connection but is a last
\* one; setUserOnline and setUserOffline swallow it.
AfterFault(at) ==
    CASE at \in {"hSet", "sAdd", "sCard"}     -> "findGroups"
      [] at = "setOnline"                     -> "announceOnline"
      [] at \in {"hDel", "sRem", "sCardLeft"} -> "setOffline"
      [] at = "setOffline"                    -> "announceOffline"

\* A command whose connection broke may or may not have been executed.
Executed(s) ==
    \/ pc[s] = "hSet"       /\ AddKey(s)
    \/ pc[s] = "sAdd"       /\ AddMember(s)
    \/ pc[s] = "setOnline"  /\ AddOnline(s)
    \/ pc[s] = "hDel"       /\ DelKey(s)
    \/ pc[s] = "sRem"       /\ RemMember(s)
    \/ pc[s] = "setOffline" /\ RemOnline(s)

RedisRejects(s) ==
    /\ faults < MaxFaults
    /\ pc[s] \in RedisCommands
    /\ pc' = [pc EXCEPT ![s] = AfterFault(pc[s])]
    /\ Executed(s) \/ UNCHANGED redisVars
    /\ faults' = faults + 1
    /\ UNCHANGED <<open, userSocketMap, crashes>>

\* A process dies, or exits: its sockets drop and its handlers stop where
\* they are.  Nothing in the code removes what they had written to Redis.
Crash(i) ==
    /\ crashes < MaxCrashes
    /\ pc' = [s \in Socket |->
                IF Home[s] = i /\ pc[s] \notin {"new", "done"}
                THEN "crashed" ELSE pc[s]]
    /\ open' = {s \in open : Home[s] # i}
    /\ userSocketMap' = {s \in userSocketMap : Home[s] # i}
    /\ crashes' = crashes + 1
    /\ UNCHANGED <<redisVars, faults>>

\* What the event loop and Redis do with a handler once it has started.
Progress(s) ==
    \/ HSet(s) \/ SAdd(s) \/ SCard(s)
    \/ SetUserOnline(s) \/ AnnounceOnline(s) \/ Listen(s)
    \/ HDel(s) \/ SRem(s) \/ SCardLeft(s)
    \/ SetUserOffline(s) \/ AnnounceOffline(s)

Next ==
    \/ \E s \in Socket :
          \/ Connect(s)
          \/ Progress(s)
          \/ Disconnect(s)
          \/ DisconnectUnheard(s)
          \/ RedisRejects(s)
    \/ \E i \in Instance : CloseAll(i) \/ Crash(i)

Spec == Init /\ [][Next]_vars

-----------------------------------------------------------------------------
\* Every variable stays in its domain; the type invariant of the component.
TypeOK ==
    /\ pc \in [Socket -> Underway \cup Settled]
    /\ open \subseteq Socket
    /\ userSocketMap \subseteq Socket
    /\ socket_user_map \subseteq Socket
    /\ userSockets \in [User -> SUBSET Socket]
    /\ online_users \subseteq User
    /\ faults \in 0..MaxFaults
    /\ crashes \in 0..MaxCrashes

\* A user shown online who has no socket left in Redis is about to be taken
\* off: some disconnect handler of theirs is between its sRem and its sRem of
\* online_users.  However tabs interleave, nobody is online for ever with an
\* empty set, as long as no command was rejected and no process died.
NoGhostOnline ==
    faults = 0 /\ crashes = 0 =>
        \A u \in online_users :
            userSockets[u] = {} =>
                \E s \in SocketsOf(u) : pc[s] \in {"sCardLeft", "setOffline"}

\* A socket that is up and listened to is in its user's Redis set: no handler
\* of another tab ever removes it, so it cannot be the victim of a wrong count.
LiveSocketTracked ==
    faults = 0 =>
        \A s \in open : pc[s] = "listening" => s \in userSockets[Owner[s]]

\* An entry of a Redis set outlives its transport for one of these reasons:
\* the disconnect handler has yet to remove it, the transport went down before
\* that handler existed, the process died, or Redis rejected a command.  A
\* disconnect that was heard and finished never leaves an entry behind.
StaleEntryHasCause ==
    faults = 0 =>
        \A s \in Socket :
            s \in userSockets[Owner[s]] \ open =>
                pc[s] \in Connecting \cup {"listening", "hDel", "sRem", "crashed"}

\* A socket in its user's set is found by the reverse lookup, except while its
\* own removal stands between hDel and sRem.
TrackedHasOwner ==
    faults = 0 /\ crashes = 0 =>
        \A s \in Socket :
            s \in userSockets[Owner[s]] => s \in socket_user_map \/ pc[s] = "sRem"

\* The comment in the connection handler: of the instances racing to register
\* a user's first connection one observes the count 1 and takes the user
\* online.  Stated for commands that succeed, and for users none of whose tabs has
\* gone or is on its way.
FirstConnectionObserved ==
    faults = 0 =>
        \A u \in User :
            /\ userSockets[u] # {}
            /\ \A s \in SocketsOf(u) : pc[s] \in {"new", "listening"} /\ (s \in open \/ pc[s] = "new")
            => u \in online_users

\* The documentation's rule: a user stays online until the last tab closes.  When
\* the handler of a closed tab has taken its user offline, no tab of theirs is up
\* and listened to.
StaysUntilLastTab ==
    faults = 0 /\ crashes = 0 =>
        \A s, t \in Socket :
            /\ Owner[s] = Owner[t] /\ t \in open /\ pc[t] = "listening"
            /\ pc[s] = "announceOffline"
            => Owner[s] \in online_users
=============================================================================
