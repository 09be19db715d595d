----------------------------- MODULE TabSession -----------------------------
(* What a browser holds of a session: the tokens of its tabs (Session) and   *)
(* the sockets the tabs open with them (SocketSession), each with its        *)
(* history variables.  The two share no modelled state, and are taken side   *)
(* by side.                                                                  *)
EXTENDS Naturals

CONSTANTS
    Tab, Call, MaxLosses,                       \* of Session
    Account, NoUser, MaxDrops, MaxTabFaults,    \* of SocketSession; who signs in, in turns
    MaxTokens                                   \* of both

ASSUME TokenAssumption == {MaxLosses, MaxTokens} \subseteq Nat
ASSUME TabAssumption   == NoUser \notin Account /\ {MaxDrops, MaxTabFaults} \subseteq Nat

VARIABLES
    issued, expired, revokedAccess, revokedRefresh, jar, accessToken, authUser,
    refresh, call, losses, loggedIn, disturbed,
    holder, dead, tabJar, tabUser, tabToken, tabRefresh, logout, socket, drops,
    tabFaults, left, mixed

Tokens  == INSTANCE SessionObserved WITH overlapped <- disturbed
Sockets == INSTANCE SocketSessionObserved WITH
    User <- Account, jar <- tabJar, authUser <- tabUser, accessToken <- tabToken,
    refresh <- tabRefresh,
    MaxFaults <- MaxTabFaults, faults <- tabFaults

tokenVars  == <<issued, expired, revokedAccess, revokedRefresh, jar, accessToken,
                authUser, refresh, call, losses, loggedIn, disturbed>>
socketVars == <<holder, dead, tabJar, tabUser, tabToken, tabRefresh, logout, socket,
                drops, tabFaults, left, mixed>>
tabVars    == <<tokenVars, socketVars>>

TabInit == Tokens!ObservedInit /\ Sockets!ObservedInit

TokenStep  == Tokens!ObservedNext /\ UNCHANGED socketVars
SocketStep == Sockets!ObservedNext /\ UNCHANGED tokenVars

TabSpec == TabInit /\ [][TokenStep \/ SocketStep]_tabVars

-----------------------------------------------------------------------------
\* A lone tab is signed out by a failing refresh only when its session is over,
\* and stays signed out once its user has logged out, unless a login or logout
\* meets another request.
LoneTabIsRight == Tokens!TypeOK /\ Tokens!LoneTabStaysIn /\ Tokens!LoneTabStaysOut

\* No call of a tab hangs.
CallsSettle == Tokens!CallsSettle

\* Of two tabs, too, a refresh fails only if the session is over: what the
\* interceptor of axios.js takes for granted.
RefreshFailureMeansDead == Tokens!RefreshFailureMeansDead

\* A tab's socket dials with the token of the store and is its user's, through
\* expiries, refreshes, sign-outs and changes of the user, until a sign-out leaves
\* a socket behind.
SocketFollowsUser == Sockets!TypeOK /\ Sockets!AuthInStep /\ Sockets!SocketFollowsUser

\* A tab that is signed in comes to have a socket, or is signed out.
Reconnects == Sockets!Reconnects

\* A connected socket of a signed-in tab is in the room of its user, which is where
\* the server sends a user's messages.
SocketIsOwn == Sockets!SocketIsOwn
=============================================================================
