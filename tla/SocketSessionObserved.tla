------------------------ MODULE SocketSessionObserved ------------------------
(* SocketSession with history variables that tell whether a failed refresh, *)
(* or a logout that met a socket that was not connected, has left a socket  *)
(* behind, and whether the session changed while a refresh was under way.   *)
EXTENDS SocketSession

VARIABLES left, mixed

Leaves ==
    /\ authUser # NoUser /\ authUser' = NoUser /\ socket'.at \notin {"none", "off"}
    /\ logout' = logout \/ socket.at # "connected"

ObservedInit == Init /\ left = FALSE /\ mixed = FALSE
ObservedNext ==
    /\ Next
    /\ left' = (left \/ Leaves)
    /\ mixed' = (mixed \/ (authUser' # authUser /\ refresh' # Idle))
observedVars == <<vars, left, mixed>>

\* What a handshake will send is the token the store has: a refresh while the
\* socket is down, or before the next time it is, does not make it dial with an
\* old one, in whatever order tokens are refreshed, sessions end and users change,
\* until a sign-out leaves a socket behind.
AuthInStep ==
    ~left /\ ~mixed /\ authUser # NoUser /\ socket # NoSocket => socket.auth = accessToken

\* ... and until then nobody is signed in on somebody else's socket, and who has
\* signed out has none.
SocketFollowsUser ==
    ~left /\ ~mixed => /\ SocketIsOwn
                       /\ authUser = NoUser => socket.at \in {"none", "off"}
=============================================================================
