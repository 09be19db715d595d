------------------------------ MODULE SocketSession ------------------------------
(***************************************************************************)
(* A tab's socket and the session it belongs to: who the store says is     *)
(* signed in, the access token it holds, the auth payload socket.io sends  *)
(* with every handshake, and whom the server took the socket for.          *)
(* (frontend store/useAuthStore.js and lib/axios.js, the io.use middleware *)
(* of backend lib/socket.js.)                                              *)
(*                                                                         *)
(* The handshake is read, judged and answered in three steps.  socket.io's *)
(* client dials again by itself when a transport is lost, and not when the *)
(* middleware has refused it.  A token is a number, 0 is none.  The tokens *)
(* themselves, several tabs and the blocklist are the subject of Session.  *)
(***************************************************************************)
EXTENDS Integers, Sequences

CONSTANTS
    User, NoUser,
    MaxTokens,  \* bound: access tokens issued
    MaxDrops,   \* bound: transports lost
    MaxFaults   \* bound: refreshes lost, handshakes that run into an error

VARIABLES
    holder,       \* access tokens issued so far, and for whom
    dead,         \* those that have expired or were revoked
    jar,          \* whose refresh cookie the browser holds
    authUser, accessToken,
    refresh,      \* POST /auth/refresh
    logout,       \* POST /auth/logout
    socket,       \* the socket of the store
    drops, faults

session == <<authUser, accessToken>>
tokens  == <<holder, dead>>
bounds  == <<drops, faults>>
vars == <<tokens, jar, session, refresh, logout, socket, bounds>>

Anybody  == User \cup {NoUser}
NoSocket == [at |-> "none", auth |-> 0, sent |-> 0, user |-> NoUser]
Idle     == [at |-> "idle", token |-> 0]
Issued   == DOMAIN holder

Init ==
    /\ holder = << >> /\ dead = {}
    /\ jar = NoUser
    /\ authUser = NoUser /\ accessToken = 0
    /\ refresh = Idle /\ logout = Idle
    /\ socket = NoSocket
    /\ drops = 0 /\ faults = 0

Accepted(token) == token \in Issued \ dead

\* issueTokens: an access token, and the cookie in its answer.
Issue(u) ==
    /\ Len(holder) < MaxTokens
    /\ holder' = Append(holder, u)
    /\ UNCHANGED dead

SignOut == authUser' = NoUser /\ accessToken' = 0

\* A socket that is connected is kept; any other is closed and a new one made,
\* which dials with the token the store has by then.
ConnectSocket(token) ==
    socket' = IF socket.at = "connected" THEN socket
              ELSE [at |-> "down", auth |-> token, sent |-> 0, user |-> NoUser]

SetAccessToken(token) ==
    /\ accessToken' = token
    /\ socket' = IF socket = NoSocket THEN NoSocket ELSE [socket EXCEPT !.auth = token]

-----------------------------------------------------------------------------
(* Signing in and out. *)

\* login and signup, from the form, which only a signed-out tab shows.
Login(u) ==
    /\ authUser = NoUser
    /\ Issue(u)
    /\ jar' = u
    /\ authUser' = u /\ accessToken' = Len(holder')
    /\ ConnectSocket(Len(holder'))
    /\ UNCHANGED <<refresh, logout, bounds>>

\* The page is loaded again: memory is lost, and checkAuth asks for a token.
Reload ==
    /\ refresh = Idle /\ logout = Idle
    /\ IF jar = NoUser
       THEN SignOut /\ socket' = NoSocket /\ UNCHANGED tokens
       ELSE /\ Issue(jar)
            /\ authUser' = jar /\ accessToken' = Len(holder')
            /\ socket' = [NoSocket EXCEPT !.at = "down", !.auth = Len(holder')]
    /\ UNCHANGED <<jar, refresh, logout, bounds>>

BeginLogout ==
    /\ authUser # NoUser /\ logout = Idle
    /\ logout' = [at |-> "sent", token |-> accessToken]
    /\ UNCHANGED <<tokens, jar, session, refresh, socket, bounds>>

EndLogoutOnline ==  \* mutant: leaves the socket to the end of the page
    /\ logout # Idle /\ logout' = Idle
    /\ \/ Accepted(logout.token) /\ dead' = dead \cup {logout.token} /\ jar' = NoUser
       \/ UNCHANGED <<dead, jar>>
    /\ SignOut
    /\ UNCHANGED <<holder, refresh, socket, bounds>>

\* The server has revoked the token and cleared the cookie, or the call failed.
\* Either way the store is wiped, and the socket closed if it is connected.
EndLogout ==
    /\ logout # Idle /\ logout' = Idle
    /\ \/ Accepted(logout.token) /\ dead' = dead \cup {logout.token} /\ jar' = NoUser
       \/ UNCHANGED <<dead, jar>>
    /\ SignOut
    /\ socket' = IF socket.at = "connected" THEN [socket EXCEPT !.at = "off"] ELSE socket
    /\ UNCHANGED <<holder, refresh, bounds>>

-----------------------------------------------------------------------------
(* The interceptor. *)

ExpireAccess(token) ==
    /\ Accepted(token)
    /\ dead' = dead \cup {token}
    /\ UNCHANGED <<holder, jar, session, refresh, logout, socket, bounds>>

\* The 15 minutes of every token are over at some time; those of the cookie too.
ExpireCookie ==
    /\ jar # NoUser
    /\ jar' = NoUser
    /\ UNCHANGED <<tokens, session, refresh, logout, socket, bounds>>

\* A call was answered 401.
BeginRefresh ==
    /\ authUser # NoUser /\ ~Accepted(accessToken) /\ refresh = Idle
    /\ refresh' = [at |-> "sent", token |-> 0]
    /\ UNCHANGED <<tokens, jar, session, logout, socket, bounds>>

ServeRefresh ==
    /\ refresh.at = "sent"
    /\ IF jar = NoUser
       THEN refresh' = [at |-> "answered", token |-> 0] /\ UNCHANGED tokens
       ELSE Issue(jar) /\ refresh' = [at |-> "answered", token |-> Len(holder')]
    /\ UNCHANGED <<jar, session, logout, socket, bounds>>

LoseRefresh ==
    /\ refresh.at = "sent" /\ faults < MaxFaults
    /\ faults' = faults + 1
    /\ refresh' = [at |-> "answered", token |-> 0]
    /\ UNCHANGED <<tokens, jar, session, logout, socket, drops>>

\* A failed refresh signs the tab out, and leaves its socket alone.
ReceiveRefresh ==
    /\ refresh.at = "answered"
    /\ refresh' = Idle
    /\ SetAccessToken(refresh.token)
    /\ authUser' = IF refresh.token = 0 THEN NoUser ELSE authUser
    /\ jar' = IF refresh.token = 0 THEN jar ELSE holder[refresh.token]
    /\ UNCHANGED <<tokens, logout, bounds>>

-----------------------------------------------------------------------------
(* The socket. *)

Dial ==
    /\ socket.at = "down"
    /\ socket' = [socket EXCEPT !.at = "dialing", !.sent = socket.auth]
    /\ UNCHANGED <<tokens, jar, session, refresh, logout, bounds>>

\* io.use: the token of the handshake says whose socket it is.
Handshake ==
    /\ socket.at = "dialing"
    /\ socket' = IF Accepted(socket.sent)
                 THEN [socket EXCEPT !.at = "accepted", !.user = holder[socket.sent]]
                 ELSE [socket EXCEPT !.at = "refused"]
    /\ UNCHANGED <<tokens, jar, session, refresh, logout, bounds>>

\* The middleware itself fails, on its way to Redis or MongoDB.
HandshakeError ==
    /\ socket.at = "dialing" /\ faults < MaxFaults
    /\ faults' = faults + 1
    /\ socket' = [socket EXCEPT !.at = "error"]
    /\ UNCHANGED <<tokens, jar, session, refresh, logout, drops>>

Connected ==
    /\ socket.at = "accepted"
    /\ socket' = [socket EXCEPT !.at = "connected"]
    /\ UNCHANGED <<tokens, jar, session, refresh, logout, bounds>>

ConnectErrorIgnored ==  \* mutant: a refusal is only logged
    /\ socket.at \in {"refused", "error"}
    /\ socket' = [socket EXCEPT !.at = "off"]
    /\ UNCHANGED <<tokens, jar, session, refresh, logout, bounds>>

\* "Unauthorized" and "Forbidden" end the session of the tab; of another error
\* the handler takes no notice, and socket.io does not dial again.
ConnectError ==
    /\ \/ socket.at = "refused" /\ SignOut /\ socket' = NoSocket
       \/ socket.at = "error" /\ socket' = [socket EXCEPT !.at = "off"] /\ UNCHANGED session
    /\ UNCHANGED <<tokens, jar, refresh, logout, bounds>>

\* The transport is lost; socket.io will dial again.
Drop ==
    /\ socket.at \in {"dialing", "accepted", "refused", "error", "connected"} /\ drops < MaxDrops
    /\ drops' = drops + 1
    /\ socket' = [socket EXCEPT !.at = "down", !.user = NoUser]
    /\ UNCHANGED <<tokens, jar, session, refresh, logout, faults>>

SocketProgress == Dial \/ Handshake \/ Connected \/ ConnectError

Next ==
    \/ \E u \in User : Login(u)
    \/ \E token \in Issued : ExpireAccess(token)
    \/ Reload \/ BeginLogout \/ EndLogout \/ ExpireCookie
    \/ BeginRefresh \/ ServeRefresh \/ LoseRefresh \/ ReceiveRefresh
    \/ SocketProgress \/ HandshakeError \/ Drop

Spec == Init /\ [][Next]_vars

\* socket.io dials, the server answers and the client hears of it.
Fairness == WF_vars(SocketProgress)

-----------------------------------------------------------------------------
\* Every variable stays in its domain, and no token is known that was not issued.
TypeOK ==
    /\ holder \in Seq(User) /\ dead \subseteq Issued
    /\ {jar, authUser, socket.user} \subseteq Anybody
    /\ {accessToken, refresh.token, logout.token, socket.auth, socket.sent} \subseteq Issued \cup {0}
    /\ drops \in 0..MaxDrops /\ faults \in 0..MaxFaults

\* A tab that is signed in has a socket, comes to have one, or is signed out:
\* no lost transport, expiry or refusal leaves it waiting for nothing.  (An error
\* in the middleware does.)
Reconnects ==
    [](faults = 0) => (authUser # NoUser ~> socket.at = "connected" \/ authUser = NoUser)

\* The comment on connect_error: "Unauthorized" and "Forbidden" mean that the
\* session is dead, in contrast to what passes by itself.
RefusalMeansDead == socket.at = "refused" /\ authUser # NoUser => jar # authUser

\* Messages to a user reach every device they have open: a connected socket of a
\* signed-in tab is in the room of its user.
SocketIsOwn == socket.at = "connected" /\ authUser # NoUser => socket.user = authUser

\* The comment in the handler: of any other error socket.io keeps trying.
KeepsTrying == authUser # NoUser => socket.at # "off"
=============================================================================
