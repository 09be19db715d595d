-------------------------------- MODULE Session --------------------------------
(***************************************************************************)
(* One user's session: the tabs of a browser that share its refresh cookie *)
(* (frontend lib/axios.js and store/useAuthStore.js), and the server that  *)
(* issues, rotates and revokes tokens (backend controllers/auth.controller *)
(* .js, middleware/auth.middleware.js, lib/jtiBlocklist.js).               *)
(*                                                                         *)
(* issueTokens makes an access and a refresh token together, so a pair has *)
(* one number; 0 is no token.  A request is sent, served, and received in  *)
(* three steps, between which any other may take any of its own.           *)
(***************************************************************************)
EXTENDS Integers, FiniteSets

CONSTANTS
    Tab,
    Call,        \* API calls that may be in flight at the same time
    MaxTokens,   \* bound: token pairs issued
    MaxLosses    \* bound: requests or responses lost, or timed out

VARIABLES
    issued,         \* pairs issued so far
    expired,        \* pairs whose access token has expired
    revokedAccess,  \* access tokens on the blocklist
    revokedRefresh, \* refresh tokens on the blocklist
    jar,            \* the refresh cookie the browser holds
    accessToken,    \* each tab's token, in memory
    authUser,       \* the tabs that show the user as signed in
    refresh,        \* each tab's POST /auth/refresh
    call,           \* the API calls in flight
    losses,         \* requests or responses lost so far
    loggedIn        \* history: the user has logged in, and not out since

serverVars == <<issued, expired, revokedAccess, revokedRefresh>>
tabVars == <<accessToken, authUser, loggedIn>>
vars == <<serverVars, jar, tabVars, refresh, call, losses>>

Idle == [at |-> "idle"]
Answer(r, ok, token) ==
    [at |-> "answered", boot |-> r.boot, ok |-> ok, token |-> token, cookie |-> r.token # 0]

Init ==
    /\ issued = 0
    /\ expired = {} /\ revokedAccess = {} /\ revokedRefresh = {}
    /\ jar = 0
    /\ accessToken = [t \in Tab |-> 0]
    /\ authUser = {}
    /\ refresh = [t \in Tab |-> Idle]
    /\ call = [c \in Call |-> Idle]
    /\ losses = 0
    /\ loggedIn = FALSE

CallsOf(t) == {c \in Call : call[c] # Idle /\ call[c].tab = t}
GoCall(c, state)    == call' = [call EXCEPT ![c] = state]
GoRefresh(t, state) == refresh' = [refresh EXCEPT ![t] = state]

\* What uses tokens up is bounded at its source: a page, a login or a call begins
\* while MaxTokens leaves one pair for each refresh under way and each call that
\* may still cause one.  A refresh itself then always finds one left.
Refreshing == {t \in Tab : refresh[t].at \in {"sent", "verified"}}
MayRefresh == {c \in Call : call[c].at \in {"sent", "401"} /\ ~call[c].retry}
SparePair  == issued + Cardinality(Refreshing) + Cardinality(MayRefresh) < MaxTokens

PostRefresh(t, boot) == GoRefresh(t, [at |-> "sent", boot |-> boot, token |-> jar])

SignIn(t, token) ==
    /\ accessToken' = [accessToken EXCEPT ![t] = token]
    /\ authUser' = authUser \cup {t}
SignOut(t) ==
    /\ accessToken' = [accessToken EXCEPT ![t] = 0]
    /\ authUser' = authUser \ {t}

-----------------------------------------------------------------------------
(* Pages. *)

\* The page is loaded, or reloaded with nothing in flight: memory is empty and
\* checkAuth posts a refresh of its own.
CheckAuth(t) ==
    /\ refresh[t] = Idle /\ CallsOf(t) = {}
    /\ SparePair
    /\ SignOut(t)
    /\ PostRefresh(t, TRUE)
    /\ UNCHANGED <<serverVars, jar, call, losses, loggedIn>>

\* login or signup, from the form to its response.
Login(t) ==
    /\ t \notin authUser
    /\ ~(refresh[t] # Idle /\ refresh[t].boot)
    /\ SparePair /\ issued < MaxTokens
    /\ issued' = issued + 1
    /\ jar' = issued'
    /\ SignIn(t, issued')
    /\ loggedIn' = TRUE
    /\ UNCHANGED <<expired, revokedAccess, revokedRefresh, refresh, call, losses>>

\* A signed-in tab calls the API; the request interceptor attaches its token.
Send(c, t, kind) ==
    /\ t \in authUser
    /\ call[c] = Idle
    /\ SparePair
    /\ GoCall(c, [at |-> "sent", tab |-> t, kind |-> kind,
                  token |-> accessToken[t], retry |-> FALSE])
    /\ UNCHANGED <<serverVars, jar, tabVars, refresh, losses>>

-----------------------------------------------------------------------------
(* The server. *)

\* The blocklist keeps an entry as long as its token would have lived.
RevokeJti(blocklist, jti)    == blocklist \cup {jti}
IsJtiRevoked(blocklist, jti) == jti \in blocklist

Accepted(token) == token # 0 /\ token \notin expired /\ ~IsJtiRevoked(revokedAccess, token)

\* protectRoute, then the handler.  logout revokes the access token; the refresh
\* cookie is scoped to /api/auth/refresh, so no browser sends it to logout.
Serve(c) ==
    /\ call[c].at = "sent"
    /\ GoCall(c, [call[c] EXCEPT !.at = IF Accepted(call[c].token) THEN "ok" ELSE "401"])
    /\ revokedAccess' = IF call[c].kind = "logout" /\ Accepted(call[c].token)
                        THEN RevokeJti(revokedAccess, call[c].token) ELSE revokedAccess
    /\ UNCHANGED <<issued, expired, revokedRefresh, jar, tabVars, refresh, losses>>

\* refresh: the cookie's token is verified and looked up in the blocklist ...
VerifyRefresh(t) ==
    /\ refresh[t].at = "sent"
    /\ GoRefresh(t, IF refresh[t].token = 0 \/ IsJtiRevoked(revokedRefresh, refresh[t].token)
                    THEN Answer(refresh[t], FALSE, 0)
                    ELSE [refresh[t] EXCEPT !.at = "verified"])
    /\ UNCHANGED <<serverVars, jar, tabVars, call, losses>>

\* ... and, after the awaits on the user, revoked; a new pair answers.
Rotate(t) ==
    /\ refresh[t].at = "verified"
    /\ issued < MaxTokens
    /\ revokedRefresh' = RevokeJti(revokedRefresh, refresh[t].token)
    /\ issued' = issued + 1
    /\ GoRefresh(t, Answer(refresh[t], TRUE, issued'))
    /\ UNCHANGED <<expired, revokedAccess, jar, tabVars, call, losses>>

ExpireAccess(k) ==
    /\ k \in 1..issued \ expired
    /\ expired' = expired \cup {k}
    /\ UNCHANGED <<issued, revokedAccess, revokedRefresh, jar, tabVars, refresh, call, losses>>

-----------------------------------------------------------------------------
(* Responses. *)

\* A call succeeds; logout's response clears the cookie, and the store is wiped.
ReceiveOK(c) ==
    /\ call[c].at = "ok"
    /\ IF call[c].kind = "logout"
       THEN jar' = 0 /\ SignOut(call[c].tab) /\ loggedIn' = FALSE
       ELSE UNCHANGED <<jar, tabVars>>
    /\ GoCall(c, Idle)
    /\ UNCHANGED <<serverVars, refresh, losses>>

Receive401Looping(c) ==  \* mutant: without the _retry flag
    /\ call[c].at = "401"
    /\ GoCall(c, [call[c] EXCEPT !.at = "waiting"])
    /\ IF refresh[call[c].tab] = Idle THEN PostRefresh(call[c].tab, FALSE)
                                      ELSE UNCHANGED refresh
    /\ UNCHANGED <<serverVars, jar, tabVars, losses>>

\* The interceptor, on a first 401: join the tab's refresh, or start it.
Receive401(c) ==
    /\ call[c].at = "401"
    /\ ~call[c].retry
    /\ GoCall(c, [call[c] EXCEPT !.at = "waiting"])
    /\ IF refresh[call[c].tab] = Idle THEN PostRefresh(call[c].tab, FALSE)
                                      ELSE UNCHANGED refresh
    /\ UNCHANGED <<serverVars, jar, tabVars, losses>>

\* Any other failure reaches the caller; a failed logout wipes the store too.
Fail(c) ==
    /\ GoCall(c, Idle)
    /\ IF call[c].kind = "logout" THEN SignOut(call[c].tab) /\ loggedIn' = FALSE
                                  ELSE UNCHANGED tabVars
    /\ UNCHANGED <<serverVars, jar, refresh>>

Receive401Again(c) ==
    /\ call[c].at = "401"
    /\ call[c].retry
    /\ Fail(c)
    /\ UNCHANGED losses

\* The waiting calls go on with the token the refresh brought, or with none.
WakeWaiting(t, token) ==
    call' = [c \in Call |-> IF c \in CallsOf(t) /\ call[c].at = "waiting"
                            THEN [call[c] EXCEPT !.at = "woken", !.token = token]
                            ELSE call[c]]

ReceiveRefreshAwaitsItself(t) ==  \* mutant: its own 401 is intercepted too
    /\ refresh[t].at = "answered"
    /\ refresh[t].ok \/ refresh[t].boot
    /\ jar' = IF refresh[t].ok THEN refresh[t].token ELSE jar
    /\ IF refresh[t].boot
       THEN /\ IF refresh[t].ok THEN SignIn(t, refresh[t].token) ELSE SignOut(t)
            /\ UNCHANGED call
       ELSE WakeWaiting(t, refresh[t].token) /\ UNCHANGED <<accessToken, authUser>>
    /\ GoRefresh(t, Idle)
    /\ UNCHANGED <<serverVars, losses, loggedIn>>

ReceiveRefreshNoCookie(t) ==  \* mutant: the rotated cookie is not set
    /\ refresh[t].at = "answered"
    /\ IF refresh[t].boot
       THEN /\ IF refresh[t].ok THEN SignIn(t, refresh[t].token) ELSE SignOut(t)
            /\ UNCHANGED call
       ELSE WakeWaiting(t, refresh[t].token) /\ UNCHANGED <<accessToken, authUser>>
    /\ GoRefresh(t, Idle)
    /\ UNCHANGED <<serverVars, jar, losses, loggedIn>>

\* The refresh returns: checkAuth signs the tab in or out (its /auth/check is
\* taken to succeed), the interceptor's wakes the calls that wait for it.
ReceiveRefresh(t) ==
    /\ refresh[t].at = "answered"
    /\ jar' = IF refresh[t].ok THEN refresh[t].token ELSE jar
    /\ IF refresh[t].boot
       THEN /\ IF refresh[t].ok THEN SignIn(t, refresh[t].token) ELSE SignOut(t)
            /\ UNCHANGED call
       ELSE WakeWaiting(t, refresh[t].token) /\ UNCHANGED <<accessToken, authUser>>
    /\ GoRefresh(t, Idle)
    /\ UNCHANGED <<serverVars, losses, loggedIn>>

\* A woken call stores the token and is sent again ...
Retry(c) ==
    /\ call[c].at = "woken"
    /\ call[c].token # 0
    /\ accessToken' = [accessToken EXCEPT ![call[c].tab] = call[c].token]
    /\ GoCall(c, [call[c] EXCEPT !.at = "sent", !.retry = TRUE])
    /\ UNCHANGED <<serverVars, jar, authUser, loggedIn, refresh, losses>>

\* ... or, after a failed refresh, signs the tab out and fails.
GiveUp(c) ==
    /\ call[c].at = "woken"
    /\ call[c].token = 0
    /\ GoCall(c, Idle)
    /\ SignOut(call[c].tab)
    /\ loggedIn' = (loggedIn /\ call[c].kind # "logout")
    /\ UNCHANGED <<serverVars, jar, refresh, losses>>

-----------------------------------------------------------------------------
(* The network. *)

LoseCall(c) ==
    /\ losses < MaxLosses
    /\ call[c].at \in {"sent", "ok", "401"}
    /\ Fail(c)
    /\ losses' = losses + 1

LoseRefresh(t) ==
    /\ losses < MaxLosses
    /\ \/ refresh[t].at \in {"sent", "verified"}
       \/ refresh[t].at = "answered" /\ refresh[t].ok
    /\ GoRefresh(t, Answer(refresh[t], FALSE, 0))
    /\ losses' = losses + 1
    /\ UNCHANGED <<serverVars, jar, tabVars, call>>

CallProgress(c) ==
    Serve(c) \/ ReceiveOK(c) \/ Receive401(c) \/ Receive401Again(c) \/ Retry(c) \/ GiveUp(c)
RefreshProgress(t) == VerifyRefresh(t) \/ Rotate(t) \/ ReceiveRefresh(t)

Next ==
    \/ \E t \in Tab :
          \/ CheckAuth(t) \/ Login(t) \/ RefreshProgress(t) \/ LoseRefresh(t)
          \/ \E c \in Call, kind \in {"api", "logout"} : Send(c, t, kind)
    \/ \E c \in Call : CallProgress(c) \/ LoseCall(c)
    \/ \E k \in 1..MaxTokens : ExpireAccess(k)

Spec == Init /\ [][Next]_vars

\* What has been sent is served or lost, and what arrives is handled; nobody is
\* obliged to send, and no token to expire.
Fairness == /\ \A c \in Call : WF_vars(CallProgress(c))
            /\ \A t \in Tab : WF_vars(RefreshProgress(t))

-----------------------------------------------------------------------------
\* Every variable stays in its domain, and no token is ahead of the server.
TypeOK ==
    /\ issued \in 0..MaxTokens
    /\ expired \cup revokedAccess \cup revokedRefresh \subseteq 1..issued
    /\ jar \in 0..issued
    /\ accessToken \in [Tab -> 0..issued]
    /\ authUser \subseteq Tab
    /\ losses \in 0..MaxLosses
    /\ loggedIn \in BOOLEAN

FailedRefreshes == {t \in Tab : refresh[t].at = "answered" /\ ~refresh[t].ok}

\* The interceptor takes a failed refresh for the death of the session, and the
\* tab signs the user out: so a refresh that presented a cookie fails only if the
\* user has not logged in or has logged out.  (One that had none, of a page that
\* was opened before another tab logged in, has nothing to end.)
RefreshFailureMeansDead ==
    losses = 0 /\ loggedIn => \A t \in FailedRefreshes : ~refresh[t].cookie

\* No call hangs: not behind a refresh that fails, not behind one that waits for
\* itself, and not in a loop of refreshes, however often tokens expire under it.
CallsSettle == \A c \in Call : call[c] # Idle ~> call[c] = Idle
=============================================================================
