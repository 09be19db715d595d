--------------------------- MODULE SessionObserved ---------------------------
(* Session with a history variable that tells the schedules in which a      *)
(* logout failed, or logging in or out completed while another request was  *)
(* in flight, from the orderly ones.                                        *)
EXTENDS Session

VARIABLE overlapped

Busy == (\E t \in Tab : refresh[t] # Idle) \/ (\E c \in Call : call[c] # Idle)

LogoutSucceeds == \E c \in Call : call[c] # Idle /\ call[c].at = "ok"
                                 /\ call[c].kind = "logout" /\ call'[c] = Idle

Disturbed == loggedIn' # loggedIn /\ (Busy' \/ (loggedIn /\ ~LogoutSucceeds))

observedVars == <<vars, overlapped>>
ObservedInit == Init /\ overlapped = FALSE
ObservedNext == Next /\ overlapped' = (overlapped \/ Disturbed)

\* A lone tab whose logins and logouts do not meet other requests is signed out
\* by a failing refresh only when its session is over: neither rotation nor any
\* number of calls that find their token expired at once end it.
LoneTabStaysIn == ~overlapped /\ losses = 0 /\ loggedIn => FailedRefreshes = {}

\* ... and once its user has logged out nothing, a reload included, shows them
\* as signed in again.
LoneTabStaysOut == ~overlapped /\ losses = 0 /\ ~loggedIn => authUser = {}
=============================================================================
