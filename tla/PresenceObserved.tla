--------------------------- MODULE PresenceObserved ---------------------------
(* Presence with a history variable that tells the schedules in which two   *)
(* handlers of one user overlapped from those in which each ran by itself.  *)
EXTENDS Presence

VARIABLE overlapped   \* some user has had two handlers under way at once

Overlap == \E s, t \in Socket : /\ s # t /\ Owner[s] = Owner[t]
                                /\ pc[s] \in Underway /\ pc[t] \in Underway

observedVars == <<vars, overlapped>>
ObservedInit == Init /\ overlapped = FALSE
ObservedNext == Next /\ overlapped' = (overlapped \/ Overlap')
ObservedSpec == ObservedInit /\ [][ObservedNext]_observedVars

\* As long as no user's tab events overlap, presence is right whenever no
\* handler of the user is under way: online exactly when a socket is recorded.
OnlineIffTracked ==
    ~overlapped /\ faults = 0 /\ crashes = 0 =>
        \A u \in User :
            (\A s \in SocketsOf(u) : pc[s] \in Settled) =>
                (u \in online_users <=> userSockets[u] # {})
=============================================================================
