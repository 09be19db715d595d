----------------------------- MODULE MCChatInvites -----------------------------
(* Small instances of invites: the handlers on the invites of one pair       *)
(* (ChatInvites), the lists a tab keeps of them (InviteLists), and the       *)
(* limiters the requests pass on the way (RateLimiter, with two processes    *)
(* and two routes: signing in, and something only the global limiter         *)
(* counts).  They share no modelled state, so a behaviour exercises one of   *)
(* them, while the others rest where they began.                             *)
EXTENDS ChatInvites, Sequences, TLC

CONSTANTS
    Parts,                                            \* the components that are explored
    Peer, NoPeer, MaxInvites, MaxReturns, MaxFaults,  \* of InviteLists
    Instance, Limiter, Route, Ceiling, Window,        \* of RateLimiter
    MaxRequests, MaxOutages

\* A process is not called like the store, and a route names a limiter once.
ASSUME ProcessAssumption == "redis" \notin Instance /\ IsFiniteSet(Request)
ASSUME ListsAssumption == NoPeer \notin Peer /\ IsFiniteSet(Peer) /\ MaxInvites \in Nat
ASSUME LimiterAssumption ==
    /\ "authLimiter" \in Limiter
    /\ Ceiling \in [Limiter -> Nat] /\ Window \in [Limiter -> Nat \ {0}]
    /\ \A route \in DOMAIN Route :
          /\ Route[route] \in Seq(Limiter)
          /\ \A m, n \in 1..Len(Route[route]) : Route[route][m] = Route[route][n] => m = n

MCLimiter == {"globalLimiter", "authLimiter"}
MCRoute   == ("login" :> <<"globalLimiter", "authLimiter">>) @@ ("check" :> <<"globalLimiter">>)
MCCeiling == ("globalLimiter" :> 3) @@ ("authLimiter" :> 2)
MCWindow  == [l \in MCLimiter |-> 2]

VARIABLES
    part,         \* the component this behaviour exercises
    overlapped,   \* two requests have been in flight at once
    peerInvite, changes, connected, inbox, mounted, profile, pendingInvites, sentInvites,
    users, load, act, returns, faults, raced, untold, truth,
    store, link, counter, limited, late, passed, own, arrived, outages

Lists  == INSTANCE InviteListsObserved WITH invite <- peerInvite
Limits == INSTANCE RateLimiter WITH req <- limited

inviteVars == <<vars, overlapped>>
listVars   == <<peerInvite, changes, connected, inbox, mounted, profile, pendingInvites,
                sentInvites, users, load, act, returns, faults, raced, untold, truth>>
limitVars  == <<store, link, counter, limited, late, passed, own, arrived, outages>>
mcVars     == <<part, inviteVars, listVars, limitVars>>

Overlap == \E r, q \in Request : r # q /\ req[r] # Idle /\ req[q] # Idle

MCInit ==
    /\ part \in Parts
    /\ Init /\ overlapped = FALSE
    /\ Lists!ObservedInit
    /\ Limits!Init

InviteStep ==
    /\ part = "invites"
    /\ Next /\ overlapped' = (overlapped \/ Overlap')
    /\ UNCHANGED <<listVars, limitVars>>

ListStep  == part = "lists" /\ Lists!ObservedNext /\ UNCHANGED <<inviteVars, limitVars>>
LimitStep == part = "limits" /\ Limits!Next /\ UNCHANGED <<inviteVars, listVars>>

MCNext == (InviteStep \/ ListStep \/ LimitStep) /\ UNCHANGED part
MCSpec == MCInit /\ [][MCNext]_mcVars

-----------------------------------------------------------------------------
\* Requests that do not overlap leave at most one invite between two users.
OneInviteUnlessRaced == ~overlapped => AtMostOneInvite

\* ... and never lose or reopen an accepted one, which is what "already
\* connected" and the sidebar rest on.
AcceptedIsFinal ==
    [][\A i \in Invite : ~overlapped' /\ invite[i].status = "accepted" =>
            invite'[i] = invite[i]]_inviteVars

\* A tab that has come to rest shows the invites and the contacts the server has,
\* and a profile page opened from it offers what the server allows, unless a
\* load, an event and an answer met.
ListsAreRight ==
    Lists!TypeOK /\ Lists!ListsAreRight /\ Lists!ContactsAreRight /\ Lists!ProfileIsRight

\* No counter lets more requests through in a window than its limiter's ceiling and
\* the decrements of requests that were counted in the window before, on whatever
\* processes they arrive; and a limiter that counts in memory refuses only for what
\* it has counted itself.
LimitsKept == Limits!TypeOK /\ Limits!CeilingKept /\ Limits!RefusedForOwnInMemory

\* The comment on authLimiter: only failed attempts consume its budget.
OnlyFailedAttemptsCount == Limits!OnlyFailedAttemptsCount

\* The sets of each component have the same two values, which are exchanged together.
Symmetry == Permutations(Request)
=============================================================================
