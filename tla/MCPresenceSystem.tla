--------------------------- MODULE MCPresenceSystem ---------------------------
(* Small instances of what the server's processes keep in Redis: presence    *)
(* with its broadcasts (PresenceSystem, two users with a tab each on one     *)
(* process) and the copy of a user document (UserCache).  The two share no   *)
(* key, so a behaviour exercises one of them, while the other rests where it *)
(* began.                                                                    *)
EXTENDS PresenceSystem, TLC

CONSTANTS
    u1, u2, s1, s2, i1,
    Request, TTL, MaxWrites, MaxCacheFaults   \* of UserCache

ASSUME CacheAssumption == /\ TTL \in Nat \ {0}
                          /\ MaxWrites \in Nat /\ MaxCacheFaults \in Nat

MCOwner   == (s1 :> u1) @@ (s2 :> u2)
MCHomeOne == [s \in Socket |-> i1]

VARIABLES
    part,         \* the component this behaviour exercises
    doc, cached, ttl, req, cacheFaults, raced, signedIn

Cache == INSTANCE UserCache WITH
    MaxFaults <- MaxCacheFaults, faults <- cacheFaults

cacheVars == <<doc, cached, ttl, req, cacheFaults, raced, signedIn>>
mcVars    == <<part, vars, cacheVars>>

MCInit == part \in {"presence", "cache"} /\ Init /\ Cache!ObservedInit

SystemStep == part = "presence" /\ Next /\ UNCHANGED cacheVars
CacheStep  == part = "cache" /\ Cache!ObservedNext /\ UNCHANGED vars

MCNext == (SystemStep \/ CacheStep) /\ UNCHANGED part

\* Nothing that is fair is enabled in an initial state, so that the fairness of one
\* component asks nothing of the behaviours of another.
MCSpec == MCInit /\ [][MCNext]_mcVars /\ Fairness /\ Cache!Fairness

-----------------------------------------------------------------------------
\* Unless a write meets a read that missed, or an OAuth sign-in skips the
\* deletion, the next request sees a write to the user document.
FreshUnlessRaced == Cache!TypeOK /\ Cache!FreshUnlessRaced

\* A stale copy does not outlive its TTL.
StalenessEnds == Cache!StalenessEnds
=============================================================================
