------------------------------- MODULE UserCache -------------------------------
(***************************************************************************)
(* The cache-aside copy of one user document (backend/src/lib/redis.js).   *)
(*                                                                         *)
(* Five readers share one pattern: protectRoute, the socket handshake,     *)
(* refresh, sendChatInvite and the public profile look in Redis, on a miss *)
(* read MongoDB, and put what they read into Redis with a TTL.  Writers    *)
(* change the document and then delete the entry; the OAuth sign-in        *)
(* changes it and does not.  Every Redis or MongoDB call is awaited, so    *)
(* other handlers run between any two of them.                             *)
(*                                                                         *)
(* The document is abstracted to a version number.                         *)
(***************************************************************************)
EXTENDS Integers

CONSTANTS
    Request,     \* handlers that may run at the same time
    TTL,         \* ticks an entry lives (USER_CACHE_TTL_SECONDS)
    MaxWrites,   \* bound: writes to the document
    MaxFaults    \* bound: Redis calls that fail or find Redis disconnected

VARIABLES
    doc,       \* the version in MongoDB
    cached,    \* the version in Redis, or None
    ttl,       \* ticks until the entry expires
    req,       \* the handler each request is in
    faults     \* Redis calls that failed so far

vars == <<doc, cached, ttl, req, faults>>

None == -1
Idle == [at |-> "idle"]

Init ==
    /\ doc = 0
    /\ cached = None
    /\ ttl = 0
    /\ req = [r \in Request |-> Idle]
    /\ faults = 0

Begin(r, handler) == req[r] = Idle /\ req' = [req EXCEPT ![r] = handler]
Go(r, handler)    == req' = [req EXCEPT ![r] = handler]
At(r, place)      == req[r].at = place

\* A Redis helper swallows the error, or returns at once when disconnected.
RedisFails == faults < MaxFaults /\ faults' = faults + 1
RedisWorks == UNCHANGED faults

-----------------------------------------------------------------------------
(* Readers. *)

GetCachedUserRenewing(r) ==  \* mutant: every hit renews the TTL
    /\ req[r] = Idle
    /\ \/ cached # None /\ ttl' = TTL /\ UNCHANGED <<doc, cached, req, faults>>
       \/ cached = None /\ Begin(r, [at |-> "findById"]) /\ UNCHANGED <<doc, cached, ttl, faults>>

\* A hit is served, and the entry lives no longer for it; a miss goes to MongoDB.
GetCachedUser(r) ==
    /\ req[r] = Idle
    /\ \/ cached # None /\ RedisWorks /\ UNCHANGED req
       \/ ((cached = None /\ RedisWorks) \/ RedisFails) /\ Begin(r, [at |-> "findById"])
    /\ UNCHANGED <<doc, cached, ttl>>

FindById(r) ==
    /\ At(r, "findById")
    /\ Go(r, [at |-> "cacheUser", user |-> doc])
    /\ UNCHANGED <<doc, cached, ttl, faults>>

\* setEx with the version read before; the request then goes on with it.
CacheUser(r) ==
    /\ At(r, "cacheUser")
    /\ \/ cached' = req[r].user /\ ttl' = TTL /\ RedisWorks
       \/ UNCHANGED <<cached, ttl>> /\ RedisFails
    /\ Go(r, Idle)
    /\ UNCHANGED doc

-----------------------------------------------------------------------------
(* Writers. *)

\* updateProfile, linkOAuthAccount, unlinkOAuthAccount.
Write(r) ==
    /\ doc < MaxWrites
    /\ doc' = doc + 1
    /\ Begin(r, [at |-> "deleteCachedUser"])
    /\ UNCHANGED <<cached, ttl, faults>>

DeleteForgotten(r) ==  \* mutant: the entry is left to expire
    At(r, "deleteCachedUser") /\ Go(r, Idle) /\ UNCHANGED <<doc, cached, ttl, faults>>

DeleteCachedUser(r) ==
    /\ At(r, "deleteCachedUser")
    /\ \/ cached' = None /\ ttl' = 0 /\ RedisWorks
       \/ UNCHANGED <<cached, ttl>> /\ RedisFails
    /\ Go(r, Idle)
    /\ UNCHANGED doc

\* The Google strategy links an existing account and saves it.
OAuthSignIn(r) ==
    /\ req[r] = Idle
    /\ doc < MaxWrites
    /\ doc' = doc + 1
    /\ UNCHANGED <<cached, ttl, req, faults>>

\* Redis expires the entry.
Tick ==
    /\ ttl > 0
    /\ ttl' = ttl - 1
    /\ cached' = IF ttl = 1 THEN None ELSE cached
    /\ UNCHANGED <<doc, req, faults>>

Progress(r) == FindById(r) \/ CacheUser(r) \/ DeleteCachedUser(r)

Next ==
    \/ \E r \in Request : GetCachedUser(r) \/ Write(r) \/ OAuthSignIn(r) \/ Progress(r)
    \/ Tick

Spec == Init /\ [][Next]_vars

\* Awaited calls are answered and time passes; nobody owes a request.
Fairness == WF_vars(Tick) /\ \A r \in Request : WF_vars(Progress(r))

-----------------------------------------------------------------------------
\* Every variable stays in its domain, and an entry has a remaining life.
TypeOK ==
    /\ doc \in 0..MaxWrites
    /\ cached \in {None} \cup (0..doc)
    /\ ttl \in 0..TTL
    /\ cached = None <=> ttl = 0
    /\ \A r \in Request :
          req[r] \in {Idle, [at |-> "findById"], [at |-> "deleteCachedUser"]}
                     \cup [at : {"cacheUser"}, user : 0..doc]
    /\ faults \in 0..MaxFaults

Fresh == cached \in {None, doc}

\* The contract of the cache: once a write has returned, the next request sees
\* it.  It is only claimed while Redis answers.
NextRequestSeesWrite ==
    faults = 0 /\ (\A r \in Request : ~At(r, "deleteCachedUser")) => Fresh

\* Whatever refills, failed deletions and forgotten invalidations have left in
\* Redis, staleness ends once writing has: no reader keeps an old copy alive.
StalenessEnds == <>[][UNCHANGED doc]_vars => <>[]Fresh

-----------------------------------------------------------------------------
(* History variables tell the schedules in which a request on its way from a *)
(* miss to the cache met a write from those in which none did.               *)
VARIABLES raced,     \* a read that had missed was in flight together with a write
          signedIn   \* an OAuth sign-in changed the document

Overlap == \E r, q \in Request : At(r, "deleteCachedUser")
                                 /\ (At(q, "findById") \/ At(q, "cacheUser"))

ObservedInit == Init /\ raced = FALSE /\ signedIn = FALSE
ObservedNext ==
    /\ Next
    /\ raced' = (raced \/ Overlap')
    /\ signedIn' = (signedIn \/ \E r \in Request : OAuthSignIn(r))
observedVars == <<vars, raced, signedIn>>

\* Unless a write meets a read that missed, or an OAuth sign-in skips the
\* deletion, the cache keeps its contract, concurrent misses and concurrent
\* writes notwithstanding.
FreshUnlessRaced == raced \/ signedIn \/ NextRequestSeesWrite
=============================================================================
