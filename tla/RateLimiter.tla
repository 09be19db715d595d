------------------------------- MODULE RateLimiter -------------------------------
(***************************************************************************)
(* The rate limiters of backend/src/middleware/rateLimiter.js for one      *)
(* client with one address, signed in as one user: how each process        *)
(* chooses its store when it boots (index.js, startServer), and how a      *)
(* request passes the limiters of its route.                               *)
(*                                                                         *)
(* Every limiter is built without a prefix of its own, so in Redis a       *)
(* counter is known by the key alone: "ip" for the limiters that run       *)
(* before protectRoute, "user" for those after it.  In memory every        *)
(* limiter of every process has its own.  A counter is how many hits it    *)
(* has and how many ticks it has left, 0 for no expiry.                    *)
(***************************************************************************)
EXTENDS Integers, Sequences

CONSTANTS
    Instance, Request,
    Limiter,     \* the limiters of the routes under study
    Route,       \* those routes, and the limiters each request passes
    Ceiling,     \* max of each limiter
    Window,      \* windowMs of each limiter, in ticks
    MaxRequests, \* bound: requests that arrive
    MaxOutages   \* bound: times a process cannot reach Redis

VARIABLES
    store,     \* what the limiters of each process count in
    link,      \* each process's Redis client
    counter,
    req,
    late,      \* history: decrements that met a later window than their hit
    passed,    \* history: requests each limiter let through on a counter
    own,       \* history: what each limiter counted, successes it skips left out
    arrived, outages

history == <<late, passed, own>>
bounds  == <<arrived, outages>>
vars == <<store, link, counter, req, history, bounds>>

KeyOf(l) == IF l \in {"globalLimiter", "authLimiter"} THEN "ip" ELSE "user"
SkipsSuccessful(l) == l = "authLimiter"

Shared  == {"redis"} \X {"ip", "user"}
Counter == Shared \cup Instance \X Limiter
CounterOf(i, l) == IF store[i] = "redis" THEN <<"redis", KeyOf(l)>> ELSE <<i, l>>

\* The counter the ceiling of l is for: one of its own only for a process that
\* could not reach Redis when it booted.
Scope(i, l) == IF store[i] = "memory" /\ link[i] = "gone" THEN <<i, l>> ELSE <<"redis", KeyOf(l)>>

Unused == [hits |-> 0, left |-> 0]
Idle   == [at |-> "idle"]

Init ==
    /\ store = [i \in Instance |-> "unset"] /\ link = [i \in Instance |-> "down"]
    /\ counter = [c \in Counter |-> Unused]
    /\ req = [r \in Request |-> Idle]
    /\ late = [c \in Counter |-> 0]
    /\ passed = [c \in Counter |-> [l \in Limiter |-> 0]]
    /\ own = [l \in Limiter |-> 0]
    /\ arrived = 0 /\ outages = 0

-----------------------------------------------------------------------------
(* Processes. *)

BootInMemory(i) ==  \* mutant: the limiters are built before Redis is connected
    /\ store[i] = "unset"
    /\ store' = [store EXCEPT ![i] = "memory"] /\ link' = [link EXCEPT ![i] = "up"]
    /\ UNCHANGED <<counter, req, history, bounds>>

\* connectRedis, then buildLimiter for every limiter, then listen.  A process
\* that has not reached Redis goes on without it, and does not try again.
Boot(i) ==
    /\ store[i] = "unset"
    /\ \/ /\ store' = [store EXCEPT ![i] = "redis"] /\ link' = [link EXCEPT ![i] = "up"]
          /\ UNCHANGED outages
       \/ /\ outages < MaxOutages /\ outages' = outages + 1
          /\ store' = [store EXCEPT ![i] = "memory"] /\ link' = [link EXCEPT ![i] = "gone"]
    /\ UNCHANGED <<counter, req, history, arrived>>

\* The connection breaks.  It is tried again up to four times, ...
LoseLink(i) ==
    /\ link[i] = "up" /\ outages < MaxOutages
    /\ outages' = outages + 1
    /\ link' = [link EXCEPT ![i] = "down"]
    /\ UNCHANGED <<store, counter, req, history, arrived>>

\* ... after which the client gives up for good.
Reconnect(i) ==
    /\ store[i] = "redis" /\ link[i] = "down"
    /\ \E state \in {"up", "gone"} : link' = [link EXCEPT ![i] = state]
    /\ UNCHANGED <<store, counter, req, history, bounds>>

-----------------------------------------------------------------------------
(* Requests. *)

Arrive(r, i, route) ==
    /\ store[i] # "unset" /\ req[r] = Idle /\ arrived < MaxRequests
    /\ arrived' = arrived + 1
    /\ req' = [req EXCEPT ![r] = [at |-> "counting", i |-> i, todo |-> Route[route],
                                  skip |-> {}, late |-> {}]]
    /\ UNCHANGED <<store, link, counter, history, outages>>

\* A hit starts the window of a counter that has none.
Hit(k, l) == [hits |-> k.hits + 1, left |-> IF k.left = 0 THEN Window[l] ELSE k.left]

\* A limiter increments its counter and lets the request through up to max.
Count(r) ==
    LET i == req[r].i
        l == Head(req[r].todo)
        c == CounterOf(i, l)
        k == Hit(counter[c], l)
    IN  /\ req[r].at = "counting" /\ req[r].todo # << >>
        /\ store[i] = "memory" \/ link[i] = "up"
        /\ counter' = [counter EXCEPT ![c] = k]
        /\ own' = [own EXCEPT ![l] = @ + 1]
        /\ IF k.hits <= Ceiling[l]
           THEN /\ passed' = [passed EXCEPT ![Scope(i, l)][l] = @ + 1]
                /\ req' = [req EXCEPT ![r].todo = Tail(@),
                                      ![r].skip = IF SkipsSuccessful(l) THEN @ \cup {c} ELSE @]
           ELSE /\ req' = [req EXCEPT ![r] = [at |-> "429", i |-> i, by |-> l, own |-> own'[l]]]
                /\ UNCHANGED passed
        /\ UNCHANGED <<store, link, late, bounds>>

\* The command of a client that has given up is rejected, and the request fails.
CountRejected(r) ==
    /\ req[r].at = "counting" /\ req[r].todo # << >>
    /\ store[req[r].i] = "redis" /\ link[req[r].i] = "gone"
    /\ req' = [req EXCEPT ![r] = [at |-> "500", i |-> req[r].i]]
    /\ UNCHANGED <<store, link, counter, history, bounds>>

\* A failed request stays counted.
RespondFailure(r) ==
    /\ \/ req[r].at = "counting" /\ req[r].todo = << >>
       \/ req[r].at \in {"429", "500"}
    /\ req' = [req EXCEPT ![r] = Idle]
    /\ UNCHANGED <<store, link, counter, history, bounds>>

\* What a successful one counted is taken back where the limiter says so, from
\* whatever the counter is by then, unless the client has given up; in memory
\* never below 0.
RespondSuccess(r) ==
    LET taken == {c \in req[r].skip : IF c \in Shared THEN link[req[r].i] = "up"
                                                       ELSE counter[c].hits > 0}
    IN  /\ req[r].at = "counting" /\ req[r].todo = << >>
        /\ req[r].skip \cap Shared # {} => link[req[r].i] # "down"
        /\ counter' = [c \in Counter |-> IF c \in taken THEN [counter[c] EXCEPT !.hits = @ - 1]
                                                        ELSE counter[c]]
        /\ late' = [c \in Counter |-> IF c \in taken \cap req[r].late THEN late[c] + 1 ELSE late[c]]
        /\ passed' = [c \in Counter |-> [l \in Limiter |->
                        IF SkipsSuccessful(l) /\ c \in taken \ req[r].late
                        THEN passed[c][l] - 1 ELSE passed[c][l]]]
        /\ own' = [l \in Limiter |-> IF SkipsSuccessful(l) /\ req[r].skip # {}
                                     THEN own[l] - 1 ELSE own[l]]
        /\ req' = [req EXCEPT ![r] = Idle]
        /\ UNCHANGED <<store, link, bounds>>

\* A tick passes; counters whose time is over are gone.
Tick ==
    LET over == {c \in Counter : counter[c].left = 1}
    IN  /\ \E c \in Counter : counter[c].left > 0
        /\ counter' = [c \in Counter |->
                         IF c \in over \/ counter[c].left = 0
                         THEN IF c \in over THEN Unused ELSE counter[c]
                         ELSE [counter[c] EXCEPT !.left = @ - 1]]
        /\ late' = [c \in Counter |-> IF c \in over THEN 0 ELSE late[c]]
        /\ passed' = [c \in Counter |-> IF c \in over THEN [l \in Limiter |-> 0] ELSE passed[c]]
        /\ req' = [r \in Request |-> IF req[r].at = "counting"
                                     THEN [req[r] EXCEPT !.late = @ \cup (req[r].skip \cap over)]
                                     ELSE req[r]]
        /\ UNCHANGED <<store, link, own, bounds>>

Next ==
    \/ \E i \in Instance :
          \/ Boot(i) \/ LoseLink(i) \/ Reconnect(i)
          \/ \E r \in Request, route \in DOMAIN Route : Arrive(r, i, route)
    \/ \E r \in Request :
          Count(r) \/ CountRejected(r) \/ RespondFailure(r) \/ RespondSuccess(r)
    \/ Tick

Spec == Init /\ [][Next]_vars

-----------------------------------------------------------------------------
\* Every variable stays in its domain: no request is counted by a process that
\* has not built its limiters, and only Redis goes below zero, by decrements that
\* came after their window.
TypeOK ==
    /\ \A i \in Instance : store[i] = "unset" => \A r \in Request : req[r] # Idle => req[r].i # i
    /\ \A c \in Counter : /\ \E l \in Limiter : counter[c].left \in 0..Window[l]
                          /\ counter[c].hits < 0 => late[c] > 0 \/ counter[c].left = 0
                          /\ c \notin Shared => counter[c].hits >= 0
    /\ \A l \in Limiter : own[l] \in 0..arrived

\* Wherever requests arrive, within a window no limiter lets through more than its
\* ceiling of those that count, plus the decrements of requests that were counted
\* in the window before: all processes that reached Redis when they booted share
\* the ceiling.
CeilingKept ==
    \A c \in Counter : \A l \in Limiter : passed[c][l] <= Ceiling[l] + late[c]

\* A limiter that counts in memory refuses no request unless it has counted more
\* than its ceiling itself.
RefusedForOwnInMemory ==
    \A r \in Request :
        req[r].at = "429" /\ store[req[r].i] = "memory" => req[r].own > Ceiling[req[r].by]

\* The comment on authLimiter: a request that succeeds is not counted, only failed
\* attempts consume the budget.
OnlyFailedAttemptsCount ==
    \A r \in Request :
        req[r].at = "429" /\ SkipsSuccessful(req[r].by) => req[r].own > Ceiling[req[r].by]

\* The comment on the memory store: traffic is not refused because Redis is down.
FailsOpen == \A r \in Request : req[r].at # "500"
=============================================================================
