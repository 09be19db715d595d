CONSTANTS
    u1 = u1 u2 = u2
    s1 = s1 s2 = s2
    i1 = i1
    User = {u1, u2}
    Socket = {s1, s2}
    Instance = {i1}
    Owner <- MCOwner
    Home <- MCHomeOne
    MaxFaults = 1
    MaxCrashes = 1
    MaxReads = 2
    Signalled = {i1}
    Request = {r1, r2, r3}
    TTL = 2
    MaxWrites = 3
    MaxCacheFaults = 2
SPECIFICATION MCSpec
CHECK_DEADLOCK FALSE
INVARIANTS
    TimerIffPending
    NoChangeForgotten
    FreshUnlessRaced
PROPERTIES
    Converges
    StalenessEnds
