CONSTANTS
    u1 = u1 u2 = u2
    s1 = s1 s2 = s2 s3 = s3
    i1 = i1 i2 = i2
    User = {u1, u2}
    Socket = {s1, s2, s3}
    Instance = {i1, i2}
    Owner <- MCOwner
    Home <- MCHome
    MaxFaults = 1
    MaxCrashes = 1
    Parts = {"tokens"}
    Tab = {t1, t2}
    Call = {c1}
    MaxLosses = 0
    Account = {u1, u2}
    NoUser = noUser
    MaxDrops = 1
    MaxTabFaults = 1
    MaxTokens = 3
SPECIFICATION MCSpec
CHECK_DEADLOCK FALSE
INVARIANTS
    RefreshFailureMeansDead
