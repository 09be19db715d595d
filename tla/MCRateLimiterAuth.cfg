CONSTANTS
    User = {one, two}
    Invite = {d1, d2, d3}
    Request = {one, two}
    Peer = {one, two}
    NoPeer = noPeer
    MaxInvites = 3
    MaxReturns = 1
    MaxFaults = 1
    Instance = {one, two}
    Limiter <- MCLimiter
    Route <- MCRoute
    Ceiling <- MCCeiling
    Window <- MCWindow
    MaxRequests = 4
    MaxOutages = 2
    Parts = {"limits"}
SPECIFICATION MCSpec
CHECK_DEADLOCK FALSE
INVARIANTS
    OnlyFailedAttemptsCount
