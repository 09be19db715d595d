CONSTANTS
    User = {one, two}
    Invite = {d1, d2, d3}
    Request = {one, two}
    Peer = {one, two}
    NoPeer = noPeer
    MaxInvites = 3
    MaxReturns = 1
    MaxFaults = 1
    Instance = {one, two}
    Limiter <- MCLimiter
    Route <- MCRoute
    Ceiling <- MCCeiling
    Window <- MCWindow
    MaxRequests = 4
    MaxOutages = 1
    Parts = {"invites", "lists", "limits"}
SPECIFICATION MCSpec
SYMMETRY Symmetry
CHECK_DEADLOCK FALSE
INVARIANTS
    ConsentOfBoth
    OneInviteUnlessRaced
    ListsAreRight
    LimitsKept
PROPERTIES
    AcceptedIsFinal
