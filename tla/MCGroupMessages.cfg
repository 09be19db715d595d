CONSTANTS
    User = {owner, mem}
    Owner = owner
    Manager = {owner}
    AdminsOnly = FALSE
    Limit = 2
    Request = {one, two}
    MaxMessages = 3
    MaxOverlapped = 2
    MaxFailures = 1
    Group = {one, two}
    Slot = {one, two}
    MaxStored = 1
    MaxEvents = 1
    MaxFaults = 1
SPECIFICATION MCSpec
SYMMETRY Symmetry
CHECK_DEADLOCK FALSE
INVARIANTS
    NeverOvercounts
    MessagesSettle
    UnreadOrShown
    OpenGroupIsJoined
    GroupScreenIsFaithful
