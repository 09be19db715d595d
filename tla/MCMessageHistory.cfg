CONSTANTS
    Process = {1}
    Limit = {1, 2}
    MaxMessages = 5
    MaxSeconds = 1
    Peer = {one, two}
    Slot = {one, two}
    PageSize = 1
    MaxStored = 2
    MaxEvents = 1
    MaxFaults = 1
SPECIFICATION MCSpec
SYMMETRY Symmetry
CHECK_DEADLOCK FALSE
INVARIANTS
    NothingSkipped
    WalkAdvances
    OwnShownOnce
    ReadIsTrue
    ScreenIsFaithful
