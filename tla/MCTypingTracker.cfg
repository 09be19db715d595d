CONSTANTS
    Sender = {a, b}
    Target = {t1, t2}
    THROTTLE = 1
    AUTO_EXPIRE = 5
    Me = me
    NoOne = noOne
    IDLE = 1
    SHOW = 1
    Life = 2
    MaxInFlight = 2
    MaxSends = 1
    MaxLoads = 1
SPECIFICATION MCSpec
CHECK_DEADLOCK FALSE
INVARIANTS
    NoOrphanedIndicator
    LeftConversationIsEnded
PROPERTIES
    IsIndicator
    ScreensGoQuiet
