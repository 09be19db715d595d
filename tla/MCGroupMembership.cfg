CONSTANTS
    User = {a, b, c}
    Request = {r1, r2}
    Capacity = {2}
    Approval = {TRUE, FALSE}
    MaxFailures = 1
    MaxSubmissions = 2
    MaxForms = 2
    MaxLists = 2
    MaxLosses = 1
SPECIFICATION MCSpec
SYMMETRY Symmetry
CHECK_DEADLOCK FALSE
INVARIANTS
    OwnerStays
    SettledWhenIdle
    CapacityKept
    FormIsHonest
