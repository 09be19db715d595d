CONSTANTS
    Direct = {a, b}
    Grp = {g}
    NoOne = noOne
    Request = {r1, r2}
    MaxDrafts = 2
    MaxRequests = 2
    MaxLoads = 2
    MaxFaults = 1
    Group = {a, b}
    MaxEdits = 2
SPECIFICATION MCSpec
SYMMETRY Symmetry
CHECK_DEADLOCK FALSE
INVARIANTS
    DirectDraftIsOwn
    AnswerIsOwn
    DetailsStayOwn
PROPERTY
    GroupDraftsSurvive
