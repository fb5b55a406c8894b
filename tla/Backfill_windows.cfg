\* Two requests of one student, two days; both modes, with and without a queue and faults.
SPECIFICATION Spec
CONSTANTS
    r1 = r1
    r2 = r2
    Requests = {r1, r2}
    Days = {1, 2}
    RangeOf <- MCRangeOf
    Handlers = {h1, h2}
    Attempts = 2
    MaxGrants <- MCMaxGrants
    MaxPushes <- MCMaxPushes
SYMMETRY Symmetries
INVARIANTS
    BilledOnce
    ApprovedIsBilled
PROPERTIES
    PostedWhereAllowed
CHECK_DEADLOCK FALSE
