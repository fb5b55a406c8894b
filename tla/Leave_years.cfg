\* One call at a time, or two at once with deaths.
SPECIFICATION LeaveSpec
CONSTANTS
    short = short
    long = long
    Requests = {short, long}
    Days <- MCDays
    StartYears <- MCStartYears
    LastYear = 2
    Annual = 2
    CarryLimit = 1
    Grants = {2}
    Carries = {}
    Handlers = {h1, h2}
    MaxCalls = 2
    None = none
SYMMETRY CallSymmetry
INVARIANTS
    BalancesTellRequests
    LeaveIsHeld
PROPERTIES
    WithinAllowance
CHECK_DEADLOCK FALSE
