\* Requests and sweeps one at a time; no process dies while the engine is followed.
SPECIFICATION AnnouncementsSpec
CONSTANTS
    hod = hod
    dean = dean
    staff = staff
    i1 = i1
    test = test
    n1 = n1
    n2 = n2
    Instances = {i1}
    Users <- MCUsers
    Admins = {}
    Initiators = {staff}
    Calls = {c1, c2, c3}
    Steps = 2
    Holders <- MCHolders
    Escalation <- MCEscalation
    Nobody = Nobody
    MaxOpen = 1
    MayDie = FALSE
    Workers = {w1, w2}
    MaxFailures = 1
    Events = {i1, test}
    Tests = {test}
    MaxAttempts = 2
    Notices = {n1, n2}
    ChannelsOf <- MCChannelsOf
    Low = {n1, n2}
    Audiences <- MCAudiences
    Tries = 2
INVARIANTS
    LogTellsAttempts
    StatusTellsSent
    TrailComplete
    AnnouncedIsTrue
PROPERTIES
    DecidedOnce
    Announced
    NoticeArrives
    DigestKept
CHECK_DEADLOCK FALSE
