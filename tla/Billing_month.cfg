\* The students in full, or the billing of a month; one call at a time, or two at once with
\* deaths.
SPECIFICATION BillingSpec
CONSTANTS
    student = student
    Students = {student}
    Requests = {request}
    Deletions = {deletion}
    StudentOf <- MCStudentOf
    Handlers = {h1, h2}
    MaxChanges = 3
    Invoices = {invoice}
    Disputes = {dispute}
    Workers = {w1, w2}
    LastDay = 2
    MaxOpen = 2
    CountedChanges = 1
    Attempts = 2
    None = none
SYMMETRY CallSymmetry
INVARIANTS
    ApprovedMeansReactivated
    LogTellsStatus
    LockedBillsPeak
    LockedUndisputed
PROPERTIES
    SnapshotReconciles
CHECK_DEADLOCK FALSE
