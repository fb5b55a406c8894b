\* Registration of three students, then the attempts and the grade of one; both modes.
SPECIFICATION GradebookSpec
CONSTANTS
    s1 = s1
    s2 = s2
    s3 = s3
    x1 = x1
    x2 = x2
    Students = {s1, s2, s3}
    Sections = {x1, x2}
    Course <- MCCourse
    Clashes <- MCClashes
    MaxEnrollment <- MCMaxEnrollment
    Unqualified = {}
    Handlers = {h1, h2}
    Requests <- MCRequests
    Troubled = {s1}
    Taker <- MCTaker
    Clerks = {w1, w2}
    MaxAttempts <- MCMaxAttempts
    Earned = {80}
    Given = {30}
    MaxBusy = 2
    Entered = {80}
    Overrides = {o1}
    Proposed = {30}
    Cap = 50
    ReleaseOnSubmit = TRUE
    MaxReleases = 1
SYMMETRY Symmetries
INVARIANTS
    SeatsRespected
    PromotedWasEnrolled
    AttemptsWithinLimit
    GradedAsAnswered
PROPERTIES
    EnrolledWhenAllowed
    FirstComeFirstServed
    ApprovedGradeStands
    CapEnforced
CHECK_DEADLOCK FALSE
