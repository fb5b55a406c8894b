\* Two of the requests and the sweep overlap, and processes may die.
SPECIFICATION Spec
CONSTANTS
    hod = hod
    dean = dean
    rector = rector
    staff = staff
    Instances = {i1}
    Users <- MCUsers
    Admins = {}
    Initiators = {staff}
    Calls = {c1, c2, c3}
    Steps = 2
    Holders <- MCHolders
    Escalation <- MCEscalation
    Nobody = Nobody
    MaxOpen = 2
    MayDie = TRUE
SYMMETRY CallSymmetry
INVARIANTS
    NoStepSkipped
    NoOrphan
CHECK_DEADLOCK FALSE
