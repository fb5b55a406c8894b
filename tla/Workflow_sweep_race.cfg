\* The sweep writes a row that was decided after the sweep read it.
SPECIFICATION Spec
CONSTANTS
    hod = hod
    dean = dean
    rector = rector
    staff = staff
    Instances = {i1}
    Users <- MCUsers
    Admins = {}
    Initiators = {staff}
    Calls = {c1, c2, c3}
    Steps = 2
    Holders <- MCHolders
    Escalation <- MCEscalation
    Nobody = Nobody
    MaxOpen = 2
    MayDie = FALSE
PROPERTIES
    SweepOnlyOpen
CHECK_DEADLOCK FALSE
