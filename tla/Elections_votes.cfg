\* One voter, two positions, both modes; a manager may reopen or close the voting.
SPECIFICATION Spec
CONSTANTS
    a1 = a1
    a2 = a2
    b1 = b1
    Voters = {v1}
    Candidates = {a1, a2, b1}
    PositionOf <- MCPositionOf
    Edits = {"VOTING_OPEN"}
    Handlers = {h1, h2}
SYMMETRY Symmetries
INVARIANTS
    OneVotePerPosition
    RecordedWhole
PROPERTIES
    BallotsByTheRules
CHECK_DEADLOCK FALSE
