\* Refunds, a transfer, a charge and awards of one student, with a transfer that is approved.
SPECIFICATION CreditSpec
CONSTANTS
    r1 = r1
    r2 = r2
    r3 = r3
    Requests = {r1, r2, r3}
    Transfers = {r3}
    Amount <- MCAmount
    Procs = {p1, p2, p3, p4}
    Opening <- MCOpening
    Unpaid = 1
    Charge = 2
    Awards = {a1, a2}
    AwardAmount <- MCAwardAmount
    TotalFund = 3
    Payers = {q1, q2}
    Completions = 1
    MaxOpen = 2
INVARIANTS
    AlreadyPostedMeansPosted
CHECK_DEADLOCK FALSE
