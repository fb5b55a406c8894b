\* A refund is approved.
SPECIFICATION Spec
CONSTANTS
    charge = charge
    online = online
    online2 = online2
    refund = refund
    acct = acct
    bank = bank
    fees = fees
    receivable = receivable
    Codes = {bank, fees, receivable}
    Txns = {charge, refund}
    Accounts = {acct}
    Procs = {p1, p2}
    AccountOf <- MCAccountOf
    Kind <- MCKind
    Amount <- MCAmount
    Online = {}
    Contested = {}
    LinesOf <- MCLinesOfAll
    PlanTotal <- MCPlanTotal
    Null = none
    Completions = 1
    MaxOpen = 1
    MayDie = FALSE
SYMMETRY ProcSymmetry
INVARIANTS
    JournalAgrees
CHECK_DEADLOCK FALSE
