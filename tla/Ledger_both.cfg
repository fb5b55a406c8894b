\* One at a time, or three handlers at once; processes may die.
SPECIFICATION Spec
CONSTANTS
    charge = charge
    online = online
    online2 = online2
    refund = refund
    acct = acct
    bank = bank
    fees = fees
    receivable = receivable
    Codes = {bank}
    Txns = {charge, online, refund}
    Accounts = {acct}
    Procs = {p1, p2, p3}
    AccountOf <- MCAccountOf
    Kind <- MCKind
    Amount <- MCAmount
    Online = {online}
    Contested = {refund}
    LinesOf <- MCLinesOf
    PlanTotal <- MCPlanTotal
    Null = none
    Completions = 2
    MaxOpen = 3
    MayDie = TRUE
SYMMETRY ProcSymmetry
INVARIANTS
    JournaledOnce
    RefundSentOnce
    AftermathDone
PROPERTIES
    KeepsTheBook
CHECK_DEADLOCK FALSE
