---------------------------- MODULE ExcessCredit ----------------------------
(***************************************************************************)
(* Refunds and transfers of a student's excess credit (apps/api/src/       *)
(* finance/finance.service.ts): the amount is validated against the ledger *)
(* and the pending requests when it is requested and again when the chain  *)
(* is approved, each time before the write that depends on it.             *)
(***************************************************************************)
EXTENDS ExcessSummary, FiniteSets, Functions

CONSTANTS
    Requests,    \* requests of one student for a refund or a transfer
    Transfers,   \* those that are transfers
    Amount,      \* Amount[r]
    Procs,       \* handlers; each is used once
    Opening,     \* the totals of the ledger before the first request
    Unpaid,      \* unpaid principal of the active payment plans
    Charge       \* the amount of a charge posted in the meantime, 0 for none

ASSUME ExcessAssumption ==
    /\ Requests # {} /\ IsFiniteSet(Requests)
    /\ Transfers \subseteq Requests
    /\ Amount \in [Requests -> Nat \ {0}]
    /\ Opening \in Totals
    /\ Unpaid \in Nat
    /\ Charge \in Nat

VARIABLES
    mode,      \* "overlap": handlers overlap and die; "serial": neither
    status,    \* status[r]: the status of the stored request, or "ABSENT"
    ledger,    \* the totals of the completed rows
    posted,    \* transfers whose pair of rows was created
    chain,     \* chain[r]: the state of its approval chain
    pc,        \* pc[p]: where handler p is
    job        \* job[p]: its request

vars == <<mode, status, ledger, posted, chain, pc, job>>

Idle == {"idle", "done", "refused", "already_posted", "died"}

Init ==
    /\ mode \in {"serial", "overlap"}
    /\ status = [r \in Requests |-> "ABSENT"]
    /\ ledger = Opening
    /\ posted = {}
    /\ chain = [r \in Requests |-> "none"]
    /\ pc = [p \in Procs |-> "idle"]
    /\ job = [p \in Procs |-> CHOOSE r \in Requests : TRUE]

Goto(p, place) == pc' = [pc EXCEPT ![p] = place]

Working == \E q \in Procs : pc[q] \notin Idle

May(p) == pc[p] = "idle" /\ (mode = "overlap" \/ ~Working)

\* Faulty variant: requests still to be approved reserve nothing.
PendingExcept_None(R) == 0

\* sumPendingExcessRequestAmounts of the rows that are not in R.
PendingExcept(R) ==
    SumFunctionOnSet(Amount, {r \in Requests \ R : status[r] = "PENDING"})

\* Faulty variant: the request being approved reserves its own amount.
Allowed_CountingItself(r, R) == Amount[r] <= MaxRefundable(ledger, Unpaid, PendingExcept({}))

\* validateExcessAmountForStudent, not counting the requests in R.
Allowed(r, R) == Amount[r] <= MaxRefundable(ledger, Unpaid, PendingExcept(R))

-----------------------------------------------------------------------------
\* requestStudentExcessRefund, requestStudentExcessTransfer: validate, then create
\* the pending row with its chain.
Ask(p, r) ==
    /\ May(p)
    /\ status[r] = "ABSENT"
    /\ \A q \in Procs : pc[q] # "idle" => job[q] # r
    /\ job' = [job EXCEPT ![p] = r]
    /\ Goto(p, IF Allowed(r, {}) THEN "create" ELSE "refused")
    /\ UNCHANGED <<mode, status, ledger, posted, chain>>

Create(p) ==
    /\ pc[p] = "create"
    /\ status' = [status EXCEPT ![job[p]] = "PENDING"]
    /\ chain' = [chain EXCEPT ![job[p]] = "open"]
    /\ Goto(p, "done")
    /\ UNCHANGED <<mode, ledger, posted, job>>

\* The engine decides the chain and runs the completion handler, which looks for
\* a pending row.
Approved(p, r) ==
    /\ May(p)
    /\ chain[r] = "open"
    /\ chain' = [chain EXCEPT ![r] = "approved"]
    /\ job' = [job EXCEPT ![p] = r]
    /\ Goto(p, IF status[r] = "PENDING" THEN "validate" ELSE "refused")
    /\ UNCHANGED <<mode, status, ledger, posted>>

\* A refused refund becomes FAILED, a refused transfer CANCELLED.
Rejected(r) ==
    /\ mode = "overlap" \/ ~Working
    /\ chain[r] = "open"
    /\ chain' = [chain EXCEPT ![r] = "rejected"]
    /\ IF status[r] = "PENDING"
       THEN status' = [status EXCEPT ![r] = IF r \in Transfers THEN "CANCELLED" ELSE "FAILED"]
       ELSE UNCHANGED status
    /\ UNCHANGED <<mode, ledger, posted, pc, job>>

Validate(p) ==
    /\ pc[p] = "validate"
    /\ Goto(p, IF Allowed(job[p], {job[p]}) THEN "execute" ELSE "refused")
    /\ UNCHANGED <<mode, status, ledger, posted, chain, job>>

\* A completed refund counts with its absolute amount.
RefundOut(r) == Amount[r]

\* completePendingTransaction; the row must be PENDING still.
Refund(p) ==
    /\ pc[p] = "execute"
    /\ job[p] \notin Transfers
    /\ IF status[job[p]] = "PENDING"
       THEN /\ status' = [status EXCEPT ![job[p]] = "COMPLETED"]
            /\ ledger' = [ledger EXCEPT !.refunds = @ + RefundOut(job[p])]
            /\ Goto(p, "done")
       ELSE /\ Goto(p, "refused")
            /\ UNCHANGED <<status, ledger>>
    /\ UNCHANGED <<mode, posted, chain, job>>

\* executeExcessTransferPair looks for a row with the reference of the request,
\* which the request's own row carries.
ReferenceTaken(r) == status[r] # "ABSENT" \/ r \in posted

\* Where the reference is free the pair is created and the request superseded.
TransferPair(p) ==
    /\ pc[p] = "execute"
    /\ job[p] \in Transfers
    /\ IF ReferenceTaken(job[p])
       THEN Goto(p, "already_posted") /\ UNCHANGED <<status, ledger, posted>>
       ELSE /\ ledger' = [ledger EXCEPT !.transfers = @ + Amount[job[p]]]
            /\ posted' = posted \cup {job[p]}
            /\ status' = [status EXCEPT ![job[p]] = "CANCELLED"]
            /\ Goto(p, "done")
    /\ UNCHANGED <<mode, chain, job>>

\* A charge posted while requests are under way.
PostCharge ==
    /\ Charge > 0
    /\ mode = "overlap" \/ ~Working
    /\ ledger.charges = Opening.charges
    /\ ledger' = [ledger EXCEPT !.charges = @ + Charge]
    /\ UNCHANGED <<mode, status, posted, chain, pc, job>>

Die(p) ==
    /\ mode = "overlap"
    /\ pc[p] \notin Idle
    /\ Goto(p, "died")
    /\ UNCHANGED <<mode, status, ledger, posted, chain, job>>

Step(p) == Create(p) \/ Validate(p) \/ Refund(p) \/ TransferPair(p)

Next ==
    \/ \E p \in Procs, r \in Requests : Ask(p, r) \/ Approved(p, r)
    \/ \E r \in Requests : Rejected(r)
    \/ \E p \in Procs : Step(p) \/ Die(p)
    \/ PostCharge

Spec == Init /\ [][Next]_vars

-----------------------------------------------------------------------------
TypeOK ==
    /\ mode \in {"serial", "overlap"}
    /\ status \in [Requests -> {"ABSENT", "PENDING", "COMPLETED", "FAILED", "CANCELLED"}]
    /\ ledger \in Totals
    /\ posted \subseteq Transfers
    /\ chain \in [Requests -> {"none", "open", "approved", "rejected"}]
    /\ pc \in [Procs -> Idle \cup {"create", "validate", "execute"}]
    /\ job \in [Procs -> Requests]

NoCharge == ledger.charges = Opening.charges

(* However requests, approvals and refusals overlap, no more leaves the      *)
(* account than the cash above the charges and the plan reserve: two         *)
(* requests that pass the first validation together do not both pass the    *)
(* second.  A charge posted between a validation and its write may break    *)
(* this, a scholarship credited in between may not.                         *)
RefundsCovered ==
    LET before == [ledger EXCEPT !.refunds = Opening.refunds,
                                 !.transfers = Opening.transfers]
    IN  NoCharge => (ledger.refunds - Opening.refunds) + (ledger.transfers - Opening.transfers)
                        <= MaxRefundable(before, Unpaid, 0)

(* What may be refunded is never more than the credit on the account, so no  *)
(* refund turns a credit into a debt.                                       *)
RefundableWithinCredit == MaxRefundable(ledger, Unpaid, 0) <= CreditBalance(ledger)

(* When handlers do not overlap and no charge came in between, a refund      *)
(* whose chain was approved is posted: the second validation, which leaves  *)
(* out the request itself, agrees with the first.                           *)
ApprovedIsPosted ==
    (mode = "serial" /\ ~Working /\ NoCharge)
        => \A r \in Requests \ Transfers : chain[r] = "approved" => status[r] = "COMPLETED"

(* A handler that answers "Transfer already posted" is right.               *)
AlreadyPostedMeansPosted ==
    \A p \in Procs : pc[p] = "already_posted" => job[p] \in posted
=============================================================================
