---------------------------- MODULE StudentCredit ---------------------------
(***************************************************************************)
(* ExcessCredit composed with Scholarship over one student's ledger: an    *)
(* award credited by executeScholarshipDisbursement is one more completed  *)
(* row for computeExcessCreditSummary, so it changes what a refund that    *)
(* was validated before may find when it is validated again.               *)
(***************************************************************************)
EXTENDS ExcessCredit

CONSTANTS Awards, AwardAmount, TotalFund, Payers, Completions,
          MaxOpen     \* how many handlers may overlap in mode "overlap"

VARIABLES award, linked, approvals, credits, disbursed, paying, task

awardVars == <<award, linked, approvals, credits, disbursed, paying, task>>

\* The handlers of the two parts are different requests, with places of their own.
Fund == INSTANCE Scholarship WITH
    Amount <- AwardAmount, Procs <- Payers, pc <- paying, job <- task

ASSUME CreditAssumption == Fund!ScholarshipConstants /\ MaxOpen \in Nat

CreditInit == Init /\ Fund!Init

\* A refund, transfer or charge.
ExcessStep == Next /\ UNCHANGED awardVars

\* A disbursement; its credit is one more row of the ledger.
AwardStep ==
    /\ Fund!Next
    /\ \/ UNCHANGED <<credits, ledger>>
       \/ \E a \in Awards : /\ credits'[a] # credits[a]
                           /\ ledger' = [ledger EXCEPT !.scholarship = @ + AwardAmount[a]]
    /\ UNCHANGED <<status, posted, chain, pc, job>>

Open ==
    Cardinality({p \in Procs : pc[p] \notin Idle})
        + Cardinality({q \in Payers : paying[q] \notin Fund!Idle})

CreditNext ==
    /\ ExcessStep \/ AwardStep
    /\ Open' <= IF mode = "serial" THEN 1 ELSE MaxOpen

CreditSpec == CreditInit /\ [][CreditNext]_<<vars, awardVars>>

-----------------------------------------------------------------------------
CreditTypeOK == TypeOK /\ Fund!TypeOK

(* However disbursements overlap, are repeated or die, an award is credited  *)
(* at most once, and a DISBURSED award was credited.                        *)
CreditedOnce == Fund!CreditedOnce

(* An award with a chain is not credited before its chain is approved.      *)
ChainBeforeCredit == Fund!ChainBeforeCredit

(* Neither source of money is overdrawn: no more leaves the account than was *)
(* free, nor is more offered for refund than the credit on it, however      *)
(* requests, approvals and disbursements overlap; and when disbursements    *)
(* neither overlap nor die, the credits of a fund never exceed the fund.    *)
NothingOverdrawn == RefundsCovered /\ RefundableWithinCredit /\ Fund!FundNotExceeded
=============================================================================
