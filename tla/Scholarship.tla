----------------------------- MODULE Scholarship ----------------------------
(***************************************************************************)
(* Disbursement of scholarship awards from a fund (apps/api/src/finance/   *)
(* finance.service.ts): an award is created with an approval chain, and    *)
(* without one when the chain cannot be started; an approved award is      *)
(* credited to the student's ledger under a reference of its own.          *)
(***************************************************************************)
EXTENDS Integers, FiniteSets, Functions

CONSTANTS
    Awards,        \* awards of one scholarship fund
    Amount,        \* Amount[a]
    TotalFund,     \* the fund
    Procs,         \* handlers; each is used once
    Completions    \* how often the engine may complete the chain of one award

\* What the constants are.
ScholarshipConstants ==
    /\ Awards # {} /\ IsFiniteSet(Awards)
    /\ Amount \in [Awards -> Nat \ {0}]
    /\ TotalFund \in Nat
    /\ Completions \in Nat

VARIABLES
    mode,       \* "overlap": handlers overlap and die; "serial": neither
    award,      \* award[a]: its status, or "ABSENT"
    linked,     \* awards created together with a chain
    approvals,  \* approvals[a]: how often its chain was completed
    credits,    \* credits[a]: ledger rows with the reference of the award
    disbursed,  \* the fund's disbursedAmount
    pc,         \* pc[p]: where handler p is
    job         \* job[p]: its award

vars == <<mode, award, linked, approvals, credits, disbursed, pc, job>>

Idle == {"idle", "done", "refused", "died"}

Init ==
    /\ mode \in {"serial", "overlap"}
    /\ award = [a \in Awards |-> "ABSENT"]
    /\ linked = {}
    /\ approvals = [a \in Awards |-> 0]
    /\ credits = [a \in Awards |-> 0]
    /\ disbursed = 0
    /\ pc = [p \in Procs |-> "idle"]
    /\ job = [p \in Procs |-> CHOOSE a \in Awards : TRUE]

Goto(p, place) == pc' = [pc EXCEPT ![p] = place]

Working == \E q \in Procs : pc[q] \notin Idle

May(p) == pc[p] = "idle" /\ (mode = "overlap" \/ ~Working)

-----------------------------------------------------------------------------
\* createScholarshipAward: the award with its chain, in one transaction.
CreateLinked(a) ==
    /\ award[a] = "ABSENT"
    /\ award' = [award EXCEPT ![a] = "PENDING"]
    /\ linked' = linked \cup {a}
    /\ UNCHANGED <<mode, approvals, credits, disbursed, pc, job>>

\* The chain could not be started (no definition, no holder of its first
\* position): the error is caught and the award created without one.
CreateUnlinked(a) ==
    /\ award[a] = "ABSENT"
    /\ award' = [award EXCEPT ![a] = "PENDING"]
    /\ UNCHANGED <<mode, linked, approvals, credits, disbursed, pc, job>>

\* Faulty variant: the link to a chain is not looked at.
Disbursable_AnyLink(a) == award[a] \in {"PENDING", "APPROVED"}

\* disburseScholarshipAward: what the bursar may disburse by hand.
Disbursable(a) == award[a] = "APPROVED" \/ (award[a] = "PENDING" /\ a \notin linked)

DisburseByHand(p, a) ==
    /\ May(p)
    /\ Disbursable(a)
    /\ job' = [job EXCEPT ![p] = a]
    /\ Goto(p, "check")
    /\ UNCHANGED <<mode, award, linked, approvals, credits, disbursed>>

\* disburseScholarshipAwardFromWorkflow: APPROVED is written whatever the status is.
ChainCompleted(p, a) ==
    /\ May(p)
    /\ a \in linked
    /\ approvals[a] < Completions
    /\ approvals' = [approvals EXCEPT ![a] = @ + 1]
    /\ award' = [award EXCEPT ![a] = "APPROVED"]
    /\ job' = [job EXCEPT ![p] = a]
    /\ Goto(p, "check")
    /\ UNCHANGED <<mode, linked, credits, disbursed>>

\* executeScholarshipDisbursement: the award and its fund are read together.
FundAllows(a) == Amount[a] <= TotalFund - disbursed

CheckFund(p) ==
    /\ pc[p] = "check"
    /\ Goto(p, IF award[job[p]] # "DISBURSED" /\ FundAllows(job[p])
               THEN "credit" ELSE "refused")
    /\ UNCHANGED <<mode, award, linked, approvals, credits, disbursed, job>>

\* Faulty variant: a new reference for every attempt.
ReferenceFree_Always(a) == TRUE

\* The reference SCH-<award> is looked up and is unique in the table.
ReferenceFree(a) == credits[a] = 0

Credit(p) ==
    /\ pc[p] = "credit"
    /\ IF ReferenceFree(job[p])
       THEN /\ credits' = [credits EXCEPT ![job[p]] = @ + 1]
            /\ Goto(p, "mark")
       ELSE /\ Goto(p, "refused")
            /\ UNCHANGED credits
    /\ UNCHANGED <<mode, award, linked, approvals, disbursed, job>>

MarkDisbursed(p) ==
    /\ pc[p] = "mark"
    /\ award' = [award EXCEPT ![job[p]] = "DISBURSED"]
    /\ Goto(p, "draw")
    /\ UNCHANGED <<mode, linked, approvals, credits, disbursed, job>>

\* incrementScholarshipDisbursed
Drawn(p) == disbursed + Amount[job[p]]

Draw(p) ==
    /\ pc[p] = "draw"
    /\ disbursed' = Drawn(p)
    /\ Goto(p, "done")
    /\ UNCHANGED <<mode, award, linked, approvals, credits, job>>

Die(p) ==
    /\ mode = "overlap"
    /\ pc[p] \notin Idle
    /\ Goto(p, "died")
    /\ UNCHANGED <<mode, award, linked, approvals, credits, disbursed, job>>

Step(p) == CheckFund(p) \/ Credit(p) \/ MarkDisbursed(p) \/ Draw(p)

Next ==
    \/ \E a \in Awards : CreateLinked(a) \/ CreateUnlinked(a)
    \/ \E p \in Procs, a \in Awards : DisburseByHand(p, a) \/ ChainCompleted(p, a)
    \/ \E p \in Procs : Step(p) \/ Die(p)

Spec == Init /\ [][Next]_vars

-----------------------------------------------------------------------------
TypeOK ==
    /\ mode \in {"serial", "overlap"}
    /\ award \in [Awards -> {"ABSENT", "PENDING", "APPROVED", "DISBURSED"}]
    /\ linked \subseteq Awards
    /\ approvals \in [Awards -> 0..Completions]
    /\ credits \in [Awards -> Nat]
    /\ disbursed \in Nat
    /\ pc \in [Procs -> Idle \cup {"check", "credit", "mark", "draw"}]
    /\ job \in [Procs -> Awards]

(* However disbursements overlap, are repeated or die, a student is credited *)
(* an award at most once, and a DISBURSED award was credited.               *)
CreditedOnce ==
    \A a \in Awards : credits[a] <= 1 /\ (award[a] = "DISBURSED" => credits[a] = 1)

(* An award with a chain is not credited before its chain is approved.      *)
ChainBeforeCredit == \A a \in linked : credits[a] > 0 => approvals[a] > 0

Credited == SumFunctionOnSet(Amount, {a \in Awards : credits[a] > 0})

(* When disbursements neither overlap nor die, the credits given from a      *)
(* fund never exceed it.                                                    *)
FundNotExceeded == mode = "serial" => Credited <= TotalFund
=============================================================================
