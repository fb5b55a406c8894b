-------------------------- MODULE WorkflowDecision --------------------------
(***************************************************************************)
(* What the workflow engine promises for one approval chain: an instance   *)
(* is begun once, climbs its steps one at a time, is decided once and for  *)
(* all, and the effect of its decision (the completion handler) is applied *)
(* at most once, after the decision.  Workflow.tla is shown to implement   *)
(* this specification when requests do not overlap.                        *)
(***************************************************************************)
EXTENDS Naturals

CONSTANTS Instances, Steps

VARIABLES
    outcome,   \* outcome[i]: "none", "open", "approved" or "rejected"
    level,     \* level[i]: the step instance i has reached
    applied    \* applied[i]: how often the effect of the decision was applied

vars == <<outcome, level, applied>>

Init ==
    /\ outcome = [i \in Instances |-> "none"]
    /\ level = [i \in Instances |-> 1]
    /\ applied = [i \in Instances |-> 0]

Begin(i) ==
    /\ outcome[i] = "none"
    /\ outcome' = [outcome EXCEPT ![i] = "open"]
    /\ UNCHANGED <<level, applied>>

Climb(i) ==
    /\ outcome[i] = "open"
    /\ level[i] < Steps
    /\ level' = [level EXCEPT ![i] = @ + 1]
    /\ UNCHANGED <<outcome, applied>>

Approve(i) ==
    /\ outcome[i] = "open"
    /\ level[i] = Steps
    /\ outcome' = [outcome EXCEPT ![i] = "approved"]
    /\ UNCHANGED <<level, applied>>

Reject(i) ==
    /\ outcome[i] = "open"
    /\ outcome' = [outcome EXCEPT ![i] = "rejected"]
    /\ UNCHANGED <<level, applied>>

Apply(i) ==
    /\ outcome[i] \in {"approved", "rejected"}
    /\ applied[i] = 0
    /\ applied' = [applied EXCEPT ![i] = 1]
    /\ UNCHANGED <<outcome, level>>

Next == \E i \in Instances : Begin(i) \/ Climb(i) \/ Approve(i) \/ Reject(i) \/ Apply(i)

Spec == Init /\ [][Next]_vars
=============================================================================
