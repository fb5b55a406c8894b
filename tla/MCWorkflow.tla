----------------------------- MODULE MCWorkflow -----------------------------
(* Small instance of Workflow for TLC: a chain of two steps, a holder and   *)
(* an escalation holder for each, and an initiator without a position.      *)
EXTENDS Workflow, TLC

CONSTANTS hod, dean, rector, staff

MCHolders == (1 :> {hod}) @@ (2 :> {dean})
MCEscalation == (1 :> {dean}) @@ (2 :> {rector})
MCUsers == {hod, dean, rector, staff}
CallSymmetry == Permutations(Calls)
=============================================================================
