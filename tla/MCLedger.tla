------------------------------ MODULE MCLedger ------------------------------
(* Small instances of Ledger for TLC: one account with a charge, a gateway  *)
(* payment, a refund and a second payment or waiver.                        *)
EXTENDS Ledger, TLC

CONSTANTS charge, online, online2, refund, acct, bank, fees, receivable

MCAccountOf == [t \in Txns |-> acct]
MCKind == [t \in Txns |->
    CASE t = charge -> "CHARGE" [] t = refund -> "REFUND" [] OTHER -> "PAYMENT"]
MCAmount == [t \in Txns |-> CASE t = charge -> 5 [] t = online -> 2 [] OTHER -> 1]
\* A charge of an enrollment, without lines; of the accounts of the others one may be closed.
MCLinesOf == [t \in Txns |-> IF t = charge THEN {} ELSE {bank}]
\* A charge posted by the bursar.
MCLinesOfAll == [t \in Txns |-> IF t = charge THEN {fees, receivable} ELSE {bank, receivable}]
MCPlanTotal == acct :> 3
ProcSymmetry == Permutations(Procs)
=============================================================================
