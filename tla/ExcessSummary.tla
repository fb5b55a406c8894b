---------------------------- MODULE ExcessSummary ---------------------------
(***************************************************************************)
(* computeExcessCreditSummary (apps/api/src/finance/finance-excess-credit  *)
(* .util.ts): how much of a student's credit is cash that may be refunded  *)
(* or transferred.  The ledger is given by the absolute totals of its      *)
(* completed rows; amounts are whole cents.                                *)
(***************************************************************************)
EXTENDS Integers

AtLeast0(n) == IF n < 0 THEN 0 ELSE n
Lesser(m, n) == IF m < n THEN m ELSE n

Totals == [charges : Nat, cash : Nat, scholarship : Nat, waivers : Nat,
           refunds : Nat, transfers : Nat]

NetCharges(l) == AtLeast0(l.charges - l.waivers)
ScholarshipApplied(l) == Lesser(l.scholarship, NetCharges(l))

ChargesAfterScholarship(l) == AtLeast0(NetCharges(l) - ScholarshipApplied(l))
CashApplied(l) == Lesser(l.cash, ChargesAfterScholarship(l))
ScholarshipLocked(l) == AtLeast0(l.scholarship - ScholarshipApplied(l))

CashTransferable(l) == AtLeast0(l.cash - CashApplied(l) - l.refunds - l.transfers)

MaxRefundable(l, unpaid, pending) == AtLeast0(CashTransferable(l) - unpaid - pending)

\* The sum of the signed amounts; a refund is stored with a negative one.
Balance(l) ==
    l.charges + l.transfers - l.cash - l.scholarship - l.waivers - l.refunds

CreditBalance(l) == AtLeast0(-Balance(l))
=============================================================================
