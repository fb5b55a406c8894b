----------------------------- MODULE MCBilling ------------------------------
(* Small instance of Billing for TLC: one student with a reactivation       *)
(* request and a deletion, and one month of two days.                       *)
EXTENDS Billing, TLC

CONSTANTS student

MCStudentOf == [x \in Requests \cup Deletions |-> student]
CallSymmetry == Permutations(Handlers) \cup Permutations(Workers)
=============================================================================
