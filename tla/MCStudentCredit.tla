--------------------------- MODULE MCStudentCredit --------------------------
(* Small instance of StudentCredit for TLC: 4 cents of cash above charges    *)
(* that a scholarship pays in part, 1 of them reserved for a payment plan;  *)
(* refunds of 2 and 2, a transfer of 1; two awards of 2 from a fund of 3.   *)
EXTENDS StudentCredit, TLC

CONSTANTS r1, r2, r3

MCAmount == [r \in Requests |-> IF r = r3 THEN 1 ELSE 2]
MCAwardAmount == [a \in Awards |-> 2]
MCOpening == [charges |-> 7, cash |-> 7, scholarship |-> 2, waivers |-> 2,
              refunds |-> 0, transfers |-> 0]
Symmetries == Permutations(Procs) \cup Permutations(Payers) \cup Permutations(Awards)
=============================================================================
