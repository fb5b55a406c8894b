------------------------------ MODULE MCLeave -------------------------------
(* Small instance of Leave for TLC: two requests that begin in the first of *)
(* two years, or one of them in a year that nobody has entered.             *)
EXTENDS Leave, TLC

CONSTANTS short, long

MCDays == [r \in Requests |-> IF r = long THEN 2 ELSE 1]
MCStartYears == {[r \in Requests |-> 1], [r \in Requests |-> IF r = long THEN 0 ELSE 1]}
CallSymmetry == Permutations(Handlers)
=============================================================================
