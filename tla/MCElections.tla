----------------------------- MODULE MCElections ----------------------------
(* Small instance of Elections for TLC: two candidates for one position and  *)
(* one for another.                                                         *)
EXTENDS Elections, TLC

CONSTANTS a1, a2, b1

MCPositionOf == [c \in Candidates |-> IF c = b1 THEN "B" ELSE "A"]
Symmetries == Permutations({a1, a2}) \cup Permutations(Handlers)
=============================================================================
