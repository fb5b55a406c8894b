---------------------------- MODULE MCGradebook -----------------------------
(* Small instance of Gradebook for TLC: x1 with one seat and x2 of another   *)
(* course clash in the timetable; s1 is graded in x1.                       *)
EXTENDS Gradebook, TLC

CONSTANTS s1, s2, s3, x1, x2

MCCourse == [x \in Sections |-> x]
MCClashes == {{x1, x2}}
MCMaxEnrollment == [x \in Sections |-> 1]
MCRequests ==
    ({"join"} \X {s1} \X {x1}) \cup ({"enroll"} \X {s1} \X {x2})
        \cup ({"enroll or wait", "drop"} \X {s2, s3} \X {x1})
MCMaxAttempts == [serial |-> 2, overlap |-> 1]
MCTaker == <<s1, x1>>
Symmetries == Permutations({s2, s3}) \cup Permutations(Handlers) \cup Permutations(Clerks)
=============================================================================
