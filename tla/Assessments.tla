---------------------------- MODULE Assessments -----------------------------
(***************************************************************************)
(* The attempts of one student at one quiz or exam of a section            *)
(* (apps/api/src/lms-assessments): started within a limit and a time,      *)
(* autosaved, submitted and scored at once when every question allows it,  *)
(* and graded by staff.  Attempts have no unique key, and every row is     *)
(* written by its id on the strength of an earlier read.                   *)
(***************************************************************************)
EXTENDS Enrollment, Sequences

CONSTANTS
    Taker,        \* <<s, x>>: the student and the section
    Clerks,       \* calls on attempts and grades that may overlap
    MaxAttempts,  \* MaxAttempts[m]: quiz.maxAttempts of the quiz taken in mode m
    Earned,       \* what answers may earn, in percent
    Given,        \* what graders may give
    MaxBusy       \* calls that may overlap in mode "overlap"

ASSUME AssessmentsAssumption ==
    /\ Taker \in Seats
    /\ IsFiniteSet(Clerks)
    /\ MaxAttempts \in [{"serial", "overlap"} -> Nat]
    /\ Earned \cup Given \subseteq 0..100
    /\ MaxBusy \in Nat \ {0}

VARIABLES
    attempt,   \* the rows of LmsSubmission, in the order they were created
    at,        \* at[w]: where call w is
    job        \* job[w]: what it works on and what it read

assessmentVars == <<attempt, at, job>>

\* answers: what they earn, 0 while there are none; auto: scored by submitSubmission.
Attempts == [number : Nat, status : {"DRAFT", "SUBMITTED", "GRADED"},
             answers : 0..100, points : 0..100, auto : BOOLEAN, expired : BOOLEAN]

NoJob == [about |-> 1, number |-> 0, answers |-> 0, points |-> 0, status |-> "DRAFT",
          scored |-> FALSE]

AssessmentsInit ==
    /\ attempt = <<>>
    /\ at = [w \in Clerks |-> "idle"]
    /\ job = [w \in Clerks |-> NoJob]

Busy == Cardinality({h \in Handlers : pc[h] # "idle"} \cup {w \in Clerks : at[w] # "idle"})
Slots == IF mode = "serial" THEN 1 ELSE MaxBusy
Quiet == mode = "serial" => Busy = 0

Begin(w, place, what) ==
    /\ at[w] = "idle"
    /\ Busy < Slots
    /\ at' = [at EXCEPT ![w] = place]
    /\ job' = [job EXCEPT ![w] = what]

On(w, place) == at[w] = place

Proceed(w, place) ==
    /\ at' = [at EXCEPT ![w] = place]
    /\ job' = IF place = "idle" THEN [job EXCEPT ![w] = NoJob] ELSE job

-----------------------------------------------------------------------------
\* assertStudentEnrolledForAssessment of the student's own calls.
Eligible == row[Taker] = "ENROLLED"

Drafts == {i \in DOMAIN attempt : attempt[i].status = "DRAFT"}

\* findActiveDraftAttempt: of equal numbers the database picks.
Current == {i \in Drafts : \A j \in Drafts : attempt[j].number <= attempt[i].number}

\* Faulty variant: one attempt too many.
LimitReached_OffByOne(used) == used > MaxAttempts[mode]

LimitReached(used) == used >= MaxAttempts[mode]

\* A draft whose time is over is closed first; one still running is handed out.
StartAttempt(w) ==
    /\ Eligible
    /\ \/ Drafts = {} /\ Begin(w, "count", NoJob)
       \/ \E i \in Current :
             /\ attempt[i].expired
             /\ Begin(w, "close", [NoJob EXCEPT !.about = i])
    /\ UNCHANGED attempt

CloseExpired(w) ==
    /\ On(w, "close")
    /\ attempt' = [attempt EXCEPT ![job[w].about] = [@ EXCEPT !.status = "SUBMITTED"]]
    /\ Proceed(w, "count")

CountAttempts(w) ==
    /\ On(w, "count")
    /\ IF LimitReached(Len(attempt))
       THEN Proceed(w, "idle")
       ELSE /\ at' = [at EXCEPT ![w] = "open"]
            /\ job' = [job EXCEPT ![w] = [NoJob EXCEPT !.number = Len(attempt) + 1]]
    /\ UNCHANGED attempt

OpenAttempt(w) ==
    /\ On(w, "open")
    /\ attempt' = Append(attempt, [number |-> job[w].number, status |-> "DRAFT", answers |-> 0,
                                   points |-> 0, auto |-> FALSE, expired |-> FALSE])
    /\ Proceed(w, "idle")

\* The time limit of an attempt ends.
Expire(i) ==
    /\ attempt[i].status = "DRAFT"
    /\ ~attempt[i].expired
    /\ attempt' = [attempt EXCEPT ![i] = [@ EXCEPT !.expired = TRUE]]
    /\ UNCHANGED <<at, job>>

\* Faulty variant: an attempt handed in can still be saved.
Savable_AnyStatus(i) == ~attempt[i].expired

Savable(i) == attempt[i].status = "DRAFT" /\ ~attempt[i].expired

\* saveQuizDraft: what the saved answers earn together with those read.
SaveDraft(w, i, answers) ==
    /\ Eligible
    /\ Savable(i)
    /\ Begin(w, "save", [NoJob EXCEPT !.about = i, !.answers = answers])
    /\ UNCHANGED attempt

WriteDraft(w) ==
    /\ On(w, "save")
    /\ attempt' = [attempt EXCEPT ![job[w].about] = [@ EXCEPT !.answers = job[w].answers]]
    /\ Proceed(w, "idle")

\* submitSubmission, with the answers of the request or those read.  No status is
\* ever set to RETURNED.  status: GRADED in time with all questions scored at once,
\* else SUBMITTED, which stands for LATE too: nothing here tells them apart.
\* scored: quiz.autoGradeMcq scores what it can.
Submit(w, i, answers, status, scored) ==
    /\ Eligible
    /\ attempt[i].status = "DRAFT"
    /\ ~attempt[i].expired
    /\ status = "GRADED" => scored
    /\ Begin(w, "submit", [NoJob EXCEPT !.about = i, !.answers = answers, !.status = status,
                                        !.scored = scored])
    /\ UNCHANGED attempt

\* Without a score, an earlier grade of the row stays.
WriteSubmitted(w) ==
    LET j == job[w]
        handedIn == [attempt[j.about] EXCEPT !.answers = j.answers, !.status = j.status]
    IN
    /\ On(w, "submit")
    /\ attempt' = [attempt EXCEPT ![j.about] =
                     IF j.scored THEN [handedIn EXCEPT !.points = j.answers, !.auto = TRUE]
                     ELSE handedIn]
    /\ Proceed(w, IF j.status = "GRADED" THEN "passback" ELSE "idle")

\* gradeSubmission of staff, whatever the status of the attempt.
Grade(w, i, points) ==
    /\ Begin(w, "grade", [NoJob EXCEPT !.about = i, !.points = points])
    /\ UNCHANGED attempt

WriteGraded(w) ==
    /\ On(w, "grade")
    /\ attempt' = [attempt EXCEPT ![job[w].about] =
                     [@ EXCEPT !.points = job[w].points, !.auto = FALSE, !.status = "GRADED"]]
    /\ Proceed(w, "passback")

Dies(w) ==
    /\ mode = "overlap"
    /\ at[w] # "idle"
    /\ Proceed(w, "idle")
    /\ UNCHANGED attempt

-----------------------------------------------------------------------------
TakeQuiz(w) ==
    \/ StartAttempt(w) \/ CloseExpired(w) \/ CountAttempts(w) \/ OpenAttempt(w)
    \/ WriteDraft(w) \/ WriteSubmitted(w) \/ WriteGraded(w)
    \/ \E i \in DOMAIN attempt :
          \/ \E s \in Earned : SaveDraft(w, i, s)
          \/ \E s \in Given : Grade(w, i, s)
          \/ \E s \in Earned \cup {attempt[i].answers}, scored \in BOOLEAN,
                status \in {"SUBMITTED", "GRADED"} : Submit(w, i, s, status, scored)

AssessmentsTypeOK ==
    /\ attempt \in Seq(Attempts)
    /\ at \in [Clerks -> {"idle", "close", "count", "open", "save", "submit", "grade", "passback",
                           "write", "cancel releases", "release", "downgrade", "request",
                           "start chain", "cancel chain", "clamp", "apply", "withdraw",
                           "complete", "refuse"}]
    /\ job \in [Clerks -> [about : Nat, number : Nat, answers : 0..100, points : 0..100,
                           status : {"DRAFT", "SUBMITTED", "GRADED"}, scored : BOOLEAN]]

(* When k calls overlap, a student gets at most k - 1 attempts more than the *)
(* quiz allows; one at a time none, and then no two attempts are open or    *)
(* carry one number.                                                        *)
AttemptsWithinLimit ==
    /\ Len(attempt) < MaxAttempts[mode] + Slots
    /\ mode = "serial" =>
          /\ Cardinality(Drafts) <= 1
          /\ \A i, j \in DOMAIN attempt : attempt[i].number = attempt[j].number => i = j

(* When calls do not overlap, the score an attempt got at submission is what *)
(* its stored answers earn, whatever is saved, expires or is graded later.  *)
GradedAsAnswered ==
    mode = "serial" =>
        \A i \in DOMAIN attempt : attempt[i].auto => attempt[i].points = attempt[i].answers
=============================================================================
