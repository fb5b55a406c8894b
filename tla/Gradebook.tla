----------------------------- MODULE Gradebook ------------------------------
(***************************************************************************)
(* The grade of an enrollment row (apps/api/src/grades), composed with     *)
(* what it depends on: the row itself, the passback of graded LMS work,    *)
(* the resit cap, override requests, and the chains GRADE_RELEASE and      *)
(* GRADE_OVERRIDE whose decisions come from the workflow engine.  A grade  *)
(* is read whole and written whole by the id of its row.                   *)
(* A behaviour follows registration in full, or the attempts at a quiz     *)
(* while their student enrolls and drops, or the grade of a student who    *)
(* enrolled (scope): no attempt and no registration reads the grade.       *)
(***************************************************************************)
EXTENDS Assessments

CONSTANTS
    Entered,          \* scores entered by hand
    Overrides,        \* override requests that may be made
    Proposed,         \* scores they propose
    Cap,              \* gradeCapPercent of the resit
    ReleaseOnSubmit,  \* governance.gradeReleaseWorkflowOnSubmit
    MaxReleases       \* bound on GRADE_RELEASE chains open when a grade is submitted

ASSUME GradebookAssumption ==
    /\ Entered \cup Proposed \subseteq 0..100
    /\ Cap \in 0..100
    /\ ReleaseOnSubmit \in BOOLEAN
    /\ MaxReleases \in Nat

VARIABLES
    scope,      \* "registration", "attempts" or "grades"
    grade,      \* the JSON grade: its workflowStatus and score (0: none)
    resit,      \* there is a resit record of the enrollment
    releases,   \* GRADE_RELEASE chains that are open
    override,   \* override[o]: its row and its chain
    sheet       \* sheet[w]: what call w will write

gradeVars == <<grade, resit, releases, override, sheet>>
gradebookVars == <<scope, assessmentVars, gradeVars>>

NoOverride == [asked |-> FALSE, score |-> 0, approved |-> FALSE, withdrawn |-> FALSE,
               chain |-> "none"]
Ungraded == [workflow |-> "DRAFT", score |-> 0]
NoSheet == [grade |-> Ungraded, amends |-> FALSE, next |-> "idle",
            override |-> CHOOSE o \in Overrides : TRUE, approves |-> FALSE]

GradebookInit ==
    /\ Init
    /\ AssessmentsInit
    /\ scope \in {"registration", "attempts", "grades"}
    /\ grade = Ungraded
    /\ resit = FALSE
    /\ releases = 0
    /\ override = [o \in Overrides |-> NoOverride]
    /\ sheet = [w \in Clerks |-> NoSheet]

\* A call on the grade starts, or goes on with something to write.
Take(w, place, paper) == Begin(w, place, NoJob) /\ sheet' = [sheet EXCEPT ![w] = paper]

Prepare(w, place, paper) ==
    /\ at' = [at EXCEPT ![w] = place]
    /\ sheet' = [sheet EXCEPT ![w] = paper]
    /\ UNCHANGED job

Finish(w, place) ==
    /\ Proceed(w, place)
    /\ sheet' = IF place = "idle" THEN [sheet EXCEPT ![w] = NoSheet] ELSE sheet

\* ResitGradeService.clampNumericScoreForEnrollment.
Clamped(score) == IF resit /\ score > Cap THEN Cap ELSE score

-----------------------------------------------------------------------------
(* Grade entry and the release chain *)

\* assertCanEditEnrollmentGrade and assertCanApproveFinal let only some enter it.
NeedsAuthority(workflow) == "APPROVED" \in {grade.workflow, workflow}

\* What becomes of the release chains after an entry.
AfterEntry(workflow) ==
    CASE workflow = "APPROVED" -> "cancel releases"
      [] workflow = "SUBMITTED" /\ grade.workflow = "DRAFT" /\ ReleaseOnSubmit -> "release"
      [] OTHER -> "idle"

\* updateEnrollmentGrade: score and workflow status are optional.
EnterGrade(w, change) ==
    /\ row[Taker] = "ENROLLED"
    /\ LET workflow == IF change.workflow = "none" THEN grade.workflow ELSE change.workflow
           score == IF change.score = 0 THEN grade.score ELSE Clamped(change.score)
       IN /\ AfterEntry(change.workflow) = "release" => releases < MaxReleases
          /\ Take(w, "write", [NoSheet EXCEPT !.grade = [workflow |-> workflow, score |-> score],
                                              !.amends = NeedsAuthority(change.workflow),
                                              !.next = AfterEntry(change.workflow)])
    /\ UNCHANGED <<attempt, grade, resit, releases, override>>

WriteGrade(w) ==
    /\ On(w, "write")
    /\ grade' = sheet[w].grade
    /\ Finish(w, sheet[w].next)
    /\ UNCHANGED <<attempt, resit, releases, override>>

CancelReleases(w) ==
    /\ On(w, "cancel releases")
    /\ releases' = 0
    /\ Finish(w, "idle")
    /\ UNCHANGED <<attempt, grade, resit, override>>

\* A failure to start the chain is swallowed.
StartRelease(w) ==
    /\ On(w, "release")
    /\ releases' \in {releases, releases + 1}
    /\ Finish(w, "idle")
    /\ UNCHANGED <<attempt, grade, resit, override>>

\* completeGradeReleaseReview only notifies.
ReleaseApproved ==
    /\ Quiet
    /\ releases > 0
    /\ releases' = releases - 1
    /\ UNCHANGED <<assessmentVars, grade, resit, override, sheet>>

ReleaseRefused(w) ==
    /\ releases > 0
    /\ releases' = releases - 1
    /\ Take(w, "downgrade", NoSheet)
    /\ UNCHANGED <<attempt, grade, resit, override>>

\* downgradeEnrollmentGradeSubmission.
Downgrade(w) ==
    /\ On(w, "downgrade")
    /\ IF grade.workflow = "SUBMITTED"
       THEN Prepare(w, "write", [NoSheet EXCEPT !.grade = [grade EXCEPT !.workflow = "DRAFT"]])
       ELSE Finish(w, "idle")
    /\ UNCHANGED <<attempt, grade, resit, releases, override>>

-----------------------------------------------------------------------------
(* Passback of graded LMS work *)

\* Faulty variant: the resit cap is forgotten.
PassedBack_Raw(score) == [grade EXCEPT !.score = score]

PassedBack(score) == [grade EXCEPT !.score = Clamped(score)]

\* The assessment has its passback enabled; a dropped row carries deletedAt and is not found.
Passback(w) ==
    /\ On(w, "passback")
    /\ IF row[Taker] = "ENROLLED" /\ grade.workflow # "APPROVED"
       THEN Prepare(w, "write", [NoSheet EXCEPT !.grade = PassedBack(job[w].points)])
       ELSE Finish(w, "idle")
    /\ UNCHANGED <<attempt, grade, resit, releases, override>>

\* A submission was scored or graded.
Graded(w, points) ==
    /\ Begin(w, "passback", [NoJob EXCEPT !.points = points])
    /\ UNCHANGED <<attempt, gradeVars>>

\* ProgressionService.registerResit, once.
RegisterResit ==
    /\ Quiet
    /\ row[Taker] = "ENROLLED"
    /\ ~resit
    /\ resit' = TRUE
    /\ UNCHANGED <<assessmentVars, grade, releases, override, sheet>>

-----------------------------------------------------------------------------
(* Overrides of an approved grade *)

\* findPendingOverride.
Pending(o) == override[o].asked /\ ~override[o].approved /\ ~override[o].withdrawn

Set(o, r) == override' = [override EXCEPT ![o] = r]

RequestOverride(w, o, score) ==
    /\ ~override[o].asked
    /\ \A v \in Clerks : ~(On(v, "request") /\ sheet[v].override = o)
    /\ grade.workflow = "APPROVED"
    /\ Take(w, "request", [NoSheet EXCEPT !.override = o, !.grade = [@ EXCEPT !.score = score]])
    /\ UNCHANGED <<attempt, grade, resit, releases, override>>

StoreOverride(w) ==
    LET o == sheet[w].override IN
    /\ On(w, "request")
    /\ Set(o, [NoOverride EXCEPT !.asked = TRUE, !.score = sheet[w].grade.score])
    /\ Finish(w, "start chain")
    /\ UNCHANGED <<attempt, grade, resit, releases>>

\* A failure is swallowed.
StartChain(w) ==
    LET o == sheet[w].override IN
    /\ On(w, "start chain")
    /\ \E c \in {"open", "none"} : Set(o, [override[o] EXCEPT !.chain = c])
    /\ Finish(w, "idle")
    /\ UNCHANGED <<attempt, grade, resit, releases>>

\* approveGradeOverride and rejectGradeOverride.
DecideOverride(w, o, approves) ==
    /\ Pending(o)
    /\ Take(w, "cancel chain", [NoSheet EXCEPT !.override = o, !.approves = approves])
    /\ UNCHANGED <<attempt, grade, resit, releases, override>>

\* Faulty variant: the chain is left open.
Cancelled_Not(chain) == chain

Cancelled(chain) == IF chain = "open" THEN "over" ELSE chain

CancelChain(w) ==
    LET o == sheet[w].override IN
    /\ On(w, "cancel chain")
    /\ Set(o, [override[o] EXCEPT !.chain = Cancelled(@)])
    /\ Finish(w, IF sheet[w].approves THEN "clamp" ELSE "withdraw")
    /\ UNCHANGED <<attempt, grade, resit, releases>>

\* The proposed grade replaces the stored one and is approved.
Proposal(o) == [workflow |-> "APPROVED", score |-> Clamped(override[o].score)]

Clamp(w) ==
    /\ On(w, "clamp")
    /\ Prepare(w, "apply", [sheet[w] EXCEPT !.grade = Proposal(sheet[w].override)])
    /\ UNCHANGED <<attempt, grade, resit, releases, override>>

\* approveGradeOverrideAndApplyEnrollment: one transaction, by the two ids.
Apply(w) ==
    LET o == sheet[w].override IN
    /\ On(w, "apply")
    /\ Set(o, [override[o] EXCEPT !.approved = TRUE])
    /\ grade' = sheet[w].grade
    /\ Finish(w, "idle")
    /\ UNCHANGED <<attempt, resit, releases>>

Withdraw(w) ==
    LET o == sheet[w].override IN
    /\ On(w, "withdraw")
    /\ Set(o, [override[o] EXCEPT !.withdrawn = @ \/ Pending(o)])
    /\ Finish(w, "idle")
    /\ UNCHANGED <<attempt, grade, resit, releases>>

\* The engine has decided the chain; its completion handler follows.
ChainDecides(w, o, approves) ==
    /\ override[o].chain = "open"
    /\ Set(o, [override[o] EXCEPT !.chain = "over"])
    /\ Take(w, IF approves THEN "complete" ELSE "refuse", [NoSheet EXCEPT !.override = o])
    /\ UNCHANGED <<attempt, grade, resit, releases>>

\* completeGradeOverride.
Complete(w) ==
    LET o == sheet[w].override IN
    /\ On(w, "complete")
    /\ IF Pending(o)
       THEN Prepare(w, "apply", [sheet[w] EXCEPT !.grade = Proposal(o)])
       ELSE Finish(w, "idle")
    /\ UNCHANGED <<attempt, grade, resit, releases, override>>

\* handleRejected does not look at the approver.
Refuse(w) ==
    LET o == sheet[w].override IN
    /\ On(w, "refuse")
    /\ Set(o, [override[o] EXCEPT !.withdrawn = TRUE])
    /\ Finish(w, "idle")
    /\ UNCHANGED <<attempt, grade, resit, releases>>

-----------------------------------------------------------------------------
GradingDies(w) ==
    /\ Dies(w)
    /\ sheet' = [sheet EXCEPT ![w] = NoSheet]
    /\ UNCHANGED <<grade, resit, releases, override>>

Changes == [workflow : {"none", "DRAFT", "SUBMITTED", "APPROVED"}, score : Entered \cup {0}]

GradeStep(w) ==
    \/ GradingDies(w) \/ WriteGrade(w) \/ Passback(w)
    \/ CancelReleases(w) \/ StartRelease(w) \/ ReleaseRefused(w) \/ Downgrade(w)
    \/ StoreOverride(w) \/ StartChain(w) \/ CancelChain(w) \/ Clamp(w) \/ Apply(w)
    \/ Withdraw(w) \/ Complete(w) \/ Refuse(w)
    \/ \E change \in Changes : EnterGrade(w, change)
    \/ \E s \in Earned \cup Given : Graded(w, s)
    \/ \E o \in Overrides :
          \/ \E s \in Proposed : RequestOverride(w, o, s)
          \/ \E approves \in BOOLEAN : DecideOverride(w, o, approves) \/ ChainDecides(w, o, approves)

\* The graded student enrolls and drops.
TakerStep(h) ==
    /\ \/ Step(h) \/ Die(h)
       \/ Enroll(h, Taker[1], Taker[2], FALSE)
       \/ Drop(h, Taker[1], Taker[2])
    /\ UNCHANGED gradebookVars
    /\ Busy' <= Slots

\* What is passed back is followed in the other behaviours (Graded).
EndQuizCall(w) == On(w, "passback") /\ Proceed(w, "idle") /\ UNCHANGED attempt

QuizStep ==
    \/ Quiet /\ \E i \in DOMAIN attempt : Expire(i)
    \/ \E w \in Clerks : TakeQuiz(w) \/ EndQuizCall(w) \/ Dies(w)

GradebookNext ==
    \/ scope = "registration" /\ Next /\ UNCHANGED gradebookVars
    \/ /\ scope = "attempts" \/ (scope = "grades" /\ row[Taker] = "none")
       /\ \E h \in Handlers : TakerStep(h)
    \/ scope = "attempts" /\ QuizStep /\ UNCHANGED <<vars, scope, gradeVars>>
    \/ /\ scope = "grades"
       /\ UNCHANGED <<vars, scope>>
       /\ RegisterResit \/ ReleaseApproved \/ \E w \in Clerks : GradeStep(w)

GradebookSpec == GradebookInit /\ [][GradebookNext]_<<vars, gradebookVars>>

-----------------------------------------------------------------------------
GradebookTypeOK ==
    /\ TypeOK
    /\ AssessmentsTypeOK
    /\ scope \in {"registration", "attempts", "grades"}
    /\ grade \in [workflow : {"DRAFT", "SUBMITTED", "APPROVED"}, score : 0..100]
    /\ resit \in BOOLEAN
    /\ releases \in Nat
    /\ override \in [Overrides -> [asked : BOOLEAN, score : 0..100, approved : BOOLEAN,
                                   withdrawn : BOOLEAN, chain : {"none", "open", "over"}]]

Decided(o) == override[o].approved \/ override[o].withdrawn

(* When calls do not overlap, an approved grade changes only by an entry of  *)
(* somebody who may amend it or by an override decided for the first time,  *)
(* never by a passback, a refused release or a second decision, and an      *)
(* override once decided, by hand or by its chain, stays as it was decided. *)
ApprovedGradeStands ==
    [][mode = "serial" =>
         /\ grade.workflow = "APPROVED" /\ grade' # grade =>
               \E w \in Clerks :
                  \/ On(w, "write") /\ sheet[w].amends
                  \/ On(w, "apply") /\ Pending(sheet[w].override)
         /\ \A o \in Overrides : Decided(o) =>
               /\ override'[o].approved = override[o].approved
               /\ override'[o].withdrawn = override[o].withdrawn]_<<vars, gradebookVars>>

(* When calls do not overlap, no way of writing a score, by hand, passback   *)
(* or override, stores more than the cap once a resit is registered.        *)
CapEnforced ==
    [][mode = "serial" /\ resit /\ grade'.score # grade.score => grade'.score <= Cap
      ]_<<vars, gradebookVars>>
=============================================================================
