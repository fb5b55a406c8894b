----------------------------- MODULE Enrollment -----------------------------
(***************************************************************************)
(* Course registration (apps/api/src/enrollment): enrolling in and         *)
(* dropping a section, its waitlist and the promotion after a drop, and    *)
(* enrollment holds.  Every check is a query of its own and no transaction *)
(* spans a check and the write that relies on it.  A step of a handler is  *)
(* one write, or a run of queries: where something changes between two of  *)
(* them the handler ends as if it had changed before the first or after    *)
(* the last.  A call that its first queries refuse changes nothing.        *)
(***************************************************************************)
EXTENDS Integers, FiniteSets, FiniteSetsExt

CONSTANTS
    Students, Sections,
    Course,         \* Course[x]: the course of section x, all of one semester
    Clashes,        \* sets {x, y} of sections whose timetables overlap
    MaxEnrollment,  \* MaxEnrollment[x]: the seats of section x
    Unqualified,    \* <<s, x>> refused for prerequisites, repeat limits or campus
    Requests,       \* <<operation, student, section>> that people ask for
    Troubled,       \* students whom a hold or a change of status may hit
    Handlers        \* the calls that may overlap in mode "overlap"

ASSUME EnrollmentAssumption ==
    /\ Students # {} /\ IsFiniteSet(Students) /\ Sections # {}
    /\ Clashes \subseteq SUBSET Sections
    /\ MaxEnrollment \in [Sections -> Nat]
    /\ Unqualified \subseteq Students \X Sections
    /\ Requests \subseteq {"enroll", "enroll or wait", "drop", "join"} \X Students \X Sections
    /\ Troubled \subseteq Students
    /\ Handlers # {} /\ IsFiniteSet(Handlers)

VARIABLES
    mode,      \* "serial" or "overlap"
    row,       \* row[<<s, x>>]: status of the enrollment row, "none" when absent
    entry,     \* entry[<<s, x>>]: status of the waitlist row, "none" when absent
    position,  \* position[<<s, x>>]: its position while it is WAITING (nothing
               \* reads it later, so it is 0 then)
    standing,  \* standing[s]: "held" with an active hold, "inactive" when s is not
               \* ACTIVE, where a hold makes no difference, else "clear"
    pc,        \* pc[h]: where handler h is
    call       \* call[h]: what it works on

vars == <<mode, row, entry, position, standing, pc, call>>

Seats == Students \X Sections

Calls == [student : Students, section : Sections,
          waitlistIfFull : BOOLEAN,   \* of the request
          promoting : BOOLEAN,        \* the student comes from the waitlist
          rank : Nat]                 \* the position read for a new entry

NoCall == [student |-> CHOOSE s \in Students : TRUE, section |-> CHOOSE x \in Sections : TRUE,
           waitlistIfFull |-> FALSE, promoting |-> FALSE, rank |-> 0]

Limit == IF mode = "serial" THEN 1 ELSE Cardinality(Handlers)

Working == Cardinality({h \in Handlers : pc[h] # "idle"})

Init ==
    /\ mode \in {"serial", "overlap"}
    /\ row = [c \in Seats |-> "none"]
    /\ entry = [c \in Seats |-> "none"]
    /\ position = [c \in Seats |-> 0]
    /\ standing = [s \in Students |-> "clear"]
    /\ pc = [h \in Handlers |-> "idle"]
    /\ call = [h \in Handlers |-> NoCall]

\* The handler goes on; at "idle" its call is answered and it may take another.
Goto(h, place) ==
    /\ pc' = [pc EXCEPT ![h] = place]
    /\ call' = IF place = "idle" THEN [call EXCEPT ![h] = NoCall] ELSE call

At(h, place) == pc[h] = place

Seat(h) == <<call[h].student, call[h].section>>

Request(h, s, x, w, place) ==
    /\ pc[h] = "idle"
    /\ Working < Limit
    /\ call' = [call EXCEPT ![h] = [@ EXCEPT !.student = s, !.section = x, !.waitlistIfFull = w]]
    /\ pc' = [pc EXCEPT ![h] = place]

tables == <<row, entry, position, standing>>

\* Rows with status ENROLLED that are not deleted.
Enrolled(x) == {s \in Students : row[<<s, x>>] = "ENROLLED"}

Schedule(s) == {x \in Sections : row[<<s, x>>] = "ENROLLED"}

Waiting(x) == {s \in Students : entry[<<s, x>>] = "WAITING"}

\* Faulty variant: one seat too many.
HasRoom_OffByOne(x) == Cardinality(Enrolled(x)) <= MaxEnrollment[x]

HasRoom(x) == Cardinality(Enrolled(x)) < MaxEnrollment[x]

\* The request of h was refused.  Only create and markPromoted are in the try
\* block of a promotion, and markPromoted is skipped when create throws.
\* Faulty variant: the entry is marked whatever became of the enrollment.
Refused_MarksAnyway(h) == IF call[h].promoting THEN "mark" ELSE "idle"

Refused(h) == "idle"

-----------------------------------------------------------------------------
(* EnrollmentService.create *)

\* Faulty variant: the hold is not looked at.
Registrable_DespiteHold(s) == standing[s] # "inactive"

\* The student is ACTIVE and assertNoActiveHolds passes.
Registrable(s) == standing[s] = "clear"

\* No enrollment in another section of the course and no timetable conflict.
Fits(s, x) ==
    \A y \in Schedule(s) : Course[y] # Course[x] /\ (y # x => {x, y} \notin Clashes)

Passes(s, x) == Registrable(s) /\ Fits(s, x) /\ <<s, x>> \notin Unqualified

Enroll(h, s, x, w) ==
    /\ Passes(s, x)
    /\ Request(h, s, x, w, "count")
    /\ UNCHANGED <<mode, tables>>

\* The seats are counted, then findEnrollmentByStudentAndSection: a dropped row is
\* revived after a second count.
Count(h) ==
    /\ At(h, "count")
    /\ Goto(h, IF HasRoom(call[h].section)
               THEN CASE row[Seat(h)] = "none" -> "create"
                      [] row[Seat(h)] = "ENROLLED" -> Refused(h)
                      [] OTHER -> "recount"
               ELSE IF call[h].waitlistIfFull THEN "join" ELSE Refused(h))
    /\ UNCHANGED <<mode, tables>>

Recount(h) ==
    /\ At(h, "recount")
    /\ Goto(h, IF HasRoom(call[h].section) THEN "revive" ELSE Refused(h))
    /\ UNCHANGED <<mode, tables>>

Enrolls(h) ==
    /\ row' = [row EXCEPT ![Seat(h)] = "ENROLLED"]
    /\ Goto(h, IF call[h].promoting THEN "mark" ELSE "idle")
    /\ UNCHANGED <<mode, entry, position, standing>>

\* A second row of the student and section violates the unique key.
Create(h) ==
    /\ At(h, "create")
    /\ IF row[Seat(h)] = "none"
       THEN Enrolls(h)
       ELSE Goto(h, Refused(h)) /\ UNCHANGED <<mode, tables>>

\* reviveEnrollment looks at nothing but the id.
Revive(h) == At(h, "revive") /\ Enrolls(h)

-----------------------------------------------------------------------------
(* EnrollmentService.drop and promoteWaitlistAfterDrop *)

Drop(h, s, x) ==
    /\ row[<<s, x>>] = "ENROLLED"
    /\ Request(h, s, x, FALSE, "drop")
    /\ UNCHANGED <<mode, tables>>

\* softDrop updates the row only while it is ENROLLED.
SoftDrop(h) ==
    /\ At(h, "drop")
    /\ IF row[Seat(h)] = "ENROLLED"
       THEN row' = [row EXCEPT ![Seat(h)] = "DROPPED"] /\ Goto(h, "promote")
       ELSE UNCHANGED row /\ Goto(h, "idle")
    /\ UNCHANGED <<mode, entry, position, standing>>

\* Faulty variant: the entry that came last.
FirstWaiting_Last(x) ==
    {s \in Waiting(x) : \A t \in Waiting(x) : position[<<t, x>>] <= position[<<s, x>>]}

\* findFirstWaiting: positions may be equal, then the database picks.
FirstWaiting(x) ==
    {s \in Waiting(x) : \A t \in Waiting(x) : position[<<s, x>>] <= position[<<t, x>>]}

\* promoteWaitlistAfterDrop: with a seat free, create is called for the first.
Promote(h) ==
    /\ At(h, "promote")
    /\ IF HasRoom(call[h].section) /\ Waiting(call[h].section) # {}
       THEN \E s \in FirstWaiting(call[h].section) :
              /\ call' = [call EXCEPT ![h] = [@ EXCEPT !.student = s, !.promoting = TRUE]]
              /\ pc' = [pc EXCEPT ![h] = "check"]
       ELSE Goto(h, "idle")
    /\ UNCHANGED <<mode, tables>>

Check(h) ==
    /\ At(h, "check")
    /\ Goto(h, IF Passes(call[h].student, call[h].section) THEN "count" ELSE Refused(h))
    /\ UNCHANGED <<mode, tables>>

EntryEnds(c, status) ==
    /\ entry' = [entry EXCEPT ![c] = status]
    /\ position' = [position EXCEPT ![c] = 0]

\* markWaitlistPromoted updates the entry only while it is WAITING.
Mark(h) ==
    /\ At(h, "mark")
    /\ IF entry[Seat(h)] = "WAITING"
       THEN EntryEnds(Seat(h), "PROMOTED") ELSE UNCHANGED <<entry, position>>
    /\ Goto(h, "idle")
    /\ UNCHANGED <<mode, row, standing>>

-----------------------------------------------------------------------------
(* EnrollmentHoldsService *)

\* maxWaitlistPosition is taken over the entries that are WAITING.
NextPosition(x) == 1 + Max({position[<<s, x>>] : s \in Waiting(x)} \cup {0})

\* joinWaitlist looks at the student's status, enrollment and entry; a hold does
\* not matter.
MayJoin(s, x) ==
    standing[s] # "inactive" /\ row[<<s, x>>] # "ENROLLED" /\ entry[<<s, x>>] # "WAITING"

Ranked(h, s, x) ==
    /\ call' = [call EXCEPT ![h] = [@ EXCEPT !.student = s, !.section = x, !.rank = NextPosition(x)]]
    /\ pc' = [pc EXCEPT ![h] = "queue"]
    /\ UNCHANGED <<mode, tables>>

JoinWaitlist(h, s, x) ==
    /\ pc[h] = "idle"
    /\ Working < Limit
    /\ MayJoin(s, x)
    /\ Ranked(h, s, x)

\* The section was full and the request said waitlistIfFull.
Join(h) ==
    /\ At(h, "join")
    /\ IF MayJoin(call[h].student, call[h].section)
       THEN Ranked(h, call[h].student, call[h].section)
       ELSE Goto(h, "idle") /\ UNCHANGED <<mode, tables>>

\* An entry of any status takes the unique key.
Queue(h) ==
    /\ At(h, "queue")
    /\ IF entry[Seat(h)] = "none"
       THEN /\ entry' = [entry EXCEPT ![Seat(h)] = "WAITING"]
            /\ position' = [position EXCEPT ![Seat(h)] = call[h].rank]
            /\ Goto(h, "idle")
       ELSE Goto(h, "idle") /\ UNCHANGED <<entry, position>>
    /\ UNCHANGED <<mode, row, standing>>

LeaveWaitlist(c) ==
    /\ entry[c] = "WAITING"
    /\ EntryEnds(c, "REMOVED")
    /\ UNCHANGED <<mode, row, standing, pc, call>>

PlaceHold(s) ==
    /\ standing[s] = "clear"
    /\ standing' = [standing EXCEPT ![s] = "held"]
    /\ UNCHANGED <<mode, row, entry, position, pc, call>>

LiftHold(s) ==
    /\ standing[s] = "held"
    /\ standing' = [standing EXCEPT ![s] = "clear"]
    /\ UNCHANGED <<mode, row, entry, position, pc, call>>

\* The student's status changes elsewhere.
Deactivate(s) ==
    /\ standing[s] # "inactive"
    /\ standing' = [standing EXCEPT ![s] = "inactive"]
    /\ UNCHANGED <<mode, row, entry, position, pc, call>>

Die(h) ==
    /\ mode = "overlap"
    /\ pc[h] # "idle"
    /\ Goto(h, "idle")
    /\ UNCHANGED <<mode, tables>>

-----------------------------------------------------------------------------
Start(h) ==
    \E s \in Students, x \in Sections :
        \/ <<"enroll", s, x>> \in Requests /\ Enroll(h, s, x, FALSE)
        \/ <<"enroll or wait", s, x>> \in Requests /\ Enroll(h, s, x, TRUE)
        \/ <<"drop", s, x>> \in Requests /\ Drop(h, s, x)
        \/ <<"join", s, x>> \in Requests /\ JoinWaitlist(h, s, x)

Step(h) ==
    \/ Count(h) \/ Recount(h) \/ Create(h) \/ Revive(h)
    \/ SoftDrop(h) \/ Promote(h) \/ Check(h) \/ Mark(h)
    \/ Join(h) \/ Queue(h)

\* Calls of a single statement; in mode "serial" they wait for the handler too.
Statement ==
    /\ Working < Limit
    /\ \/ \E c \in Seats : LeaveWaitlist(c)
       \/ \E s \in Troubled : PlaceHold(s) \/ LiftHold(s) \/ Deactivate(s)

Next ==
    \/ \E h \in Handlers : Start(h) \/ Step(h) \/ Die(h)
    \/ Statement

Spec == Init /\ [][Next]_vars

-----------------------------------------------------------------------------
TypeOK ==
    /\ mode \in {"serial", "overlap"}
    /\ row \in [Seats -> {"none", "ENROLLED", "DROPPED"}]
    /\ entry \in [Seats -> {"none", "WAITING", "PROMOTED", "REMOVED"}]
    /\ position \in [Seats -> Nat]
    /\ \A c \in Seats : position[c] > 0 <=> entry[c] = "WAITING"
    /\ standing \in [Students -> {"clear", "held", "inactive"}]
    /\ pc \in [Handlers -> {"idle", "check", "count", "recount", "create", "revive",
                              "drop", "promote", "mark", "join", "queue"}]
    /\ call \in [Handlers -> Calls]

(* A section is never filled beyond its seats by handlers that run one at a  *)
(* time, and when k handlers overlap by at most k - 1: those that counted    *)
(* before the last seat went.                                               *)
SeatsRespected == \A x \in Sections : Cardinality(Enrolled(x)) < MaxEnrollment[x] + Limit

(* Handlers that run one at a time enroll a student, also one promoted from  *)
(* a waitlist or whose dropped row is revived, only when no hold, status,    *)
(* timetable or other section of the course stands against it.              *)
EnrolledWhenAllowed ==
    [][mode = "serial" =>
         \A s \in Students, x \in Sections :
            (row[<<s, x>>] # "ENROLLED" /\ row'[<<s, x>>] = "ENROLLED") =>
               /\ standing[s] = "clear"
               /\ \A y \in Sections \ {x} : row[<<s, y>>] = "ENROLLED" =>
                     Course[y] # Course[x] /\ {x, y} \notin Clashes]_vars

(* However promotions overlap, fail or die half-way, an entry is PROMOTED    *)
(* only after its student was enrolled in the section.                      *)
PromotedWasEnrolled ==
    \A c \in Seats : entry[c] = "PROMOTED" => row[c] # "none"

(* Handlers that run one at a time promote whoever has waited longest, and   *)
(* no two students wait at one position.                                    *)
FirstComeFirstServed ==
    [][mode = "serial" =>
         \A x \in Sections, s \in Students : \A t \in Students \ {s} :
            /\ (/\ entry[<<s, x>>] = "WAITING" /\ entry'[<<s, x>>] = "PROMOTED"
                /\ entry[<<t, x>>] = "WAITING")
                   => position[<<s, x>>] < position[<<t, x>>]
            /\ (entry'[<<s, x>>] = "WAITING" /\ entry'[<<t, x>>] = "WAITING")
                   => position'[<<s, x>>] # position'[<<t, x>>]]_vars
=============================================================================
