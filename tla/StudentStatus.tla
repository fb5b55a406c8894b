---------------------------- MODULE StudentStatus ---------------------------
(***************************************************************************)
(* The enrollment status of students (apps/api/src/students): changed by   *)
(* hand, by a confirmed graduation, by reactivation requests decided by    *)
(* hand or by their workflow, and by a permanent deletion after its        *)
(* workflow.  Every change goes through changeEnrollmentStatus, which      *)
(* logs it with what it means for billing.  Each statement sent to the     *)
(* database is one step; a transaction is the reads it made and its commit.*)
(***************************************************************************)
EXTENDS Integers, Sequences, FiniteSets, Functions

CONSTANTS
    Students,    \* students of one campus entity
    Requests,    \* reactivation requests
    Deletions,   \* permanent deletion workflows
    StudentOf,   \* StudentOf[x]: the student request or deletion x is about
    Handlers,    \* calls that may overlap in mode "overlap"
    MaxChanges   \* bound on the changes of one student

ASSUME StudentAssumption ==
    /\ Students # {} /\ IsFiniteSet(Students)
    /\ IsFiniteSet(Handlers)
    /\ StudentOf \in [Requests \cup Deletions -> Students]
    /\ MaxChanges \in Nat

VARIABLES
    mode,         \* "serial", or "overlap" in which handlers overlap and die
    status,       \* status[s]: StudentEnrollmentStatusEnum, "ABSENT" before admission
    removed,      \* students soft-deleted by remove()
    changes,      \* changes[s]: the StatusChangeLog rows of s
    graduated,    \* students with graduationConfirmedAt
    anonymised,   \* students whose user and personal data are gone
    request,      \* request[r]: ReactivationRequestStatus, "none" before create
    asked,        \* asked[r]: the changes of its student that the request knew of
    chain,        \* chain[r]: workflow of request r: "none", "open" or "over"
    deletion,     \* deletion[w]: "none", "IN_PROGRESS", "ESCALATED" or "over"
    pc, call

people == <<status, removed, changes>>
marks == <<graduated, anonymised>>
flows == <<request, asked, chain, deletion>>
vars == <<mode, people, marks, flows, pc, call>>

\* INACTIVE stands for SUSPENDED, WITHDRAWN and DEFERRED too.
Statuses == {"ACTIVE", "INACTIVE", "GRADUATED", "PERMANENTLY_DELETED"}
Purposes == {"none", "patch", "graduate", "reactivate", "delete"}
AnyOf(S) == CHOOSE x \in S : TRUE

NoCall == [for |-> "none", student |-> AnyOf(Students), item |-> AnyOf(Requests \cup Deletions),
           to |-> "ACTIVE", from |-> "ACTIVE", known |-> 0]

Present(s) == status[s] # "ABSENT" /\ s \notin removed

Init ==
    /\ mode \in {"serial", "overlap"}
    /\ \E newcomers \in SUBSET Students :
          status = [s \in Students |-> IF s \in newcomers THEN "ABSENT" ELSE "ACTIVE"]
    /\ removed = {}
    /\ changes = [s \in Students |-> <<>>]
    /\ graduated = {}
    /\ anonymised = {}
    /\ request = [r \in Requests |-> "none"]
    /\ asked = [r \in Requests |-> 0]
    /\ chain = [r \in Requests |-> "none"]
    /\ deletion = [w \in Deletions |-> "none"]
    /\ pc = [h \in Handlers |-> "idle"]
    /\ call = [h \in Handlers |-> NoCall]

Limit == IF mode = "serial" THEN 1 ELSE Cardinality(Handlers)

May(h) ==
    /\ pc[h] = "idle"
    /\ Cardinality({g \in Handlers : pc[g] # "idle"}) < Limit

Start(h, place, what) ==
    /\ May(h)
    /\ pc' = [pc EXCEPT ![h] = place]
    /\ call' = [call EXCEPT ![h] = what]
    /\ UNCHANGED <<mode, people, marks, flows>>

At(h, place) == pc[h] = place

Goto(h, place) ==
    /\ pc' = [pc EXCEPT ![h] = place]
    /\ call' = IF place = "idle" THEN [call EXCEPT ![h] = NoCall] ELSE call

\* A call that will change the status of s.
Change(purpose, s, to) == [NoCall EXCEPT !.for = purpose, !.student = s, !.to = to]

\* Some call is working on request or deletion x.
Busy(x) == \E h \in Handlers : pc[h] # "idle" /\ call[h].item = x
                         /\ call[h].for \in {"reactivate", "delete"}

-----------------------------------------------------------------------------
(* changeEnrollmentStatus *)

\* Faulty variant: only a student who was INACTIVE counts as gained.
Implication_FromInactive(from, to) ==
    CASE from = "INACTIVE" /\ to = "ACTIVE" -> "GAIN"
      [] from = "ACTIVE" /\ to # "ACTIVE" -> "LOSS"
      [] OTHER -> "NONE"

\* billingForTransition.
Implication(from, to) ==
    CASE from # "ACTIVE" /\ to = "ACTIVE" -> "GAIN"
      [] from = "ACTIVE" /\ to # "ACTIVE" -> "LOSS"
      [] OTHER -> "NONE"

\* What the caller does once the status is what it asked for.
Then(h) ==
    CASE call[h].for = "patch" -> "idle"
      [] call[h].for = "graduate" -> "stamp"
      [] call[h].for = "reactivate" -> "grant"
      [] call[h].for = "delete" -> "anonymise"

\* The transaction reads the student: absent or removed is an error, unchanged
\* returns at once.
ReadStatus(h) ==
    LET s == call[h].student IN
    /\ At(h, "change")
    /\ pc' = [pc EXCEPT ![h] = IF ~Present(s) THEN "idle"
                               ELSE IF status[s] = call[h].to THEN Then(h) ELSE "write"]
    /\ call' = [call EXCEPT ![h] = IF pc'[h] = "idle" THEN NoCall
                                   ELSE [@ EXCEPT !.from = status[s]]]
    /\ UNCHANGED <<mode, people, marks, flows>>

\* The log row, the status and the commit.
WriteStatus(h) ==
    LET c == call[h] IN
    /\ At(h, "write")
    /\ changes' = [changes EXCEPT ![c.student] =
                     Append(@, [from |-> c.from, to |-> c.to,
                                billing |-> Implication(c.from, c.to)])]
    /\ status' = [status EXCEPT ![c.student] = c.to]
    /\ Goto(h, Then(h))
    /\ UNCHANGED <<mode, removed, marks, flows>>

\* The changes of s that are made or may come from the calls under way; only the
\* bound MaxChanges looks at them.
Room(s) ==
    Len(changes[s])
        + Cardinality({h \in Handlers : pc[h] # "idle" /\ call[h].student = s}) < MaxChanges

-----------------------------------------------------------------------------
(* Students *)

\* create, enrollFromApplication: the row begins as ACTIVE and nothing is logged.
Admit(s) ==
    /\ status[s] = "ABSENT"
    /\ mode = "serial" => \A h \in Handlers : At(h, "idle")
    /\ status' = [status EXCEPT ![s] = "ACTIVE"]
    /\ UNCHANGED <<mode, removed, changes, marks, flows, pc, call>>

\* update: any status but the one it read.
Patch(h, s, to) ==
    /\ Present(s)
    /\ to # status[s]
    /\ Room(s)
    /\ Start(h, "change", Change("patch", s, to))

\* softDeleteStudent.
SoftDelete(s) ==
    /\ Present(s)
    /\ mode = "serial" => \A h \in Handlers : At(h, "idle")
    /\ removed' = removed \cup {s}
    /\ UNCHANGED <<mode, status, changes, marks, flows, pc, call>>

\* confirmGraduation.
Graduate(h, s) ==
    /\ Present(s)
    /\ status[s] = "ACTIVE"
    /\ Room(s)
    /\ Start(h, "change", Change("graduate", s, "GRADUATED"))

Stamp(h) ==
    /\ At(h, "stamp")
    /\ graduated' = graduated \cup {call[h].student}
    /\ Goto(h, "idle")
    /\ UNCHANGED <<mode, people, anonymised, flows>>

-----------------------------------------------------------------------------
(* Reactivation requests *)

Reactivation(r) == [Change("reactivate", StudentOf[r], "ACTIVE") EXCEPT !.item = r]

\* create: the student is not ACTIVE and has no PENDING request.
Ask(h, r) ==
    LET s == StudentOf[r] IN
    /\ request[r] = "none"
    /\ ~Busy(r)
    /\ Present(s)
    /\ status[s] # "ACTIVE"
    /\ ~\E q \in Requests : StudentOf[q] = s /\ request[q] = "PENDING"
    /\ Start(h, "ask", [Reactivation(r) EXCEPT !.known = Len(changes[s])])

CreateRequest(h) ==
    LET r == call[h].item IN
    /\ At(h, "ask")
    /\ request' = [request EXCEPT ![r] = "PENDING"]
    /\ asked' = [asked EXCEPT ![r] = call[h].known]
    /\ Goto(h, "initiate")
    /\ UNCHANGED <<mode, people, marks, chain, deletion>>

Initiate(h) ==
    /\ At(h, "initiate")
    /\ chain' = [chain EXCEPT ![call[h].item] = "open"]
    /\ Goto(h, "idle")
    /\ UNCHANGED <<mode, people, marks, request, asked, deletion>>

\* Faulty variant: the request is granted before the student is reactivated.
FirstGranted_Marked == "grant"

FirstGranted == "change"

Approve(h, r) ==
    /\ request[r] = "PENDING"
    /\ Room(StudentOf[r])
    /\ Start(h, FirstGranted, Reactivation(r))

Reject(h, r) ==
    /\ request[r] = "PENDING"
    /\ Start(h, "refuse", Reactivation(r))

\* processStep finds the chain open and the last decision is made.
Decide(h, r) ==
    /\ chain[r] = "open"
    /\ Room(StudentOf[r])
    /\ \E verdict \in {"approved", "rejected"} : Start(h, verdict, Reactivation(r))

EndChain(h) ==
    /\ pc[h] \in {"approved", "rejected"}
    /\ chain' = [chain EXCEPT ![call[h].item] = "over"]
    /\ Goto(h, IF At(h, "approved") THEN "load" ELSE "refuse")
    /\ UNCHANGED <<mode, people, marks, request, asked, deletion>>

\* completeReactivation returns when the request is APPROVED, and at no other status.
Load(h) ==
    LET r == call[h].item IN
    /\ At(h, "load")
    /\ Goto(h, IF request[r] = "APPROVED" THEN "idle" ELSE FirstGranted)
    /\ UNCHANGED <<mode, people, marks, flows>>

Grant(h) ==
    /\ At(h, "grant")
    /\ request' = [request EXCEPT ![call[h].item] = "APPROVED"]
    /\ Goto(h, "idle")
    /\ UNCHANGED <<mode, people, marks, asked, chain, deletion>>

\* By hand or by the chain: the status is written whatever it is by now.
Refuse(h) ==
    /\ At(h, "refuse")
    /\ request' = [request EXCEPT ![call[h].item] = "REJECTED"]
    /\ Goto(h, "idle")
    /\ UNCHANGED <<mode, people, marks, asked, chain, deletion>>

-----------------------------------------------------------------------------
(* Permanent deletion *)

Erasure(w) == [Change("delete", StudentOf[w], "PERMANENTLY_DELETED") EXCEPT !.item = w]

InProgress(s) == {w \in Deletions : StudentOf[w] = s /\ deletion[w] = "IN_PROGRESS"}

\* initiatePermanentDeletion; an escalated workflow does not stand in the way.
AskDeletion(h, w) ==
    LET s == StudentOf[w] IN
    /\ deletion[w] = "none"
    /\ ~Busy(w)
    /\ Present(s)
    /\ status[s] \notin {"ACTIVE", "PERMANENTLY_DELETED"}
    /\ InProgress(s) = {}
    /\ Start(h, "initiate_deletion", Erasure(w))

InitiateDeletion(h) ==
    /\ At(h, "initiate_deletion")
    /\ deletion' = [deletion EXCEPT ![call[h].item] = "IN_PROGRESS"]
    /\ Goto(h, "idle")
    /\ UNCHANGED <<mode, people, marks, request, asked, chain>>

\* The engine: an approver escalates, approves or rejects.
Escalate(w) ==
    /\ deletion[w] = "IN_PROGRESS"
    /\ deletion' = [deletion EXCEPT ![w] = "ESCALATED"]
    /\ UNCHANGED <<mode, people, marks, request, asked, chain, pc, call>>

DecideDeletion(h, w) ==
    /\ deletion[w] \in {"IN_PROGRESS", "ESCALATED"}
    /\ Room(StudentOf[w])
    /\ \E place \in {"execute_after", "drop"} : Start(h, place, Erasure(w))

EndDeletion(h) ==
    /\ pc[h] \in {"execute_after", "drop"}
    /\ deletion' = [deletion EXCEPT ![call[h].item] = "over"]
    /\ Goto(h, IF At(h, "drop") THEN "idle" ELSE "execute")
    /\ UNCHANGED <<mode, people, marks, request, asked, chain>>

\* execute throws for an ACTIVE student and returns for a deleted one.
Keep(s) == status[s] \in {"ACTIVE", "PERMANENTLY_DELETED"}

Execute(h) ==
    LET s == call[h].student IN
    /\ At(h, "execute")
    /\ Goto(h, IF ~Present(s) \/ Keep(s) \/ InProgress(s) # {} THEN "idle" ELSE "change")
    /\ UNCHANGED <<mode, people, marks, flows>>

Anonymise(h) ==
    /\ At(h, "anonymise")
    /\ anonymised' = anonymised \cup {call[h].student}
    /\ Goto(h, "idle")
    /\ UNCHANGED <<mode, people, graduated, flows>>

-----------------------------------------------------------------------------
\* The process dies, or the next statement fails; an open transaction is rolled back.
Die(h) ==
    /\ mode = "overlap"
    /\ ~At(h, "idle")
    /\ Goto(h, "idle")
    /\ UNCHANGED <<mode, people, marks, flows>>

ChangeStep(h) == ReadStatus(h) \/ WriteStatus(h)

Step(h) ==
    \/ ChangeStep(h) \/ Stamp(h)
    \/ CreateRequest(h) \/ Initiate(h) \/ EndChain(h) \/ Load(h) \/ Grant(h) \/ Refuse(h)
    \/ InitiateDeletion(h) \/ EndDeletion(h) \/ Execute(h) \/ Anonymise(h)

Next ==
    \/ \E s \in Students : Admit(s) \/ SoftDelete(s)
    \/ \E w \in Deletions : Escalate(w)
    \/ \E h \in Handlers :
          \/ \E s \in Students : Graduate(h, s) \/ \E to \in Statuses : Patch(h, s, to)
          \/ \E r \in Requests : Ask(h, r) \/ Approve(h, r) \/ Reject(h, r) \/ Decide(h, r)
          \/ \E w \in Deletions : AskDeletion(h, w) \/ DecideDeletion(h, w)
          \/ Step(h) \/ Die(h)

Spec == Init /\ [][Next]_vars

-----------------------------------------------------------------------------
Places == {"idle", "change", "write", "stamp", "ask", "initiate", "approved", "rejected", "load",
           "grant", "refuse", "initiate_deletion", "execute_after", "drop", "execute", "anonymise"}
Calls == [for : Purposes, student : Students, item : Requests \cup Deletions, to : Statuses,
          from : Statuses, known : Nat]
Entries == [from : Statuses, to : Statuses, billing : {"GAIN", "LOSS", "NONE"}]

TypeOK ==
    /\ mode \in {"serial", "overlap"}
    /\ status \in [Students -> Statuses \cup {"ABSENT"}]
    /\ removed \subseteq Students
    /\ changes \in [Students -> Seq(Entries)]
    /\ graduated \subseteq Students
    /\ anonymised \subseteq Students
    /\ request \in [Requests -> {"none", "PENDING", "APPROVED", "REJECTED"}]
    /\ asked \in [Requests -> Nat]
    /\ chain \in [Requests -> {"none", "open", "over"}]
    /\ deletion \in [Deletions -> {"none", "IN_PROGRESS", "ESCALATED", "over"}]
    /\ pc \in [Handlers -> Places]
    /\ call \in [Handlers -> Calls]

\* s was changed to `to` after the first n of its changes.
ChangedTo(s, to, n) == \E i \in DOMAIN changes[s] : i > n /\ changes[s][i].to = to

(* However decisions by hand and by the chain overlap, are repeated or die,  *)
(* the student of an APPROVED request was made ACTIVE after it was asked.   *)
ApprovedMeansReactivated ==
    \A r \in Requests : request[r] = "APPROVED" => ChangedTo(StudentOf[r], "ACTIVE", asked[r])

\* What the billing implications in the log add up to.
Worth(e) ==
    CASE e.billing = "GAIN" -> 1
      [] e.billing = "LOSS" -> -1
      [] OTHER -> 0

Gained(s) ==
    SumFunctionOnSet([i \in DOMAIN changes[s] |-> Worth(changes[s][i])], DOMAIN changes[s])

(* When calls do not overlap, the log of a student tells one story from      *)
(* admission to the status the student has, and its gains and losses add up *)
(* to whether the student is billed.                                        *)
LogTellsStatus ==
    mode = "serial" => \A s \in Students : status[s] # "ABSENT" =>
        LET n == Len(changes[s]) IN
        /\ \A i \in 1..n : changes[s][i].from = IF i = 1 THEN "ACTIVE" ELSE changes[s][i - 1].to
        /\ status[s] = IF n = 0 THEN "ACTIVE" ELSE changes[s][n].to
        /\ 1 + Gained(s) = IF status[s] = "ACTIVE" THEN 1 ELSE 0
=============================================================================
