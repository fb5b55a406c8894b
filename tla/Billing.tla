------------------------------- MODULE Billing ------------------------------
(***************************************************************************)
(* What a campus entity is billed for (apps/api/src/billing), composed     *)
(* with the students who are counted: daily snapshots of the ACTIVE        *)
(* headcount, the draft invoice of one month, its disputes, and the job    *)
(* that locks invoice and snapshots when the dispute window is over.       *)
(* No operation on students reads the billing, so a behaviour either       *)
(* follows the students in full or the billing with their plain changes    *)
(* (scope).                                                                *)
(***************************************************************************)
EXTENDS StudentStatus, FiniteSetsExt

CONSTANTS
    Invoices,    \* draft invoices of the month
    Disputes,    \* disputes that may be raised
    Workers,     \* billing calls and jobs that may overlap
    LastDay,     \* the month has the days 1..LastDay
    MaxOpen,     \* calls on students or the billing that may overlap
    CountedChanges,  \* bound on the changes of one student while the billing is followed
    Attempts,    \* attempts of a lock job
    None         \* no snapshot

ASSUME BillingAssumption ==
    /\ IsFiniteSet(Workers)
    /\ LastDay \in Nat \ {0}
    /\ MaxOpen \in Nat
    /\ Attempts \in Nat \ {0}
    /\ None \notin Int

Days == 1..LastDay

VARIABLES
    scope,       \* "students" or "billing"
    today,       \* the day of the month, UTC
    snapshot,    \* snapshot[d]: billableCount of day d, or None
    locked,      \* days whose snapshot isLockedForBilling
    invoice,     \* invoice[i]: its status, who locked it, what it bills
    touched,     \* invoices whose month changed after it was counted for them and
                 \* before it was locked, or because it was unlocked (in mode "serial"; it
                 \* only serves LockedBillsPeak)
    lockJob,     \* lockJob[i]: the job lock-invoice-i and its failed attempts
    dispute,     \* dispute[d]: its invoice and BillingDisputeStatus
    place,       \* place[w]: where billing call w is
    task         \* task[w]: what it works on and what it read

calendar == <<scope, today>>
counts == <<snapshot, locked, touched>>
billingVars == <<calendar, counts, invoice, lockJob, dispute, place, task>>

NoInvoice == [status |-> "none", retro |-> FALSE, lockedBy |-> "nobody", billed |-> 0]
NoDispute == [about |-> AnyOf(Invoices), status |-> "none"]
NoTask == [day |-> 1, count |-> 0, about |-> AnyOf(Invoices), retro |-> FALSE,
           dispute |-> AnyOf(Disputes), status |-> "none"]

BillingInit ==
    /\ Init
    /\ scope \in {"students", "billing"}
    /\ today = 1
    /\ snapshot = [d \in Days |-> None]
    /\ locked = {}
    /\ invoice = [i \in Invoices |-> NoInvoice]
    /\ touched = {}
    /\ lockJob = [i \in Invoices |-> [state |-> "none", failed |-> 0]]
    /\ dispute = [x \in Disputes |-> NoDispute]
    /\ place = [w \in Workers |-> "idle"]
    /\ task = [w \in Workers |-> NoTask]

\* Calls at work, on students or on the billing.
Open ==
    Cardinality({h \in Handlers : pc[h] # "idle"})
        + Cardinality({w \in Workers : place[w] # "idle"})

Quiet == mode = "serial" => Open = 0
MayWork(w) == place[w] = "idle" /\ Open < (IF mode = "serial" THEN 1 ELSE MaxOpen)

Enter(w, p, what) ==
    /\ MayWork(w)
    /\ place' = [place EXCEPT ![w] = p]
    /\ task' = [task EXCEPT ![w] = what]

In(w, p) == place[w] = p

Move(w, p) ==
    /\ place' = [place EXCEPT ![w] = p]
    /\ task' = IF p = "idle" THEN [task EXCEPT ![w] = NoTask] ELSE task

-----------------------------------------------------------------------------
(* Daily snapshots *)

\* Faulty variant: soft-deleted students are counted.
Billable_Removed == {s \in Students : status[s] = "ACTIVE"}

Billable == {s \in Students : status[s] = "ACTIVE" /\ s \notin removed}

\* The daily job, one of its retries, or a run by hand; each is for the day it was
\* asked for.
TakeSnapshot(w) ==
    /\ Enter(w, "count", [NoTask EXCEPT !.day = today])
    /\ UNCHANGED <<vars, calendar, counts, invoice, lockJob, dispute>>

\* computeDailySnapshot finds none for the day and counts.
Count(w) ==
    /\ In(w, "count")
    /\ IF snapshot[task[w].day] # None
       THEN Move(w, "idle")
       ELSE /\ place' = [place EXCEPT ![w] = "store"]
            /\ task' = [task EXCEPT ![w] = [@ EXCEPT !.count = Cardinality(Billable)]]
    /\ UNCHANGED <<vars, calendar, counts, invoice, lockJob, dispute>>

\* The unique key refuses a second row of the day.
Missing(d) == snapshot[d] = None

\* The invoices whose month was counted.
Counted == {i \in Invoices : mode = "serial" /\ invoice[i].status # "none"}

Store(w) ==
    LET d == task[w].day IN
    /\ In(w, "store")
    /\ IF Missing(d)
       THEN /\ snapshot' = [snapshot EXCEPT ![d] = task[w].count]
            /\ touched' = touched \cup Counted
       ELSE UNCHANGED <<snapshot, touched>>
    /\ Move(w, "idle")
    /\ UNCHANGED <<vars, calendar, locked, invoice, lockJob, dispute>>

\* amendSnapshot of the platform: an existing row that is not locked.
Amend(w, d, n) ==
    /\ snapshot[d] # None
    /\ n # snapshot[d]
    /\ d \notin locked
    /\ Enter(w, "amend", [NoTask EXCEPT !.day = d, !.count = n])
    /\ UNCHANGED <<vars, calendar, counts, invoice, lockJob, dispute>>

WriteAmended(w) ==
    LET d == task[w].day IN
    /\ In(w, "amend")
    /\ snapshot' = [snapshot EXCEPT ![d] = task[w].count]
    /\ touched' = touched \cup {i \in Counted : invoice[i].lockedBy # "job"}
    /\ Move(w, "idle")
    /\ UNCHANGED <<vars, calendar, locked, invoice, lockJob, dispute>>

\* setLockedForBillingInRange, by hand.
LockDays(from, to) ==
    /\ Quiet
    /\ locked' = locked \cup {d \in from..to : snapshot[d] # None}
    /\ locked' # locked
    /\ UNCHANGED <<vars, calendar, snapshot, touched, invoice, lockJob, dispute, place, task>>

UnlockDays(from, to) ==
    /\ Quiet
    /\ locked' = locked \ (from..to)
    /\ locked' # locked
    /\ touched' = touched \cup Counted
    /\ UNCHANGED <<vars, calendar, snapshot, invoice, lockJob, dispute, place, task>>

-----------------------------------------------------------------------------
(* Invoices *)

Rows == {d \in Days : snapshot[d] # None}
RowSum == SumFunctionOnSet(snapshot, Rows)

\* Faulty variant: the average is rounded up past itself.
CeilAverage_Next == IF Rows = {} THEN 0 ELSE RowSum \div Cardinality(Rows) + 1

CeilAverage ==
    IF Rows = {} THEN 0 ELSE (RowSum + Cardinality(Rows) - 1) \div Cardinality(Rows)

\* computeMonthlyBillable: the larger of the peak and the average rounded up.
Watermark == Max({CeilAverage, 0} \cup {snapshot[d] : d \in Rows})

\* applyBillableFloor: what the watermark becomes on the invoice.  The minimum the
\* institution's contract may name (minimumBillableCount) is read and left out.
BilledCount(watermark) == watermark

Draft(w, i, retro) ==
    /\ invoice[i].status = "none"
    /\ \A v \in Workers : ~In(v, "invoice") /\ ~In(v, "rows")
    /\ Enter(w, "rows", [NoTask EXCEPT !.about = i, !.retro = retro])
    /\ UNCHANGED <<vars, calendar, counts, invoice, lockJob, dispute>>

ReadRows(w) ==
    /\ In(w, "rows")
    /\ place' = [place EXCEPT ![w] = "invoice"]
    /\ task' = [task EXCEPT ![w] = [@ EXCEPT !.count = BilledCount(Watermark)]]
    /\ UNCHANGED <<vars, calendar, counts, invoice, lockJob, dispute>>

StoreInvoice(w) ==
    /\ In(w, "invoice")
    /\ invoice' = [invoice EXCEPT ![task[w].about] =
                     [status |-> "DRAFT", retro |-> task[w].retro, lockedBy |-> "nobody",
                      billed |-> task[w].count]]
    /\ Move(w, IF task[w].retro THEN "idle" ELSE "schedule")
    /\ UNCHANGED <<vars, calendar, counts, lockJob, dispute>>

\* scheduleLockInvoice; without a queue nothing is scheduled.
Schedule(w) ==
    /\ In(w, "schedule")
    /\ \/ lockJob' = [lockJob EXCEPT ![task[w].about] = [@ EXCEPT !.state = "waiting"]]
       \/ UNCHANGED lockJob
    /\ Move(w, "idle")
    /\ UNCHANGED <<vars, calendar, counts, invoice, dispute>>

\* finalizeDraftInvoice: one updateMany of a DRAFT that is not locked.
Finalize(i) ==
    /\ Quiet
    /\ invoice[i].status = "DRAFT"
    /\ invoice' = [invoice EXCEPT ![i] = [@ EXCEPT !.status = "OPEN", !.lockedBy = "hand"]]
    /\ UNCHANGED <<vars, calendar, counts, lockJob, dispute, place, task>>

-----------------------------------------------------------------------------
(* The lock job *)

EndJob(i) == lockJob' = [lockJob EXCEPT ![i] = [@ EXCEPT !.state = "done"]]

\* lockInvoiceAfterDisputeWindow, once the delay the job was scheduled with is over;
\* the window may have been made longer since (updateBillingConfig).
LockJob(w, i) ==
    /\ lockJob[i].state = "waiting"
    /\ MayWork(w)
    /\ \E longer \in BOOLEAN :
          IF invoice[i].lockedBy = "nobody" /\ ~longer
          THEN /\ Enter(w, "disputes", [NoTask EXCEPT !.about = i])
               /\ lockJob' = [lockJob EXCEPT ![i] = [@ EXCEPT !.state = "running"]]
          ELSE /\ EndJob(i)
               /\ UNCHANGED <<place, task>>
    /\ UNCHANGED <<vars, calendar, counts, invoice, dispute>>

\* Faulty variant: a dispute under review does not count.
Active_Open == {"OPEN"}

Active == {"OPEN", "MANUAL_REVIEW"}

Disputed(i) == \E x \in Disputes : dispute[x].about = i /\ dispute[x].status \in Active

\* A job that is skipped is done; it is not scheduled again.
CheckDisputes(w) ==
    LET i == task[w].about IN
    /\ In(w, "disputes")
    /\ IF Disputed(i)
       THEN EndJob(i) /\ Move(w, "idle")
       ELSE Move(w, "lock") /\ UNCHANGED lockJob
    /\ UNCHANGED <<vars, calendar, counts, invoice, dispute>>

LockedWith == Rows

\* The transaction: the invoice and the snapshots of its month.
Lock(w) ==
    LET i == task[w].about IN
    /\ In(w, "lock")
    /\ invoice' = [invoice EXCEPT ![i] = [@ EXCEPT !.status = "OPEN", !.lockedBy = "job"]]
    /\ locked' = locked \cup LockedWith
    /\ EndJob(i)
    /\ Move(w, "idle")
    /\ UNCHANGED <<vars, calendar, snapshot, touched, dispute>>

-----------------------------------------------------------------------------
(* Disputes *)

\* initiate: the line of a student who is ACTIVE now is rejected, another accepted,
\* and a dispute whose lines agree is resolved at once.
Verdict(S) ==
    IF Cardinality({status[s] = "ACTIVE" : s \in S}) = 1 THEN "AUTO_RESOLVED" ELSE "MANUAL_REVIEW"

Raise(w, x, i, S) ==
    /\ dispute[x].status = "none"
    /\ \A v \in Workers : ~(In(v, "dispute") /\ task[v].dispute = x)
    /\ invoice[i].status # "none"
    /\ invoice[i].lockedBy = "nobody"
    /\ ~Disputed(i)
    /\ \A s \in S : Present(s)
    /\ Enter(w, "dispute", [NoTask EXCEPT !.about = i, !.dispute = x, !.status = Verdict(S)])
    /\ UNCHANGED <<vars, calendar, counts, invoice, lockJob, dispute>>

StoreDispute(w) ==
    /\ In(w, "dispute")
    /\ dispute' = [dispute EXCEPT ![task[w].dispute] =
                     [about |-> task[w].about, status |-> task[w].status]]
    /\ Move(w, "idle")
    /\ UNCHANGED <<vars, calendar, counts, invoice, lockJob>>

\* resolve: by hand, also what was decided automatically.
Resolve(x) ==
    /\ Quiet
    /\ dispute[x].status \notin {"none", "RESOLVED"}
    /\ dispute' = [dispute EXCEPT ![x] = [@ EXCEPT !.status = "RESOLVED"]]
    /\ UNCHANGED <<vars, calendar, counts, invoice, lockJob, place, task>>

-----------------------------------------------------------------------------
NextDay ==
    /\ today < LastDay
    /\ today' = today + 1
    /\ UNCHANGED <<vars, scope, counts, invoice, lockJob, dispute, place, task>>

\* The process dies; a lock job it was working on is tried again, up to Attempts.
Crash(w) ==
    LET i == task[w].about IN
    /\ mode = "overlap"
    /\ ~In(w, "idle")
    /\ IF place[w] \in {"disputes", "lock"}
       THEN lockJob' = [lockJob EXCEPT ![i] =
                          [state |-> IF @.failed + 1 < Attempts THEN "waiting" ELSE "failed",
                           failed |-> @.failed + 1]]
       ELSE UNCHANGED lockJob
    /\ Move(w, "idle")
    /\ UNCHANGED <<vars, calendar, counts, invoice, dispute>>

Work(w) ==
    \/ Count(w) \/ Store(w) \/ WriteAmended(w) \/ ReadRows(w) \/ StoreInvoice(w) \/ Schedule(w)
    \/ CheckDisputes(w) \/ Lock(w) \/ StoreDispute(w)

Bill ==
    \/ NextDay
    \/ \E from, to \in Days : LockDays(from, to) \/ UnlockDays(from, to)
    \/ \E i \in Invoices : Finalize(i)
    \/ \E x \in Disputes : Resolve(x)
    \/ \E w \in Workers :
          \/ TakeSnapshot(w) \/ Work(w) \/ Crash(w)
          \/ \E d \in Days, n \in 0..Cardinality(Students) : Amend(w, d, n)
          \/ \E i \in Invoices :
                \/ LockJob(w, i)
                \/ \E retro \in BOOLEAN : Draft(w, i, retro)
                \/ \E x \in Disputes, S \in SUBSET Students : Raise(w, x, i, S)

\* What moves the headcount; the first change of a student is enough for it.
Headcount ==
    \/ Quiet /\ \E s \in Students : Admit(s) \/ SoftDelete(s)
    \/ \E h \in Handlers :
          \/ ChangeStep(h)
          \/ \E s \in Students :
                /\ Len(changes[s]) < CountedChanges
                /\ \E to \in {"ACTIVE", "INACTIVE"} : Patch(h, s, to)

BillingNext ==
    \/ scope = "students" /\ Next /\ UNCHANGED billingVars
    \/ /\ scope = "billing"
       /\ Headcount
       /\ UNCHANGED billingVars
       /\ Open' <= IF mode = "serial" THEN 1 ELSE MaxOpen
    \/ scope = "billing" /\ Bill

BillingSpec == BillingInit /\ [][BillingNext]_<<vars, billingVars>>

-----------------------------------------------------------------------------
\* AUTO_RESOLVED and RESOLVED, each ACCEPTED or REJECTED.
DisputeStatuses == {"none", "OPEN", "MANUAL_REVIEW", "AUTO_RESOLVED", "RESOLVED"}

BillingTypeOK ==
    /\ TypeOK
    /\ scope \in {"students", "billing"}
    /\ today \in Days
    /\ snapshot \in [Days -> Nat \cup {None}]
    /\ locked \subseteq Rows
    /\ touched \subseteq Invoices
    /\ invoice \in [Invoices -> [status : {"none", "DRAFT", "OPEN"}, retro : BOOLEAN,
                                 lockedBy : {"nobody", "job", "hand"}, billed : Nat]]
    /\ lockJob \in [Invoices -> [state : {"none", "waiting", "running", "done", "failed"},
                                 failed : 0..Attempts]]
    /\ dispute \in [Disputes -> [about : Invoices, status : DisputeStatuses]]
    /\ place \in [Workers -> {"idle", "count", "store", "amend", "rows", "invoice", "schedule",
                              "disputes", "lock", "dispute"}]
    /\ task \in [Workers -> [day : Days, count : Nat, about : Invoices, retro : BOOLEAN,
                             dispute : Disputes, status : DisputeStatuses]]

(* When calls do not overlap, the snapshot of a day counts the students      *)
(* admitted and not removed, and what their logged changes gained and lost. *)
SnapshotReconciles ==
    [][\A d \in Days : mode = "serial" /\ snapshot[d] = None /\ snapshot'[d] # None =>
          snapshot'[d] = SumFunctionOnSet([s \in Students |-> 1 + Gained(s)],
                                          {s \in Students : Present(s)})]_<<vars, billingVars>>

(* When calls do not overlap, an invoice that the job locked bills the       *)
(* highest count of its month for good, unless a count was taken or amended *)
(* before the lock, taken after it, or the snapshots were unlocked again.   *)
(* So the code says, not its documents: schema.prisma:101, the master prompt *)
(* (2046-2047) and billing-integrity.spec.ts:29-34 raise the billed count to *)
(* the contracted minimum, which applyBillableFloor never looks at.         *)
LockedBillsPeak ==
    mode = "serial" => \A i \in Invoices :
        invoice[i].lockedBy = "job" /\ i \notin touched =>
            invoice[i].billed = Max({0} \cup {snapshot[d] : d \in Rows})

(* When calls do not overlap, nobody disputes an invoice that the job has    *)
(* locked: it waits for the verdict, and no dispute is raised afterwards.   *)
LockedUndisputed ==
    mode = "serial" => \A i \in Invoices, x \in Disputes :
        invoice[i].lockedBy = "job" /\ dispute[x].about = i =>
            dispute[x].status \notin {"OPEN", "MANUAL_REVIEW"}
=============================================================================
