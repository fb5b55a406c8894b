------------------------------ MODULE Workflow ------------------------------
(***************************************************************************)
(* The workflow engine (apps/api/src/workflow-engine): approval chains     *)
(* stored as one database row per instance, advanced by the HTTP handler   *)
(* processStep and by the hourly SLA sweep.  Each statement sent to the    *)
(* database is one step; what a handler read is kept in its own copy until *)
(* it writes, so requests, the sweep and process deaths interleave.        *)
(***************************************************************************)
EXTENDS Naturals, Sequences, FiniteSets

CONSTANTS
    Instances,    \* workflow instances (rows of workflowInstance)
    Users,        \* users that can act
    Admins,       \* users whose permissions include '*'
    Initiators,   \* users who start instances
    Calls,        \* processStep requests; each is used once
    Steps,        \* number of steps of the definition
    Holders,      \* Holders[s]: users who may hold the position of step s
    Escalation,   \* Escalation[s]: users who may hold its escalation position
    Nobody,       \* a null currentAssigneeUserId
    MaxOpen,      \* how many requests and sweeps may overlap
    MayDie        \* whether a process may die between two steps

ASSUME WorkflowAssumption ==
    /\ Instances # {}
    /\ Users # {}
    /\ Steps \in Nat \ {0}
    /\ MaxOpen \in Nat
    /\ MayDie \in BOOLEAN
    /\ Admins \subseteq Users
    /\ Initiators \subseteq Users
    /\ Nobody \notin Users
    /\ Holders \in [1..Steps -> SUBSET Users]
    /\ Escalation \in [1..Steps -> SUBSET Users]

Actions == {"APPROVE", "REJECT", "REQUEST_INFO", "ESCALATE"}
OpenStatus == {"IN_PROGRESS", "ESCALATED"}
Status == OpenStatus \cup {"ABSENT", "APPROVED", "REJECTED"}
Entries == [step : 1..Steps, actor : Users, action : Actions]

VARIABLES
    row,      \* row[i]: the stored instance
    pc,       \* pc[c]: where request c is
    req,      \* req[c]: its instance, actor, action and the copy it read
    phase,    \* the SLA sweep: "idle", "warn" or "breach"
    todo      \* the copies of the rows the sweep still has to go through

vars == <<row, pc, req, phase, todo>>

Rows == [status : Status, step : 1..Steps, assignee : Users \cup {Nobody},
         initiator : Users \cup {Nobody}, trail : Seq(Entries), warned : BOOLEAN]

IsCopies(f) == \E S \in SUBSET Instances : f \in [S -> Rows]

AbsentRow == [status |-> "ABSENT", step |-> 1, assignee |-> Nobody,
              initiator |-> Nobody, trail |-> <<>>, warned |-> FALSE]

NoCopies == [i \in {} |-> AbsentRow]

NoRequest == [inst |-> CHOOSE i \in Instances : TRUE,
              actor |-> CHOOSE u \in Users : TRUE,
              action |-> "APPROVE", copy |-> AbsentRow]

Init ==
    /\ row = [i \in Instances |-> AbsentRow]
    /\ pc = [c \in Calls |-> "idle"]
    /\ req = [c \in Calls |-> NoRequest]
    /\ phase = "idle"
    /\ todo = NoCopies

\* Requests and sweeps between their first and last step.
InFlight ==
    Cardinality({c \in Calls : pc[c] \in {"fetched", "effect"}})
        + (IF phase = "idle" THEN 0 ELSE 1)

-----------------------------------------------------------------------------
\* update({ where: { id } }): one statement, whatever the row holds by now.
Store(i, r) == row' = [row EXCEPT ![i] = r]

\* initiateWorkflow: the first step's holder must resolve; the row is created.
Initiate(i, u) ==
    /\ row[i].status = "ABSENT"
    /\ \E h \in Holders[1] :
          Store(i, [status |-> "IN_PROGRESS", step |-> 1, assignee |-> h,
                    initiator |-> u, trail |-> <<>>, warned |-> FALSE])
    /\ UNCHANGED <<pc, req, phase, todo>>

\* processStep reads the row and checks it is open and the actor may act.
MayAct(r, u) == r.status \in OpenStatus /\ (r.assignee = u \/ u \in Admins)

Fetch(c, i, u, a) ==
    /\ pc[c] = "idle"
    /\ InFlight < MaxOpen
    /\ MayAct(row[i], u)
    /\ req' = [req EXCEPT ![c] = [inst |-> i, actor |-> u, action |-> a, copy |-> row[i]]]
    /\ pc' = [pc EXCEPT ![c] = "fetched"]
    /\ UNCHANGED <<row, phase, todo>>

\* The history written back is the one read, with the new entry appended.
Entry(c) == [step |-> req[c].copy.step, actor |-> req[c].actor, action |-> req[c].action]

\* Faulty variants: the history is overwritten; the chain ends a step early.
NewTrail_Overwritten(c) == <<Entry(c)>>
OnLastStep_OffByOne(c) == req[c].copy.step >= Steps - 1

NewTrail(c) == Append(req[c].copy.trail, Entry(c))
OnLastStep(c) == req[c].copy.step >= Steps
NextStep(c) == req[c].copy.step + 1

WriteReject(c) ==
    /\ pc[c] = "fetched"
    /\ req[c].action = "REJECT"
    /\ Store(req[c].inst, [row[req[c].inst] EXCEPT !.status = "REJECTED",
                                                   !.trail = NewTrail(c),
                                                   !.assignee = Nobody])
    /\ pc' = [pc EXCEPT ![c] = "effect"]
    /\ UNCHANGED <<req, phase, todo>>

\* The question goes to the initiator; status and step are left alone.
WriteRequestInfo(c) ==
    /\ pc[c] = "fetched"
    /\ req[c].action = "REQUEST_INFO"
    /\ Store(req[c].inst, [row[req[c].inst] EXCEPT !.trail = NewTrail(c),
                                                   !.assignee = req[c].copy.initiator])
    /\ pc' = [pc EXCEPT ![c] = "done"]
    /\ UNCHANGED <<req, phase, todo>>

WriteEscalate(c) ==
    /\ pc[c] = "fetched"
    /\ req[c].action = "ESCALATE"
    /\ \E h \in Escalation[req[c].copy.step] :
          Store(req[c].inst, [row[req[c].inst] EXCEPT !.status = "ESCALATED",
                                                      !.trail = NewTrail(c),
                                                      !.assignee = h])
    /\ pc' = [pc EXCEPT ![c] = "done"]
    /\ UNCHANGED <<req, phase, todo>>

\* Who may be assigned the step after the one approved.
NextHolders(c) == Holders[req[c].copy.step + 1]

WriteAdvance(c) ==
    /\ pc[c] = "fetched"
    /\ req[c].action = "APPROVE"
    /\ ~OnLastStep(c)
    /\ \E h \in NextHolders(c) :
          Store(req[c].inst, [row[req[c].inst] EXCEPT !.status = "IN_PROGRESS",
                                                      !.step = NextStep(c),
                                                      !.trail = NewTrail(c),
                                                      !.assignee = h,
                                                      !.warned = req[c].copy.warned])
    /\ pc' = [pc EXCEPT ![c] = "effect"]
    /\ UNCHANGED <<req, phase, todo>>

WriteApprove(c) ==
    /\ pc[c] = "fetched"
    /\ req[c].action = "APPROVE"
    /\ OnLastStep(c)
    /\ Store(req[c].inst, [row[req[c].inst] EXCEPT !.status = "APPROVED",
                                                   !.trail = NewTrail(c),
                                                   !.assignee = Nobody,
                                                   !.warned = req[c].copy.warned])
    /\ pc' = [pc EXCEPT ![c] = "effect"]
    /\ UNCHANGED <<req, phase, todo>>

\* No active holder for the next or escalation position: 400, nothing written.
Unresolved(c) ==
    /\ pc[c] = "fetched"
    /\ \/ req[c].action = "ESCALATE"
       \/ req[c].action = "APPROVE" /\ ~OnLastStep(c)
    /\ pc' = [pc EXCEPT ![c] = "failed"]
    /\ UNCHANGED <<row, req, phase, todo>>

\* The completion handler runs: handleRejected, handleStepAdvanced or handleCompleted.  It
\* may throw (so does completeExcessTransferFromWorkflow, or completeLeaveFromWorkflow where no
\* academic year is found): the request fails, the row keeps its decision, nothing tries again.
RunEffect(c) ==
    /\ pc[c] = "effect"
    /\ \E end \in {"done", "lost"} : pc' = [pc EXCEPT ![c] = end]
    /\ UNCHANGED <<row, req, phase, todo>>

\* The process dies before or after the row was written.
CallDies(c) ==
    /\ MayDie
    /\ pc[c] \in {"fetched", "effect"}
    /\ pc' = [pc EXCEPT ![c] = IF @ = "effect" THEN "lost" ELSE "failed"]
    /\ UNCHANGED <<row, req, phase, todo>>

-----------------------------------------------------------------------------
\* Faulty variant: the scan does not filter on the status.
OpenRows_AnyStatus == {i \in Instances : row[i].status # "ABSENT"}

\* checkSlaBreaches.  Due dates are abstracted: any open row may be near or past
\* its due date, so each scan returns any set of open rows.
OpenRows == {i \in Instances : row[i].status \in OpenStatus}

Without(f, i) == [j \in DOMAIN f \ {i} |-> f[j]]

SweepStart ==
    /\ phase = "idle"
    /\ InFlight < MaxOpen
    /\ phase' = "warn"
    /\ \E S \in SUBSET OpenRows : todo' = [i \in S |-> row[i]]
    /\ UNCHANGED <<row, pc, req>>

SweepWarn(i) ==
    /\ phase = "warn"
    /\ i \in DOMAIN todo
    /\ IF ~todo[i].warned /\ todo[i].assignee # Nobody
       THEN Store(i, [row[i] EXCEPT !.warned = TRUE])
       ELSE UNCHANGED row
    /\ todo' = Without(todo, i)
    /\ UNCHANGED <<pc, req, phase>>

SweepScan ==
    /\ phase = "warn"
    /\ todo = NoCopies
    /\ phase' = "breach"
    /\ \E S \in SUBSET OpenRows : todo' = [i \in S |-> row[i]]
    /\ UNCHANGED <<row, pc, req>>

\* Faulty variant: the row is escalated although nobody holds the position.
SweepEscalate_NoHolder(i) ==
    /\ phase = "breach"
    /\ i \in DOMAIN todo
    /\ \E h \in Escalation[todo[i].step] \cup {Nobody} :
          Store(i, [row[i] EXCEPT !.status = "ESCALATED", !.assignee = h])
    /\ todo' = Without(todo, i)
    /\ UNCHANGED <<pc, req, phase>>

SweepEscalate(i) ==
    /\ phase = "breach"
    /\ i \in DOMAIN todo
    /\ \E h \in Escalation[todo[i].step] :
          Store(i, [row[i] EXCEPT !.status = "ESCALATED", !.assignee = h])
    /\ todo' = Without(todo, i)
    /\ UNCHANGED <<pc, req, phase>>

\* The escalation position has no holder: the row is passed over.
SweepSkip(i) ==
    /\ phase = "breach"
    /\ i \in DOMAIN todo
    /\ todo' = Without(todo, i)
    /\ UNCHANGED <<row, pc, req, phase>>

SweepEnd ==
    /\ phase = "breach"
    /\ todo = NoCopies
    /\ phase' = "idle"
    /\ todo' = NoCopies
    /\ UNCHANGED <<row, pc, req>>

SweepDies ==
    /\ MayDie
    /\ phase # "idle"
    /\ phase' = "idle"
    /\ todo' = NoCopies
    /\ UNCHANGED <<row, pc, req>>

-----------------------------------------------------------------------------
Handle(c) ==
    \/ WriteReject(c) \/ WriteRequestInfo(c) \/ WriteEscalate(c)
    \/ WriteAdvance(c) \/ WriteApprove(c) \/ Unresolved(c) \/ RunEffect(c)

Sweep ==
    \/ SweepStart \/ SweepScan \/ SweepEnd \/ SweepDies
    \/ \E i \in Instances : SweepWarn(i) \/ SweepEscalate(i) \/ SweepSkip(i)

Next ==
    \/ \E i \in Instances, u \in Initiators : Initiate(i, u)
    \/ \E c \in Calls, i \in Instances, u \in Users, a \in Actions : Fetch(c, i, u, a)
    \/ \E c \in Calls : Handle(c) \/ CallDies(c)
    \/ Sweep

Spec == Init /\ [][Next]_vars

-----------------------------------------------------------------------------
TypeOK ==
    /\ row \in [Instances -> Rows]
    /\ pc \in [Calls -> {"idle", "fetched", "effect", "done", "failed", "lost"}]
    /\ req \in [Calls -> [inst : Instances, actor : Users, action : Actions, copy : Rows]]
    /\ phase \in {"idle", "warn", "breach"}
    /\ IsCopies(todo)

\* Requests whose update reached the database.
Wrote(c) == pc[c] \in {"effect", "done", "lost"}

ApprovedAt(i, s) ==
    \E c \in Calls : /\ Wrote(c)
                     /\ req[c].inst = i
                     /\ req[c].action = "APPROVE"
                     /\ req[c].copy.step = s

(* However requests, sweeps and deaths overlap, nothing skips a step: an    *)
(* instance that has reached a step was approved at every earlier step, and *)
(* one whose completion handler ran was approved at every step.             *)
NoStepSkipped ==
    \A i \in Instances :
        /\ \A s \in 1..(row[i].step - 1) : ApprovedAt(i, s)
        /\ row[i].status = "APPROVED" => \A s \in 1..Steps : ApprovedAt(i, s)

(* However they overlap, an open instance is in somebody's inbox: getInbox   *)
(* selects by assignee, so an open row with a null assignee would be stuck. *)
NoOrphan ==
    \A i \in Instances : row[i].status \in OpenStatus => row[i].assignee # Nobody

\* Requests whose handler applied a final decision of instance i.
Effects(i) ==
    {c \in Calls : /\ pc[c] = "done"
                   /\ req[c].inst = i
                   /\ \/ req[c].action = "REJECT"
                      \/ req[c].action = "APPROVE" /\ OnLastStep(c)}

Outcome ==
    [i \in Instances |->
        CASE row[i].status = "ABSENT" -> "none"
          [] row[i].status = "APPROVED" -> "approved"
          [] row[i].status = "REJECTED" -> "rejected"
          [] OTHER -> "open"]
Level == [i \in Instances |-> row[i].step]
Applied == [i \in Instances |-> Cardinality(Effects(i))]

(* The engine implements WorkflowDecision when requests do not overlap.     *)
Decision == INSTANCE WorkflowDecision WITH outcome <- Outcome, level <- Level, applied <- Applied
DecidedOnce == Decision!Spec

AskedBack(i, s) ==
    \E c \in Calls : /\ Wrote(c)
                     /\ req[c].inst = i
                     /\ req[c].action = "REQUEST_INFO"
                     /\ req[c].copy.step = s

Entitled(i, s) ==
    Holders[s] \cup Escalation[s] \cup Admins
        \cup (IF AskedBack(i, s) THEN {row[i].initiator} ELSE {})

\* Where the history t tells of an approval.
Approvals(t) == {n \in 1..Len(t) : t[n].action = "APPROVE"}

(* When requests do not overlap, the stored history of an approved instance *)
(* names one approval of every step, in the order of the steps; and every   *)
(* approval is given by a holder of the position or escalation position of  *)
(* the step, by an administrator, or by the initiator after the step was    *)
(* handed back for information: an assignee left over from another step     *)
(* never approves.                                                          *)
TrailComplete ==
    /\ \A i \in Instances :
          row[i].status = "APPROVED" =>
              LET t == row[i].trail
              IN  /\ {t[n].step : n \in Approvals(t)} = 1..Steps
                  /\ \A m, n \in Approvals(t) : m < n => t[m].step < t[n].step
    /\ \A c \in Calls :
          (Wrote(c) /\ req[c].action = "APPROVE")
              => req[c].actor \in Entitled(req[c].inst, req[c].copy.step)

(* The SLA sweep escalates open instances only.                             *)
SweepOnlyOpen ==
    [][\A i \in Instances :
          (todo' # todo /\ row'[i].status # row[i].status) => row[i].status \in OpenStatus]_vars
=============================================================================
